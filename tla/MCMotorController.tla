------------------------- MODULE MCMotorController --------------------------
\* One waiting command stands for 32: the queue is full or it is not, and the
\* GUI may post again whenever the worker has taken one.
EXTENDS MotorController
=============================================================================
