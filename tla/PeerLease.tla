----------------------------- MODULE PeerLease -----------------------------
(***************************************************************************)
(* What sharing a device promises about control, with no mutex, epoch or   *)
(* socket in it: remote parties take turns holding a lease, only the       *)
(* holder alters the target while there is one, local threads only while   *)
(* there is none, and control never changes hands in the middle of an      *)
(* alteration.                                                             *)
(***************************************************************************)
CONSTANTS Remote, Local, None

VARIABLES holder, writing

Init == holder = None /\ writing = {}

Grant(r) ==
  /\ holder = None /\ writing = {}
  /\ holder' = r
  /\ UNCHANGED writing

Drop ==
  /\ holder # None /\ writing = {}
  /\ holder' = None
  /\ UNCHANGED writing

Begin(t) ==
  /\ writing = {}
  /\ \/ t \in Remote /\ holder = t
     \/ t \in Local  /\ holder = None
  /\ writing' = {t}
  /\ UNCHANGED holder

Finish ==
  /\ writing # {}
  /\ writing' = {}
  /\ UNCHANGED holder

Next ==
  \/ \E r \in Remote : Grant(r)
  \/ \E t \in Remote \cup Local : Begin(t)
  \/ Drop \/ Finish

Spec == Init /\ [][Next]_<<holder, writing>>
=============================================================================
