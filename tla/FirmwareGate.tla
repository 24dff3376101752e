---------------------------- MODULE FirmwareGate ----------------------------
(***************************************************************************)
(* The gate between symbol files and the target (firmware_match::Gate in   *)
(* JLinkPort): windows load, replace and remove symbol files while other   *)
(* threads read, write and sample at the addresses of those files, the     *)
(* target reboots or is reprogrammed, the user forces a mismatch, and the  *)
(* application switches between the local probe and a remote one.          *)
(*                                                                         *)
(* A section under mtx_ is one action.  targetEpoch_ only tells whether it *)
(* has moved since a request was formed, so a request is "now" until the   *)
(* next increment; the same for deviceEpoch_ and for the time of the last  *)
(* check.  A build of the firmware is a model value, and all builds keep   *)
(* their identity at one Flash address.  A file without identity is Plain, *)
(* a firmware without one is Legacy.                                       *)
(***************************************************************************)
CONSTANTS
  Windows,   \* windows that own a symbol file
  Builds,    \* firmware builds that publish an identity
  Files,     \* files to load: builds, or Plain for one without identity
  Firmware,  \* what may be in Flash: builds, or Legacy for one without identity
  Plain, Legacy, None

ASSUME GateAssumption ==
  /\ Files \subseteq Builds \union {Plain} /\ Firmware \subseteq Builds \union {Legacy}
  /\ Builds \intersect {Plain, Legacy, None} = {} /\ None \notin {Plain, Legacy}

VARIABLES
  flash, mailbox,   \* external: firmware of the target, identity in its RAM
  connected,        \* isOpen_ and isConnected_
  working,          \* busy_
  route,            \* remoteSelected_, or the section of connectRemoteDevice
  source,           \* Gate::sources_: what the gate knows of each window's file
  gate,             \* recognizedDevice_, status_, overrideIdentity_
  checked,          \* the last check of this connection: "never" (firmwareCheckedEpoch_
                    \* is not deviceEpoch_), "late" (firmwareCheckedAt_ is unset or 100 ms
                    \* ago) or "fresh"
  hss,              \* the request whose addresses HSS samples, or NoRequest
  page, loaded,     \* of each window: stage of elfLoadThread_, the file it parsed
  image, reload,    \* firmwareBuildImage_ (None: no file yet, for the gate the same as
                    \* Plain), stage of telling the other tools of it
  table,            \* the file whose addresses the channels of other tools hold
  req,              \* a request of another thread
  approved,         \* history: the firmware whose mismatch the user accepts
  missed            \* history: windows whose file changed behind the gate's back

targetVars == <<flash, mailbox>>
linkVars   == <<connected, working, route>>
accessVars == <<gate, checked, hss, req>>
loadVars   == <<page, loaded, image, reload, table>>
gateVars   == <<targetVars, linkVars, source, accessVars, loadVars, approved, missed>>

NoSource  == [file |-> None, loading |-> FALSE]
Request(epoch, w, file, forced) == [epoch |-> epoch, win |-> w, file |-> file, forced |-> forced]
NoRequest == Request("old", None, None, FALSE)    \* refused whatever it asks for

\* override: identity the user forced access for: "this" boot's or a "past" one.
NewGate   == [recognized |-> FALSE, state |-> "Unverified", override |-> "none"]

GateInit ==
  /\ flash \in Firmware /\ mailbox = None
  /\ connected = FALSE /\ working = FALSE /\ route = "local"
  /\ source = [w \in Windows |-> NoSource] /\ gate = NewGate
  /\ checked = "never" /\ hss = NoRequest
  /\ page = [w \in Windows |-> "rest"] /\ loaded = [w \in Windows |-> None]
  /\ image = [w \in Windows |-> None] /\ reload = [w \in Windows |-> "no"]
  /\ table = [w \in Windows |-> None]
  /\ req = NoRequest /\ approved = None /\ missed = {}

-----------------------------------------------------------------------------
(* Gate::checkIdentity: what a check can find, given whether the device    *)
(* was recognized on this connection.  Any read of the target may fail.    *)

Found(state, recognized) == [state |-> state, recognized |-> recognized]

Images == {source[w].file : w \in Windows} \ {None, Plain}

\* Without a protocol or an identity: of a device known to have one this is a loss.
Unknown(recognized) == Found(IF recognized THEN "Unavailable" ELSE "Unverified", recognized)

\* No identity in RAM: one in Flash says that the device is about to publish.
Silent(recognized) ==
  {Unknown(recognized)} \union
  (IF flash \in Builds /\ ~recognized THEN {Found("Unavailable", FALSE)} ELSE {})

\* The RAM may keep the identity of firmware that is no longer in Flash.
Identify(recognized) ==
  {Found("Unavailable", recognized)} \union
  IF flash = Legacy THEN {Unknown(recognized)}
  ELSE {Found("Unavailable", TRUE)} \union
       (IF mailbox = flash
        THEN {Found(IF Images = {flash} THEN "Matched" ELSE "Mismatch", TRUE)} ELSE {})

Outcomes(recognized) ==
  IF \E w \in Windows : source[w].loading THEN {Found("Loading", recognized)}
  ELSE IF Images = {} THEN {Found("Unverified", recognized)}
  ELSE Silent(recognized) \union (IF mailbox = None THEN {} ELSE Identify(recognized))

(* Gate::check and Status: the override survives a check only that finds   *)
(* the identity it was given for; status_.forced is that it is there.      *)

Forced(g) == g.override # "none"
Allows(g) == g.state \in {"Unverified", "Matched"} \/ (g.state = "Mismatch" /\ Forced(g))

(* Mutant: the override is kept for any mismatch.                           *)
CheckAnyBoot(g, found) ==
  [recognized |-> found.recognized, state |-> found.state,
   override |-> IF found.state = "Mismatch" /\ Forced(g) THEN "this" ELSE "none"]

Check(g, found) ==
  [recognized |-> found.recognized, state |-> found.state,
   override |-> IF found.state = "Mismatch" /\ g.override = "this" THEN "this" ELSE "none"]

\* What firmwareAllowsAccessLocked can leave in the gate.
Verdicts(refresh) ==
  IF ~refresh /\ checked = "fresh" THEN {gate}
  ELSE LET g == IF checked = "never" THEN NewGate ELSE gate
       IN {Check(g, found) : found \in Outcomes(g.recognized)}

\* firmwareCheckedAt_ is cleared.
Unset == IF checked = "never" THEN "never" ELSE "late"

Expired(g) == Forced(gate) /\ ~Forced(g)

-----------------------------------------------------------------------------
(* Requests.  targetEpoch_ moves: what was formed before is old.  Formed   *)
(* without an epoch ("any") a request stays as it is, whatever its address.*)

Bumped(r) == IF r.epoch = "now" THEN NoRequest ELSE r

Local == route = "local"

\* A thread takes addresses: a channel's, or those of the window itself.
Form(w) ==
  /\ \/ \E file \in {table[w], image[w]} : req' = Request("now", w, file, Forced(gate))
     \/ req' = Request("any", None, None, FALSE)
  /\ UNCHANGED <<targetVars, linkVars, source, gate, checked, hss, loadVars, approved, missed>>

\* The caller passed the first tests; after the check the epoch is tested again.
Entered == connected /\ Local /\ req.epoch \in {"now", "any"}
Served(g) == Allows(g) /\ (req.epoch = "any" \/ ~Expired(g))

Consult(g, sampling) ==
  /\ gate' = g /\ checked' = "fresh"
  /\ hss' = IF ~Allows(g) \/ Expired(g) THEN NoRequest ELSE sampling
  /\ UNCHANGED <<targetVars, linkVars, source, loadVars, approved, missed>>

Access(g, sampling) ==
  /\ Consult(g, IF Served(g) THEN sampling ELSE hss)
  /\ req' = IF Served(g) THEN NoRequest ELSE IF Expired(g) THEN Bumped(req) ELSE req

\* readMem and readMemAtEpoch
Read ==
  /\ Entered /\ (req.epoch = "any" \/ ~working)
  /\ \E g \in Verdicts(FALSE) : Access(g, hss)

\* writeMem and writeMemAtEpoch
Write ==
  /\ Entered /\ (req.epoch = "any" \/ ~working)
  /\ \E g \in Verdicts(TRUE) : Access(g, hss)

\* writeMemBitfield asks nothing about busy_
WriteBitfield ==
  /\ Entered
  /\ \E g \in Verdicts(TRUE) : Access(g, hss)

\* hssStart; the sampler always gives an epoch.
HssStart ==
  /\ Entered /\ req.epoch = "now"
  /\ \E g \in Verdicts(TRUE) : Access(g, req)

HssRead ==
  /\ Local /\ hss # NoRequest
  /\ \E g \in Verdicts(FALSE) :
       /\ Consult(g, hss)
       /\ req' = IF Expired(g) THEN Bumped(req) ELSE req

HssStop ==
  /\ Local /\ hss # NoRequest
  /\ hss' = NoRequest
  /\ UNCHANGED <<targetVars, linkVars, source, gate, checked, req, loadVars, approved, missed>>

\* 100 ms pass.
Age ==
  /\ checked = "fresh" /\ checked' = "late"
  /\ UNCHANGED <<targetVars, linkVars, source, gate, hss, req, loadVars, approved, missed>>

-----------------------------------------------------------------------------
(* The sources of the gate.  With a remote device selected the gate is     *)
(* not told.                                                               *)

(* Mutant: a new file leaves targetEpoch_ alone.                            *)
SetSourceKeepsRequests(w, s) ==
  /\ UNCHANGED req
  /\ IF route = "remote"
     THEN /\ missed' = missed \union {w}
          /\ UNCHANGED <<source, gate, checked, hss, approved>>
     ELSE /\ source' = [source EXCEPT ![w] = s]
          /\ gate' = [gate EXCEPT !.state = "Unverified", !.override = "none"]
          /\ checked' = Unset /\ hss' = NoRequest
          /\ approved' = None /\ missed' = missed \ {w}
  /\ UNCHANGED <<targetVars, linkVars>>

SetSource(w, s) ==
  /\ req' = Bumped(req)
  /\ IF route = "remote"
     THEN /\ missed' = missed \union {w}
          /\ UNCHANGED <<source, gate, checked, hss, approved>>
     ELSE /\ source' = [source EXCEPT ![w] = s]
          /\ gate' = [gate EXCEPT !.state = "Unverified", !.override = "none"]
          /\ checked' = Unset /\ hss' = NoRequest
          /\ approved' = None /\ missed' = missed \ {w}
  /\ UNCHANGED <<targetVars, linkVars>>

\* A new load may start while the tools have not yet heard of the last one:
\* updateDisplay looks at the time of the file after applyPendingElf.
LoadElf(w) ==
  /\ page[w] # "parsing"
  /\ page' = [page EXCEPT ![w] = "parsing"] /\ loaded' = [loaded EXCEPT ![w] = None]
  /\ SetSource(w, [file |-> image[w], loading |-> TRUE])
  /\ UNCHANGED <<image, reload, table>>

Parse(w) ==
  /\ page[w] = "parsing"
  /\ \/ /\ page' = [page EXCEPT ![w] = "parsed"]
        /\ \E f \in Files : loaded' = [loaded EXCEPT ![w] = f]
     \/ page' = [page EXCEPT ![w] = "failed"] /\ UNCHANGED loaded
  /\ UNCHANGED <<targetVars, linkVars, source, accessVars, image, reload, table, approved, missed>>

(* Mutant: a failed load is not told to the gate.                           *)
ApplyFailedQuietly(w) ==
  /\ page[w] = "failed" /\ reload[w] = "no"
  /\ page' = [page EXCEPT ![w] = "rest"]
  /\ UNCHANGED <<targetVars, linkVars, source, accessVars, loaded, image, reload, table, approved,
                 missed>>

\* applyPendingElf keeps the last complete table when the load failed.
ApplyFailed(w) ==
  /\ page[w] = "failed" /\ reload[w] = "no"
  /\ page' = [page EXCEPT ![w] = "rest"]
  /\ SetSource(w, [file |-> image[w], loading |-> FALSE])
  /\ UNCHANGED <<loaded, image, reload, table>>

ApplyParsed(w) ==
  /\ page[w] = "parsed" /\ reload[w] = "no"
  /\ page' = [page EXCEPT ![w] = "rest"] /\ loaded' = [loaded EXCEPT ![w] = None]
  /\ image' = [image EXCEPT ![w] = loaded[w]] /\ reload' = [reload EXCEPT ![w] = "applied"]
  /\ SetSource(w, [file |-> loaded[w], loading |-> TRUE])
  /\ UNCHANGED table

\* syncSymbolAddresses: the channels take the new addresses.
Sync(w) ==
  /\ reload[w] = "applied"
  /\ reload' = [reload EXCEPT ![w] = "synced"] /\ table' = [table EXCEPT ![w] = image[w]]
  /\ UNCHANGED <<targetVars, linkVars, source, accessVars, page, loaded, image, approved, missed>>

CompleteReload(w) ==
  /\ reload[w] = "synced"
  /\ reload' = [reload EXCEPT ![w] = "no"]
  /\ SetSource(w, [file |-> image[w], loading |-> FALSE])
  /\ UNCHANGED <<page, loaded, image, table>>

\* loadBin: the window no longer has a symbol file.
Unregister(w) ==
  /\ reload[w] = "no"
  /\ image' = [image EXCEPT ![w] = None]
  /\ SetSource(w, NoSource)
  /\ UNCHANGED <<page, loaded, reload, table>>

-----------------------------------------------------------------------------
(* setFirmwareMismatchOverride                                             *)

OverrideOn ==
  /\ connected /\ ~working
  /\ \E g \in Verdicts(TRUE) :
       LET on      == g.state = "Mismatch"
           toggled == Expired(g) \/ (on /\ ~Forced(g))
       IN /\ gate' = IF on THEN [g EXCEPT !.override = "this"] ELSE g
          /\ approved' = IF on THEN flash ELSE approved
          /\ hss' = IF ~Allows(g) \/ toggled THEN NoRequest ELSE hss
          /\ req' = IF toggled THEN Bumped(req) ELSE req
  /\ checked' = "fresh"
  /\ UNCHANGED <<targetVars, linkVars, source, loadVars, missed>>

(* Mutant: sampling goes on when the force is taken back.                   *)
OverrideOffKeepsSampling ==
  /\ Forced(gate)
  /\ gate' = [gate EXCEPT !.override = "none"] /\ approved' = None
  /\ req' = Bumped(req)
  /\ UNCHANGED <<targetVars, linkVars, source, checked, hss, loadVars, missed>>

OverrideOff ==
  /\ Forced(gate)
  /\ gate' = [gate EXCEPT !.override = "none"] /\ approved' = None
  /\ hss' = NoRequest /\ req' = Bumped(req)
  /\ UNCHANGED <<targetVars, linkVars, source, checked, loadVars, missed>>

-----------------------------------------------------------------------------
(* The connection: its own steps are the module ProbeSession.              *)

\* connectAsync, disconnectAsync, resetAsync and eraseFlash, and their end
SetBusy ==
  /\ working' = ~working
  /\ UNCHANGED <<targetVars, connected, route, source, accessVars, loadVars, approved, missed>>

Connect ==
  /\ working /\ Local /\ ~connected
  /\ connected' = TRUE /\ checked' = "never" /\ req' = Bumped(req)
  /\ UNCHANGED <<targetVars, working, route, source, gate, hss, loadVars, approved, missed>>

Close ==
  /\ working /\ Local /\ connected
  /\ connected' = FALSE /\ gate' = NewGate /\ hss' = NoRequest
  /\ checked' = Unset /\ approved' = None
  /\ UNCHANGED <<targetVars, working, route, source, req, loadVars, missed>>

\* recordTransportResultLocked; eraseFlash hands the probe over in the same way.
GateLinkLost ==
  /\ Local /\ connected
  /\ connected' = FALSE /\ checked' = "never" /\ req' = Bumped(req) /\ hss' = NoRequest
  /\ approved' = None
  /\ UNCHANGED <<targetVars, working, route, source, gate, loadVars, missed>>

\* resetTarget; programFile also changes the firmware.
GateReset ==
  /\ Local /\ connected
  /\ mailbox' = None /\ checked' = "never" /\ req' = Bumped(req) /\ approved' = None
  /\ UNCHANGED <<flash, linkVars, source, gate, hss, loadVars, missed>>

ProgramFile ==
  /\ Local /\ connected
  /\ flash' \in Firmware /\ mailbox' \in {mailbox, None}
  /\ checked' = "never" /\ req' = Bumped(req) /\ approved' = None
  /\ UNCHANGED <<linkVars, source, gate, hss, loadVars, missed>>

\* connectRemoteDevice holds the route until the other side has answered.
SwitchBegin ==
  /\ Local /\ route' = "switching" /\ req' = Bumped(req) /\ hss' = NoRequest
  /\ UNCHANGED <<targetVars, connected, working, source, gate, checked, loadVars, approved, missed>>

SwitchEnd ==
  /\ route = "switching"
  /\ \/ route' = "remote" /\ req' = Bumped(req)
     \/ route' = "local" /\ UNCHANGED req
  /\ UNCHANGED <<targetVars, connected, working, source, gate, checked, hss, loadVars, approved,
                 missed>>

SelectLocal ==
  /\ route = "remote" /\ route' = "local" /\ req' = Bumped(req)
  /\ UNCHANGED <<targetVars, connected, working, source, gate, checked, hss, loadVars, approved,
                 missed>>

-----------------------------------------------------------------------------
(* External: the target reboots and its start-up code publishes the        *)
(* identity, new at each boot; another tool may replace the firmware.  A   *)
(* boot clears the mailbox before anyone can read it: an identity that     *)
(* outlived its boot would carry the user's permission over with it.       *)

Reboot ==
  /\ mailbox # None /\ mailbox' = None /\ approved' = None
  /\ UNCHANGED <<flash, linkVars, source, accessVars, loadVars, missed>>

Publish ==
  /\ mailbox = None /\ flash \in Builds /\ mailbox' = flash
  /\ gate' = IF gate.override = "this" THEN [gate EXCEPT !.override = "past"] ELSE gate
  /\ UNCHANGED <<flash, linkVars, source, checked, hss, req, loadVars, approved, missed>>

Replace ==
  /\ flash' \in Firmware \ {flash}
  /\ UNCHANGED <<mailbox, linkVars, source, accessVars, loadVars, approved, missed>>

-----------------------------------------------------------------------------
FileStep(w) ==
  \/ Form(w) \/ LoadElf(w) \/ Parse(w) \/ ApplyFailed(w) \/ ApplyParsed(w)
  \/ Sync(w) \/ CompleteReload(w) \/ Unregister(w)

GateNext ==
  \/ \E w \in Windows : FileStep(w)
  \/ Read \/ Write \/ WriteBitfield \/ HssStart \/ HssRead \/ HssStop \/ Age
  \/ OverrideOn \/ OverrideOff
  \/ SetBusy \/ Connect \/ Close \/ GateLinkLost \/ GateReset \/ ProgramFile
  \/ SwitchBegin \/ SwitchEnd \/ SelectLocal
  \/ Reboot \/ Publish \/ Replace

\* The parser ends and the GUI thread runs every frame.  Strong fairness of the
\* two Apply actions: the user may restart a load between two frames, but not
\* in each of them for ever.
Fairness ==
  \A w \in Windows :
    /\ WF_gateVars(Parse(w)) /\ WF_gateVars(Sync(w)) /\ WF_gateVars(CompleteReload(w))
    /\ SF_gateVars(ApplyFailed(w)) /\ SF_gateVars(ApplyParsed(w))

GateSpec == GateInit /\ [][GateNext]_gateVars
GateFairSpec == GateSpec /\ Fairness

-----------------------------------------------------------------------------
Gates    == [recognized : BOOLEAN, override : {"none", "this", "past"},
             state : {"Unverified", "Loading", "Unavailable", "Matched", "Mismatch"}]
Tables   == Files \union {None}
Requests == [epoch : {"now", "any", "old"}, win : Windows \union {None}, file : Tables,
             forced : BOOLEAN]

GateTypeOK ==
  /\ flash \in Firmware /\ mailbox \in Builds \union {None}
  /\ {connected, working} \subseteq BOOLEAN /\ route \in {"local", "switching", "remote"}
  /\ source \in [Windows -> [file : Tables, loading : BOOLEAN]]
  /\ gate \in Gates /\ checked \in {"never", "late", "fresh"}
  /\ hss \in Requests /\ req \in Requests
  /\ page \in [Windows -> {"rest", "parsing", "parsed", "failed"}]
  /\ reload \in [Windows -> {"no", "applied", "synced"}]
  /\ {loaded, image, table} \subseteq [Windows -> Tables]
  /\ approved \in Firmware \union {None} /\ missed \subseteq Windows

\* The addresses of a request are those of the file the gate judges, and the
\* user's decision about a mismatch is the one it was formed under.
Current(r) ==
  \/ r.win \in missed
  \/ /\ source[r.win] # NoSource => source[r.win] = [file |-> r.file, loading |-> FALSE]
     /\ r.forced = Forced(gate)

\* A read, write or bit-field write bound to an epoch never reaches the target
\* with the addresses of a file that has been replaced or is being replaced, nor
\* across a change of the forced state (README.md:318, 320): the epoch is tested
\* before and after the check of the gate, which may itself end the forced
\* state.  Windows whose file changed while a remote device was selected are
\* excepted: setFirmwareSource did not tell the gate (jlink_port.cpp:1214).
RequestsAreCurrent ==
  [][(Read \/ Write \/ WriteBitfield) /\ req.epoch = "now" /\ Served(gate') => Current(req)]_gateVars

\* High-speed sampling never runs on with old addresses or an old forced state:
\* each of these changes stops it (jlink_port.cpp:1230, 1256, 1292, 1341).
SamplesAreCurrent == hss # NoRequest => Current(hss)

\* What is written to firmware known to differ from the loaded files was allowed
\* by the user for this very boot of this firmware, on this connection and for
\* these files (README.md:318): the gate may not carry the permission over a
\* reboot, a reset, a download, a reconnection or another file.
MismatchApproved ==
  [][(Write \/ WriteBitfield) /\ Served(gate') /\ gate'.state = "Mismatch"
    => approved = flash]_gateVars

\* A load that was begun ends, well or badly, with the gate no longer closed for
\* it, unless the change was made behind its back.
GateReopens ==
  \A w \in Windows : source[w].loading ~> (~source[w].loading \/ w \in missed)
=============================================================================
