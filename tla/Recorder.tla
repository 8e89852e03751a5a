------------------------------- MODULE Recorder -------------------------------
(***************************************************************************)
(* What dump recording promises, without saying how: one recording at a     *)
(* time, each with a file of its own, each going through its states in       *)
(* order, and each reported at most once, for good.  Requests, the capture   *)
(* child, locks and packet accounting belong to DumpLifecycle, which         *)
(* implements this module.                                                   *)
(***************************************************************************)
CONSTANT File

VARIABLES status,  \* what became of the recording with this file
          up       \* the program is running

recorderVars == <<status, up>>

Busy    == {"starting", "open", "closing"}
Ended   == {"saved", "failed", "discarded", "abandoned"}
Status  == {"unused"} \cup Busy \cup Ended

Move(f, from, to) == /\ up
                     /\ status[f] = from
                     /\ status' = [status EXCEPT ![f] = to]
                     /\ UNCHANGED up

Begin(f)   == /\ \A g \in File : status[g] \notin Busy
              /\ Move(f, "unused", "starting")
Open(f)    == Move(f, "starting", "open")
Discard(f) == Move(f, "starting", "discarded")
Close(f)   == Move(f, "open", "closing")
Finish(f)  == \E to \in {"saved", "failed"} : Move(f, "closing", to)

\* The program exits; a recording still in progress is never reported.
Halt == /\ up
        /\ up' = FALSE
        /\ status' = [f \in File |-> IF status[f] \in Busy THEN "abandoned"
                                                           ELSE status[f]]

RecorderInit == status = [f \in File |-> "unused"] /\ up = TRUE

RecorderNext == \/ \E f \in File : \/ Begin(f) \/ Open(f) \/ Discard(f)
                                   \/ Close(f) \/ Finish(f)
                \/ Halt

RecorderSpec == RecorderInit /\ [][RecorderNext]_recorderVars
=============================================================================
