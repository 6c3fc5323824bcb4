------------------------------- MODULE CasFile -------------------------------
(***************************************************************************)
(* What fs_write, fs_replace and fs_delete promise, seen from outside: a   *)
(* set of files changed by compare-and-swap.  A call either changes its    *)
(* path in one instant, from the state its precondition names, or changes  *)
(* nothing.  A process may die and power may fail at any time; the files   *)
(* then are what they were, or what they were when last saved.             *)
(*                                                                         *)
(* Stated from the handlers in write.go, replace.go and delete.go;         *)
(* AtomicReplace implements it for a server that has the directory to      *)
(* itself (AtomicReplaceRefinement).                                       *)
(***************************************************************************)
CONSTANTS Paths, Contents, Absent, Missing, NoMatch, NotAFile, Servers, Requests

VARIABLES
  file,    \* what each path holds: a content, Absent or NotAFile
  saved,   \* what each path would hold after a loss of power
  status,  \* of each server's call: "idle", "pending", "ok", "refused"
  ask      \* the request of each server's call

vars == <<file, saved, status, ask>>

Holdings == Contents \cup {Absent, NotAFile}

Init ==
  /\ file \in [Paths -> Holdings]
  /\ saved = file
  /\ status = [s \in Servers |-> "idle"]
  /\ ask \in [Servers -> Requests]

Request(s, r) ==
  /\ status[s] = "idle"
  /\ status' = [status EXCEPT ![s] = "pending"]
  /\ ask' = [ask EXCEPT ![s] = r]
  /\ UNCHANGED <<file, saved>>

\* When the call may take effect on a path that holds now.
Accepts(r, now) ==
  IF r.new = Absent
    THEN /\ now # Absent
         /\ r.pre \in Contents => now = r.pre
    ELSE /\ r.new \in Contents
         /\ r.pre = now
         /\ now # NotAFile

Commit(s) ==
  /\ status[s] = "pending"
  /\ Accepts(ask[s], file[ask[s].path])
  /\ file' = [file EXCEPT ![ask[s].path] = ask[s].new]
  /\ status' = [status EXCEPT ![s] = "ok"]
  /\ UNCHANGED <<saved, ask>>

Refuse(s) ==
  /\ status[s] = "pending"
  /\ status' = [status EXCEPT ![s] = "refused"]
  /\ UNCHANGED <<file, saved, ask>>

\* The reply is delivered, or the process dies before it can be.
Finish(s) ==
  /\ status[s] # "idle"
  /\ status' = [status EXCEPT ![s] = "idle"]
  /\ UNCHANGED <<file, saved, ask>>

Save ==
  /\ saved' = file
  /\ UNCHANGED <<file, status, ask>>

PowerLoss ==
  /\ file' = saved
  /\ status' = [s \in Servers |-> "idle"]
  /\ UNCHANGED <<saved, ask>>

Next ==
  \/ \E s \in Servers :
       (\E r \in Requests : Request(s, r)) \/ Commit(s) \/ Refuse(s) \/ Finish(s)
  \/ Save
  \/ PowerLoss

Spec == Init /\ [][Next]_vars
=============================================================================
