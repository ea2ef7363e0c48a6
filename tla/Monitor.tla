------------------------------- MODULE Monitor -------------------------------
(***************************************************************************)
(* What trait MonitorConnection (connection.rs) promises a program about   *)
(* its registrations, whoever answers them: a call is recorded at most     *)
(* once and for good, it is answered only after it has been recorded, and  *)
(* it may fail at any time, recorded or not. Both the native engine and    *)
(* MockMonitor have to keep this promise; Program.tla shows that they do.  *)
(***************************************************************************)
EXTENDS Sequences

CONSTANT Call  \* the registrations of one run of the program

VARIABLES
  progress,  \* [Call -> {"idle", "pending", "recorded", "answered", "failed"}]
  record     \* the calls recorded, in the order they were

Init == progress = [c \in Call |-> "idle"] /\ record = <<>>

Issue(c) ==
  /\ progress[c] = "idle"
  /\ progress' = [progress EXCEPT ![c] = "pending"]
  /\ UNCHANGED record

Record(c) ==
  /\ progress[c] = "pending"
  /\ progress' = [progress EXCEPT ![c] = "recorded"]
  /\ record' = Append(record, c)

Answer(c) ==
  /\ progress[c] = "recorded"
  /\ progress' = [progress EXCEPT ![c] = "answered"]
  /\ UNCHANGED record

Fail(c) ==
  /\ progress[c] \in {"pending", "recorded"}
  /\ progress' = [progress EXCEPT ![c] = "failed"]
  /\ UNCHANGED record

(* A mock call has no await between recording and its answer.              *)
RecordAndAnswer(c) ==
  /\ progress[c] = "pending"
  /\ progress' = [progress EXCEPT ![c] = "answered"]
  /\ record' = Append(record, c)

(* Another run, with another monitor.                                      *)
Restart == progress' = [c \in Call |-> "idle"] /\ record' = <<>>

Next ==
  \/ \E c \in Call : Issue(c) \/ Record(c) \/ Answer(c) \/ Fail(c) \/ RecordAndAnswer(c)
  \/ Restart

Spec == Init /\ [][Next]_<<progress, record>>
=============================================================================
