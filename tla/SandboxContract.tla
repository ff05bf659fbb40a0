--------------------------- MODULE SandboxContract --------------------------
(***************************************************************************)
(* What Sandbox.Run promises to handleExecute, whatever the backend (the   *)
(* interface of internal/sandbox/sandbox.go).  A call is refused at once,  *)
(* or answered once, or lost with the daemon.  It is not answered before   *)
(* os.RemoveAll was called on its workspace, whose error is ignored: what  *)
(* is there after the answer could not be removed.  Its program, a         *)
(* container or a jail, starts only while the call goes on and its         *)
(* workspace is there.  A status is reported only of a program that was    *)
(* started, with the exception a backend has to declare.  A program may    *)
(* outlive its call, to be collected later.                                *)
(***************************************************************************)
EXTENDS Integers

CONSTANTS
    Runs,       \* the calls of Run
    Unstarted   \* the backend may report a status though it started nothing

VARIABLES
    call,       \* call[r]: "idle", "busy", "answered" or "lost"
    answer,     \* answer[r]: what Run returned
    files,      \* files[r]: the workspace: "none", "made", or "left" by RemoveAll
    program     \* program[r]: "none", "live" or "gone"

vars == <<call, answer, files, program>>

Answers == {"none", "unsupported", "error", "status"}

Init ==
    /\ call = [r \in Runs |-> "idle"]
    /\ answer = [r \in Runs |-> "none"]
    /\ files = [r \in Runs |-> "none"]
    /\ program = [r \in Runs |-> "none"]

Call(r) ==
    /\ call[r] = "idle"
    /\ call' = [call EXCEPT ![r] = "busy"]
    /\ UNCHANGED <<answer, files, program>>

\* ErrUnsupportedLanguage and ErrUnsupportedVersion: nothing was touched.
Refuse(r) ==
    /\ call[r] = "idle"
    /\ call' = [call EXCEPT ![r] = "answered"]
    /\ answer' = [answer EXCEPT ![r] = "unsupported"]
    /\ UNCHANGED <<files, program>>

MakeFiles(r) ==
    /\ call[r] = "busy"
    /\ program[r] = "none"
    /\ files' = [files EXCEPT ![r] = "made"]
    /\ UNCHANGED <<call, answer, program>>

\* A compiled language has two programs, one after the other.
Launch(r) ==
    /\ call[r] = "busy"
    /\ files[r] = "made"
    /\ program[r] # "live"
    /\ program' = [program EXCEPT ![r] = "live"]
    /\ UNCHANGED <<call, answer, files>>

\* The program ends and what it ran in is removed, by Run or by a later hand.
Collect(r) ==
    /\ program[r] = "live"
    /\ program' = [program EXCEPT ![r] = "gone"]
    /\ UNCHANGED <<call, answer, files>>

\* Run returns, its workspace removed or beyond removal.
Answer(r, a) ==
    /\ call[r] = "busy"
    /\ a = "status" => program[r] # "none" \/ Unstarted
    /\ call' = [call EXCEPT ![r] = "answered"]
    /\ answer' = [answer EXCEPT ![r] = a]
    /\ \E f \in {"none", "left"} : files' = [files EXCEPT ![r] = f]
    /\ UNCHANGED program

\* The daemon dies with the calls in progress.
Die ==
    /\ call' = [r \in Runs |-> IF call[r] = "busy" THEN "lost" ELSE call[r]]
    /\ UNCHANGED <<answer, files, program>>

Next ==
    \/ \E r \in Runs :
          \/ Call(r) \/ Refuse(r) \/ MakeFiles(r) \/ Launch(r) \/ Collect(r)
          \/ \E a \in {"error", "status"} : Answer(r, a)
    \/ Die

Spec == Init /\ [][Next]_vars
-----------------------------------------------------------------------------
(* How a backend shows that it keeps the contract: by what each of its      *)
(* steps does to the run it is about.                                       *)

\* The four variables are functions on the runs.
Functional ==
    /\ call = [q \in Runs |-> call[q]] /\ answer = [q \in Runs |-> answer[q]]
    /\ files = [q \in Runs |-> files[q]] /\ program = [q \in Runs |-> program[q]]

\* The contract's view of run r does not change.
Still(r) ==
    /\ call'[r] = call[r] /\ answer'[r] = answer[r]
    /\ files'[r] = files[r] /\ program'[r] = program[r]

\* What one step may do to the run it is about.
Moves(r) ==
    \/ /\ call[r] = "idle" /\ call'[r] = "busy"
       /\ answer'[r] = answer[r] /\ files'[r] = files[r] /\ program'[r] = program[r]
    \/ /\ call[r] = "idle" /\ call'[r] = "answered" /\ answer'[r] = "unsupported"
       /\ files'[r] = files[r] /\ program'[r] = program[r]
    \/ /\ call[r] = "busy" /\ program[r] = "none" /\ files'[r] = "made"
       /\ call'[r] = call[r] /\ answer'[r] = answer[r] /\ program'[r] = program[r]
    \/ /\ call[r] = "busy" /\ files[r] = "made" /\ program[r] # "live" /\ program'[r] = "live"
       /\ call'[r] = call[r] /\ answer'[r] = answer[r] /\ files'[r] = files[r]
    \/ /\ program[r] = "live" /\ program'[r] = "gone"
       /\ call'[r] = call[r] /\ answer'[r] = answer[r] /\ files'[r] = files[r]
    \/ /\ call[r] = "busy" /\ call'[r] = "answered"
       /\ files'[r] \in {"none", "left"}
       /\ answer'[r] = "error" \/ (answer'[r] = "status" /\ (program[r] # "none" \/ Unstarted))
       /\ program'[r] = program[r]

\* A step that leaves every run alone is a stutter.
LEMMA StillIsStutter ==
    ASSUME Functional, Functional', \A q \in Runs : Still(q)
    PROVE  UNCHANGED vars
  BY DEF Functional, Still, vars

\* A step that moves one run and leaves the others alone is a step.
LEMMA MoveIsStep ==
    ASSUME NEW r \in Runs, Functional, Functional',
           \A q \in Runs \ {r} : Still(q), Moves(r)
    PROVE  Next
  <1>1. /\ call' = [call EXCEPT ![r] = call'[r]]
        /\ answer' = [answer EXCEPT ![r] = answer'[r]]
        /\ files' = [files EXCEPT ![r] = files'[r]]
        /\ program' = [program EXCEPT ![r] = program'[r]]
    BY DEF Functional, Still
  <1>2. /\ call'[r] = call[r] => call' = call
        /\ answer'[r] = answer[r] => answer' = answer
        /\ files'[r] = files[r] => files' = files
        /\ program'[r] = program[r] => program' = program
    BY <1>1 DEF Functional
  <1>3. \/ Call(r) \/ Refuse(r) \/ MakeFiles(r) \/ Launch(r) \/ Collect(r)
        \/ Answer(r, "error") \/ Answer(r, "status")
    BY <1>1, <1>2 DEF Moves, Call, Refuse, MakeFiles, Launch, Collect, Answer
  <1> QED
    BY <1>3 DEF Next
=============================================================================
