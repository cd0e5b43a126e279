----------------------------- MODULE JobService -----------------------------
(***************************************************************************)
(* What the master promises about a job, whatever processes die and         *)
(* however its handlers interleave: a request_id is bound to one content,   *)
(* executions are counted before they start, a result belongs to that       *)
(* content and is never lost or replaced, and a client is only given a      *)
(* result that is already on disk.  It does not promise that a job is       *)
(* executed once.                                                           *)
(***************************************************************************)
EXTENDS Naturals

CONSTANTS ReqIDs, Fps, NoFp

VARIABLES
    content,    \* the content a request_id was accepted with
    tries,      \* executions attempted
    result,     \* the recorded result: the content it was computed from
    answers     \* the results handed to clients

vars == <<content, tries, result, answers>>

Init ==
    /\ content = [r \in ReqIDs |-> NoFp]
    /\ tries = [r \in ReqIDs |-> 0]
    /\ result = [r \in ReqIDs |-> NoFp]
    /\ answers = {}

Accept(r, f) ==
    /\ content[r] = NoFp
    /\ content' = [content EXCEPT ![r] = f]
    /\ UNCHANGED <<tries, result, answers>>

Try(r) ==
    /\ content[r] # NoFp
    /\ tries' = [tries EXCEPT ![r] = @ + 1]
    /\ UNCHANGED <<content, result, answers>>

Recorded(r) == [result EXCEPT ![r] = content[r]]

AnswerOf(res, r) == [id |-> r, asked |-> content[r], resp |-> res[r]]

Record(r) ==
    /\ tries[r] > 0
    /\ result' = Recorded(r)
    /\ UNCHANGED <<content, tries, answers>>

Answer(r) ==
    /\ result[r] # NoFp
    /\ answers' = answers \cup {AnswerOf(result, r)}
    /\ UNCHANGED <<content, tries, result>>

(* The handler of an execute request records the result it answers with. *)
RecordAndAnswer(r) ==
    /\ tries[r] > 0
    /\ result' = Recorded(r)
    /\ answers' = answers \cup {AnswerOf(Recorded(r), r)}
    /\ UNCHANGED <<content, tries>>

Next ==
    \E r \in ReqIDs :
        \/ \E f \in Fps : Accept(r, f)
        \/ Try(r)
        \/ Record(r)
        \/ Answer(r)
        \/ RecordAndAnswer(r)

Spec == Init /\ [][Next]_vars
=============================================================================
