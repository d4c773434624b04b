----------------------------- MODULE HttpAdapter -----------------------------
(***************************************************************************)
(* One call of OpenAIResponsesAdapter.complete (adapters.py): a request is *)
(* sent by a thread of its own for every attempt, while the caller polls   *)
(* the attempt's queue, the cancellation token and the clock.  An attempt  *)
(* that timed out is abandoned, not stopped: its thread may still get an   *)
(* answer, which must not be taken for the answer of a later attempt.      *)
(***************************************************************************)
EXTENDS Integers, FiniteSets

CONSTANTS MaxRetries,  \* retry_policy.max_retries
          None

ASSUME HttpAssumption == MaxRetries \in Nat /\ None # "answered"

\* What a sender thread can put into its queue, by the way it is handled:
\* a completed response, a status that is retried (408, 409, 429, 500 and
\* above), any other error status, TimeoutError or URLError, a body that is
\* not JSON, a response without text, and every other exception.
Answers == {"completed", "busy", "refused", "unreachable", "garbled", "empty", "raised"}

Retryable == {"busy", "unreachable", "deadline"}

Attempts == 1 .. MaxRetries + 2   \* one more than the code may use

VARIABLES pc,
          attempts,   \* the local counter
          sender,     \* the thread of each attempt
          results,    \* the queue of each attempt
          got,        \* the attempt and the answer that was taken from a queue
          overdue,    \* the deadline of the current attempt has passed
          token_set,  \* the token was cancelled
          outcome     \* how the call ended

httpVars == <<pc, attempts, sender, results, got, overdue, token_set, outcome>>

HttpInit ==
  /\ pc = "entry" /\ attempts = 0
  /\ sender = [a \in Attempts |-> "none"]
  /\ results = [a \in Attempts |-> None]
  /\ got = None /\ overdue = FALSE
  /\ token_set = FALSE /\ outcome = None

Goto(l) == pc' = l /\ UNCHANGED outcome

Finish(o) == pc' = "done" /\ outcome' = o

------------------------------------------------------------------------------
\* The token and the credential are looked at before anything is sent.
Enter ==
  /\ pc = "entry"
  /\ \/ token_set /\ Finish("cancelled")
     \/ ~token_set /\ (Goto("head") \/ Finish("failed"))
  /\ UNCHANGED <<attempts, sender, results, got, overdue, token_set>>

\* The head of the attempt loop.
BeginAttempt ==
  /\ pc = "head"
  /\ \/ token_set /\ Finish("cancelled") /\ UNCHANGED attempts
     \/ ~token_set /\ Goto("sending") /\ attempts' = attempts + 1
  /\ UNCHANGED <<sender, results, got, overdue, token_set>>

\* A thread and a queue for the attempt, and a new deadline.
Send ==
  /\ pc = "sending"
  /\ sender' = [sender EXCEPT ![attempts] = "running"]
  /\ overdue' = FALSE
  /\ Goto("polling")
  /\ UNCHANGED <<attempts, results, got, token_set>>

\* raise_if_cancelled in the polling loop.
Poll ==
  /\ pc = "polling"
  /\ IF token_set THEN Finish("cancelled") ELSE Goto("getting")
  /\ UNCHANGED <<attempts, sender, results, got, overdue, token_set>>

\* Slip: past its deadline an attempt goes on waiting.
TimeOutNever ==
  /\ pc = "getting" /\ overdue
  /\ Goto("polling")
  /\ UNCHANGED <<attempts, sender, results, got, overdue, token_set>>

\* The deadline comes before the queue, even when the answer is there.
TimeOut ==
  /\ pc = "getting" /\ overdue
  /\ got' = <<attempts, "deadline">>
  /\ Goto("judging")
  /\ UNCHANGED <<attempts, sender, results, overdue, token_set>>

\* Slip: one queue serves all the attempts of the call.
TakeFromAny ==
  /\ pc = "getting" /\ ~overdue
  /\ \E a \in Attempts :
       /\ results[a] # None
       /\ got' = <<a, results[a]>>
       /\ results' = [results EXCEPT ![a] = None]
  /\ Goto("judging")
  /\ UNCHANGED <<attempts, sender, overdue, token_set>>

Take ==
  /\ pc = "getting" /\ ~overdue
  /\ results[attempts] # None
  /\ got' = <<attempts, results[attempts]>>
  /\ results' = [results EXCEPT ![attempts] = None]
  /\ Goto("judging")
  /\ UNCHANGED <<attempts, sender, overdue, token_set>>

\* queue.Empty: the short wait is over without an answer.
Again ==
  /\ pc = "getting" /\ ~overdue
  /\ results[attempts] = None
  /\ Goto("polling")
  /\ UNCHANGED <<attempts, sender, results, got, overdue, token_set>>

Exhausted == attempts > MaxRetries

\* The answer, an error that ends the call, or one that is retried.
Judge ==
  /\ pc = "judging"
  /\ CASE got[2] \in Retryable -> IF Exhausted THEN Finish("exhausted") ELSE Goto("sleeping")
       [] got[2] = "completed" -> Finish("answered")
       [] got[2] = "raised"    -> Finish("raised")
       [] OTHER                -> Finish("failed")
  /\ UNCHANGED <<attempts, sender, results, got, overdue, token_set>>

\* _sleep: the backoff ends early when the token is cancelled.
Sleep ==
  /\ pc = "sleeping"
  /\ IF token_set THEN Finish("cancelled") ELSE Goto("head")
  /\ UNCHANGED <<attempts, sender, results, got, overdue, token_set>>

Caller == \/ Enter \/ BeginAttempt \/ Send \/ Poll \/ TimeOut \/ Take \/ Again
          \/ Judge \/ Sleep

------------------------------------------------------------------------------
\* send: the http_sender returns or raises, maybe long after its deadline.
Answer(a, v) ==
  /\ sender[a] = "running"
  /\ sender' = [sender EXCEPT ![a] = "ended"]
  /\ results' = [results EXCEPT ![a] = v]
  /\ UNCHANGED <<pc, attempts, got, overdue, token_set, outcome>>

\* The deadline of the current attempt passes.
Expire ==
  /\ pc \in {"polling", "getting"} /\ ~overdue
  /\ overdue' = TRUE
  /\ UNCHANGED <<pc, attempts, sender, results, got, token_set, outcome>>

\* Another thread cancels the token.
Cancel ==
  /\ ~token_set /\ pc # "done"
  /\ token_set' = TRUE
  /\ UNCHANGED <<pc, attempts, sender, results, got, overdue, outcome>>

HttpNext == \/ Caller \/ Expire \/ Cancel
            \/ \E a \in Attempts, v \in Answers : Answer(a, v)

------------------------------------------------------------------------------
(***************************************************************************)
(* The call answers with, or fails because of, what came back from its     *)
(* last request; the late answer of an abandoned one is never used.        *)
(***************************************************************************)
AnswerIsOfLastAttempt ==
  /\ pc = "judging" => got[1] = attempts
  /\ outcome = "answered" => got = <<attempts, "completed">>
==============================================================================
