----------------------------- MODULE PoliteClient -----------------------------
(***************************************************************************)
(* What the site may expect of one worker process: requests spaced by a    *)
(* base delay, a bounded number of requests per message, and none after    *)
(* the worker has left because it was throttled.                           *)
(***************************************************************************)
EXTENDS Integers

CONSTANTS
    BaseDelay,    \* least time between the starts of two requests
    MaxAttempts,  \* requests for one message
    Forgotten     \* an age past which the last request does not matter

VARIABLES
    age,    \* time since the last request started, up to Forgotten
    tries,  \* requests made for the message in hand
    left    \* the worker has left

vars == <<age, tries, left>>

Init ==
    /\ age = Forgotten
    /\ tries = 0
    /\ left = FALSE

Request ==
    /\ ~left
    /\ age >= BaseDelay
    /\ tries < MaxAttempts
    /\ age' = 0
    /\ tries' = tries + 1
    /\ UNCHANGED left

\* The message is done with; the worker may leave with it.
Finish ==
    /\ ~left
    /\ tries > 0
    /\ tries' = 0
    /\ left' \in BOOLEAN
    /\ UNCHANGED age

\* A new process knows of no earlier request.
Restart ==
    /\ age' = Forgotten
    /\ tries' = 0
    /\ left' = FALSE

Tick ==
    /\ age < Forgotten
    /\ age' = age + 1
    /\ UNCHANGED <<tries, left>>

Next == Request \/ Finish \/ Restart \/ Tick

Spec == Init /\ [][Next]_vars
=============================================================================
