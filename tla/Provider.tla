------------------------------ MODULE Provider ------------------------------
(* The telephony provider, as the mock in mock_provider/main.py behaves:    *)
(* an accepted call talks for a while, ends with one verdict, and reports   *)
(* it by posting the same webhook once or, with duplicate_rate, twice; or   *)
(* its callback is lost, and it ends without a post.                        *)
EXTENDS Deployment

VARIABLES
    callTask,           \* the task a call was placed for
    callState,          \* how far the call is, then its verdict
    posts               \* webhook deliveries still to arrive

providerVars == <<callTask, callState, posts>>

Verdicts == {"completed", "failed"}

ProviderTypeOK ==
    /\ callTask \in [Calls -> Tasks \cup {NoTask}]
    /\ callState \in [Calls -> {"unused", "talking", "dropped"} \cup Verdicts]
    /\ posts \in [Calls -> 0..2]

ProviderInit ==
    /\ callTask = [c \in Calls |-> NoTask]
    /\ callState = [c \in Calls |-> "unused"]
    /\ posts = [c \in Calls |-> 0]

\* place_call answers 200: a fresh provider_call_id for task t. The provider
\* knows nothing of the task's status or of the campaign's cap.
AcceptCall(c, t) ==
    /\ callState[c] = "unused"
    /\ callTask' = [callTask EXCEPT ![c] = t]
    /\ callState' = [callState EXCEPT ![c] = "talking"]
    /\ UNCHANGED posts

\* _fire_callback after its sleep: the verdict, and one or two deliveries.
EndCall(c) ==
    /\ callState[c] = "talking"
    /\ \E v \in Verdicts, n \in 1..2 :
        /\ callState' = [callState EXCEPT ![c] = v]
        /\ posts' = [posts EXCEPT ![c] = n]
    /\ UNCHANGED callTask

\* drop_callback_rate, or deliveries that all fail (except httpx.HTTPError:
\* pass): nothing is tried again. Losing one delivery of two is the same as
\* sending one.
DropCallback(c) ==
    /\ callState[c] = "talking"
    /\ callState' = [callState EXCEPT ![c] = "dropped"]
    /\ UNCHANGED <<callTask, posts>>

Talking == {c \in Calls : callState[c] = "talking"}
=============================================================================
