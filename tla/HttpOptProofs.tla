---------------------------- MODULE HttpOptProofs ----------------------------
(***************************************************************************)
(* Proofs about an Opt that is used for any number of calls.  HttpInv says   *)
(* at each control point of DoRequest what of the Opt is about the present   *)
(* call; everything else in it may be left from an earlier one.             *)
(***************************************************************************)
EXTENDS HttpOpt, TLAPS

\* All that the Opt says of the answer is of this call, and the answer is complete.
OfThisCall ==
  /\ exchange = "complete"
  /\ status = n /\ ok = answer.ok
  /\ stream = n
  /\ decoded = IF ok /\ ~raw THEN n ELSE 0

\* The query is not in the url yet, or just once.
UrlInv ==
  /\ pc \in {"marshal", "build"} /\ given => copies = 0
  /\ pc \in {"reqHook", "send"} /\ given => copies = 1
  /\ pc \in {"marshal", "build", "reqHook", "send", "panicking"} => exchange = "none"
  /\ QueryOnce

\* What is known of the answer grows from step to step, and an error at any of them
\* lasts until the call returns.
AnswerInv ==
  /\ pc \in {"respHook", "read", "decode"} =>
       /\ status = n /\ ok = answer.ok
       /\ exchange \in {"headers", "complete", "broken"}
  /\ pc = "decode" => exchange = "complete" /\ stream = n /\ ok /\ ~raw
  /\ pc \in {"marshal", "build", "reqHook", "send", "wait", "respHook", "read", "decode"} =>
       decoded = 0
  /\ pc = "cleanup" /\ err = "nil" => OfThisCall
  /\ pc \in {"idle", "returned"} /\ n > 0 /\ ctx # "nil" /\ err = "nil" => OfThisCall

\* What is open while the call runs is in reach of the deferred function.
ReleaseInv ==
  /\ body = "open" => pc \in {"respHook", "read", "decode", "cleanup"}
  /\ ctx = "own" => cancel
  /\ pc \in {"idle", "returned", "panicked"} /\ ctx = "own" => ended

HttpInv == UrlInv /\ AnswerInv /\ ReleaseInv

LEMMA HttpInit == Init => HttpInv
  BY DEF Init, HttpInv, UrlInv, AnswerInv, ReleaseInv, QueryOnce

-----------------------------------------------------------------------------
(* One lemma for each part.                                                 *)

LEMMA UrlStep ==
  ASSUME UrlInv, [Next]_vars
  PROVE  UrlInv'
<1>. USE DEF UrlInv, QueryOnce
<1>1. CASE DoRequest
  BY <1>1 DEF DoRequest, UrlFor
<1>2. CASE Get
  BY <1>2 DEF Get
<1>3. CASE Renew
  BY <1>3 DEF Renew, call, request, network
<1>4. CASE Marshal
  BY <1>4 DEF Marshal, call, request, network
<1>5. CASE Build
  BY <1>5 DEF Build, call, network
<1>6. CASE ReqHook
  BY <1>6 DEF ReqHook, call, request, network
<1>7. CASE Send
  BY <1>7 DEF Send, call, request
<1>8. CASE DoReturns \/ DoFails \/ RespHook \/ ReadAll \/ ReadFails \/ Decode
  BY <1>8 DEF DoReturns, DoFails, RespHook, ReadAll, ReadFails, Decode, call, request, network
<1>9. CASE Cleanup \/ BuildPanics
  BY <1>9 DEF Cleanup, BuildPanics, call, request, network
<1>10. CASE Headers \/ Body \/ Break
  BY <1>10 DEF Headers, Body, Break, call, request
<1>11. CASE Expire \/ UserCancels
  BY <1>11 DEF Expire, UserCancels, call, request, network
<1>12. CASE UNCHANGED vars
  BY <1>12 DEF vars, call, request, network
<1>. QED
  BY <1>1, <1>2, <1>3, <1>4, <1>5, <1>6, <1>7, <1>8, <1>9, <1>10, <1>11, <1>12 DEF Next, Step

LEMMA AnswerStep ==
  ASSUME AnswerInv, UrlInv, [Next]_vars
  PROVE  AnswerInv'
<1>. USE DEF AnswerInv, OfThisCall
<1>1. CASE DoRequest
  BY <1>1 DEF DoRequest
<1>2. CASE Get
  BY <1>2 DEF Get
<1>3. CASE Renew
  BY <1>3 DEF Renew, call, request, network
<1>4. CASE Marshal
  BY <1>4 DEF Marshal, call, request, context, network
<1>5. CASE Build
  BY <1>5 DEF Build, call, context, result, network
<1>6. CASE ReqHook
  BY <1>6 DEF ReqHook, call, request, context, network
<1>7. CASE Send
  BY <1>7 DEF Send, call, request, context
<1>8. CASE DoReturns
  BY <1>8 DEF DoReturns, SetStatus, call, request, context, network
<1>9. CASE DoFails
  BY <1>9 DEF DoFails, call, request, context, network
<1>10. CASE RespHook
  BY <1>10 DEF RespHook, call, request, context, network
<1>11. CASE ReadAll
  BY <1>11 DEF ReadAll, call, request, context, network
<1>12. CASE ReadFails
  BY <1>12 DEF ReadFails, call, request, context, network
<1>13. CASE Decode
  BY <1>13 DEF Decode, call, request, context, network
<1>14. CASE Cleanup
  BY <1>14 DEF Cleanup, call, request, result, network
<1>15. CASE BuildPanics
  BY <1>15 DEF BuildPanics, call, request, context, result, network
<1>16. CASE Headers \/ Body \/ Break
  BY <1>16 DEF Headers, Body, Break, call, request, context, result, Running
<1>17. CASE Expire \/ UserCancels
  BY <1>17 DEF Expire, UserCancels, call, request, result, network
<1>18. CASE UNCHANGED vars
  BY <1>18 DEF vars, call, request, context, result, network
<1>. QED
  BY <1>1, <1>2, <1>3, <1>4, <1>5, <1>6, <1>7, <1>8, <1>9, <1>10, <1>11, <1>12, <1>13,
     <1>14, <1>15, <1>16, <1>17, <1>18 DEF Next, Step

LEMMA ReleaseStep ==
  ASSUME ReleaseInv, [Next]_vars
  PROVE  ReleaseInv'
<1>. USE DEF ReleaseInv
<1>1. CASE DoRequest
  BY <1>1 DEF DoRequest, context
<1>2. CASE Get
  BY <1>2 DEF Get
<1>3. CASE Renew
  BY <1>3 DEF Renew
<1>4. CASE Marshal \/ Build \/ BuildPanics \/ ReqHook \/ Send
  BY <1>4 DEF Marshal, Build, BuildPanics, ReqHook, Send, context
<1>5. CASE DoReturns \/ DoFails \/ RespHook \/ ReadAll \/ ReadFails \/ Decode
  BY <1>5 DEF DoReturns, DoFails, RespHook, ReadAll, ReadFails, Decode, context
<1>6. CASE Cleanup
  BY <1>6 DEF Cleanup, CloseBody
<1>7. CASE Headers \/ Body \/ Break
  BY <1>7 DEF Headers, Body, Break, context
<1>8. CASE Expire \/ UserCancels
  BY <1>8 DEF Expire, UserCancels, Running
<1>9. CASE UNCHANGED vars
  BY <1>9 DEF vars, context
<1>. QED
  BY <1>1, <1>2, <1>3, <1>4, <1>5, <1>6, <1>7, <1>8, <1>9 DEF Next, Step

LEMMA HttpInvariant == Spec => []HttpInv
<1>1. HttpInv /\ [Next]_vars => HttpInv'
  BY UrlStep, AnswerStep, ReleaseStep DEF HttpInv
<1>. QED  BY <1>1, HttpInit, PTL DEF Spec

-----------------------------------------------------------------------------
(* The theorems.                                                            *)

\* However often an Opt is used again, with whatever it has kept, a call that reports
\* no error has been answered and speaks of its own answer only.
THEOREM AnswersAreFresh == Spec => []FreshAnswer
<1>1. HttpInv => FreshAnswer
  BY DEF HttpInv, AnswerInv, OfThisCall, FreshAnswer, NoErrorTold
<1>. QED  BY <1>1, HttpInvariant, PTL

\* Every call, on whichever way it returns, closes the body of its response and ends
\* the context that was made for it.
THEOREM EverythingIsReleased == Spec => []NothingLeaks
<1>1. HttpInv => NothingLeaks
  BY DEF HttpInv, ReleaseInv, NothingLeaks, Running
<1>. QED  BY <1>1, HttpInvariant, PTL

\* A call with a route of its own sends each query parameter once.
THEOREM QueryIsSentOnce == Spec => []QueryOnce
<1>1. HttpInv => QueryOnce
  BY DEF HttpInv, UrlInv
<1>. QED  BY <1>1, HttpInvariant, PTL
=============================================================================
