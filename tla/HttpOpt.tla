------------------------------- MODULE HttpOpt -------------------------------
(***************************************************************************)
(* httpc.DoRequest (httpc/httpr.go): an Opt, which carries both the request  *)
(* and its answer, in several calls one after the other, against a server   *)
(* that answers, breaks off or keeps silent and a context that ends at any  *)
(* time.  A call of Get, Post, Put, Patch or Delete makes an Opt of its own  *)
(* and is the last one here.                                                *)
(*                                                                         *)
(* An answer is known by the number of the call it belongs to; what matters *)
(* of it is whether IsOK accepts its status and whether its body is JSON.    *)
(***************************************************************************)
EXTENDS Naturals

CONSTANT MaxCalls   \* bound: how often DoRequest is called

ASSUME MaxCallsAssumption == MaxCalls \in Nat \ {0}

VARIABLES
  pc,        \* control point of DoRequest; "idle" between two calls
  n,         \* calls so far
  wrapped,   \* is the caller Get, Post, Put, Patch or Delete?
  given,     \* was the url argument of this call not empty?
  copies,    \* how often the query parameters are in Opt.Url
  model,     \* Opt.RequestModel: nil, bytes, a value, or one JSON cannot hold
  isJson,    \* Opt.ContextType = JsonContentType
  raw,       \* Opt.DisableMarshal
  ctx,       \* Opt.Ctx: nil, made by clean, or given by the user
  ended,     \* is that context done?
  cancel,    \* Opt.Cancel # nil
  err,       \* Opt.Err: the step it comes from, or nil
  status,    \* the call whose answer Opt.StatusCode is from; 0: none
  ok,        \* Opt.IsOK()
  stream,    \* the call whose body Opt.ResponseSteam is from
  decoded,   \* the call whose body Opt.ResponseModel is from
  body,      \* Opt.resp.Body: none, open or closed
  exchange,  \* what has come back from the server
  answer     \* the answer: does IsOK accept it, is it JSON?

request == <<given, copies, model, isJson, raw>>
context == <<ctx, ended, cancel>>
result  == <<err, status, ok, stream, decoded>>
network == <<exchange, answer>>
call    == <<n, wrapped>>
vars    == <<pc, call, request, context, result, body, network>>

Running == pc \notin {"idle", "returned", "panicked"}

-----------------------------------------------------------------------------
(* Plausible mistakes, each in the place of the definition it is named after. *)

StatusKept        == UNCHANGED <<status, ok>>
ClosedIfRead      == body' = IF err = "nil" THEN "closed" ELSE body
NoDeadline        == FALSE

-----------------------------------------------------------------------------
(* The caller and Opt.clean.                                                *)

Init ==
  /\ pc = "idle"
  /\ n = 0
  /\ wrapped = FALSE
  /\ given = FALSE
  /\ copies = 0
  /\ model \in {"none", "bytes", "value", "unfit"}
  /\ isJson \in BOOLEAN
  /\ raw \in BOOLEAN
  /\ ctx \in {"nil", "user"}
  /\ cancel \in {FALSE, ctx = "user"}
  /\ ended = FALSE
  /\ err = "nil"
  /\ status = 0
  /\ ok = FALSE
  /\ stream = 0
  /\ decoded = 0
  /\ body = "none"
  /\ exchange = "none"
  /\ answer = [ok |-> FALSE, json |-> FALSE]

\* The url argument wins over Opt.Url, which has the parameters of the last call.
UrlFor(arg) == IF arg THEN 0 ELSE copies

\* o.RequestModel == nil
Filled(m) == IF m = "none" THEN "bytes" ELSE m

\* opt.clean(context.Background(), 15*time.Second): neither Err nor the answer of an
\* earlier call is cleared, but for the model; a context that is done is kept.
DoRequest ==
  /\ pc = "idle"
  /\ n < MaxCalls
  /\ \E arg \in BOOLEAN :
       /\ given' = arg
       /\ copies' = UrlFor(arg)
  /\ model' = Filled(model)
  /\ decoded' = 0
  /\ IF ctx = "nil"
     THEN /\ ctx' = "own"
          /\ ended' = FALSE
          /\ cancel' = TRUE
     ELSE UNCHANGED context
  /\ exchange' = "none"
  /\ body' = "none"
  /\ n' = n + 1
  /\ pc' = "marshal"
  /\ UNCHANGED <<wrapped, isJson, raw, err, status, ok, stream, answer>>

\* Get and its kin: &Opt[T]{Query: query, Url: url, RequestModel: req}
Get ==
  /\ pc = "idle"
  /\ n < MaxCalls
  /\ wrapped' = TRUE
  /\ given' = TRUE
  /\ copies' = 0
  /\ model' \in {"bytes", "value", "unfit"}
  /\ isJson' = TRUE
  /\ raw' = FALSE
  /\ ctx' = "own"
  /\ ended' = FALSE
  /\ cancel' = TRUE
  /\ err' = "nil"
  /\ status' = 0
  /\ ok' = FALSE
  /\ stream' = 0
  /\ decoded' = 0
  /\ exchange' = "none"
  /\ body' = "none"
  /\ n' = n + 1
  /\ pc' = "marshal"
  /\ UNCHANGED answer

\* Between two calls the owner of the Opt may clear what the last one left in it.
Renew ==
  /\ pc = "idle"
  /\ n > 0
  /\ ctx # "nil"
  /\ ctx' = "nil"
  /\ cancel' = FALSE
  /\ err' = "nil"
  /\ UNCHANGED <<pc, call, request, ended, status, ok, stream, decoded, body, network>>

-----------------------------------------------------------------------------
(* DoRequest.                                                               *)

\* The error of json.Marshal, or, when nothing is marshalled, whatever error the
\* Opt already has.
MarshalError ==
  IF model # "bytes" /\ isJson THEN model = "unfit" ELSE err # "nil"

Marshal ==
  /\ pc = "marshal"
  /\ IF MarshalError
     THEN /\ err' = "marshal"
          /\ status' = 0
          /\ ok' = FALSE
          /\ pc' = "cleanup"
     ELSE /\ err' = "nil"
          /\ pc' = "build"
          /\ UNCHANGED <<status, ok>>
  /\ UNCHANGED <<call, request, context, stream, decoded, body, network>>

\* The parameters are added to those that Opt.Url already has.
Build ==
  /\ pc = "build"
  /\ copies' = copies + 1
  /\ pc' = "reqHook"
  /\ UNCHANGED <<call, given, model, isJson, raw, context, result, body, network>>

\* The error of NewRequestWithContext is dropped: a url that does not parse leaves
\* a nil request, which is dereferenced.
BuildPanics ==
  /\ pc = "build"
  /\ pc' = "panicking"
  /\ UNCHANGED <<call, request, context, result, body, network>>

ReqHook ==
  /\ pc = "reqHook"
  /\ \/ /\ err' = "nil"
        /\ pc' = "send"
     \/ /\ err' = "hook"
        /\ pc' = "cleanup"
  /\ UNCHANGED <<call, request, context, status, ok, stream, decoded, body, network>>

\* client.Do: nothing is sent once the context is done.
Send ==
  /\ pc = "send"
  /\ IF ended
     THEN /\ err' = "context"
          /\ pc' = "cleanup"
          /\ UNCHANGED exchange
     ELSE /\ exchange' = "sent"
          /\ pc' = "wait"
          /\ UNCHANGED err
  /\ UNCHANGED <<call, request, context, status, ok, stream, decoded, body, answer>>

\* opt.StatusCode = opt.resp.StatusCode
SetStatus == status' = n /\ ok' = answer.ok

DoReturns ==
  /\ pc = "wait"
  /\ exchange \in {"headers", "complete"}
  /\ SetStatus
  /\ body' = "open"
  /\ pc' = "respHook"
  /\ UNCHANGED <<call, request, context, err, stream, decoded, network>>

DoFails ==
  /\ pc = "wait"
  /\ exchange = "broken" \/ ended
  /\ err' = IF exchange = "broken" THEN "network" ELSE "context"
  /\ pc' = "cleanup"
  /\ UNCHANGED <<call, request, context, status, ok, stream, decoded, body, network>>

RespHook ==
  /\ pc = "respHook"
  /\ \/ /\ err' = "nil"
        /\ pc' = "read"
     \/ /\ err' = "hook"
        /\ pc' = "cleanup"
  /\ UNCHANGED <<call, request, context, status, ok, stream, decoded, body, network>>

\* io.ReadAll: the whole body ...
ReadAll ==
  /\ pc = "read"
  /\ exchange = "complete"
  /\ stream' = n
  /\ err' = "nil"
  /\ pc' = IF ok /\ ~raw THEN "decode" ELSE "cleanup"
  /\ UNCHANGED <<call, request, context, status, ok, decoded, body, network>>

\* ... or the part that had come when the connection broke or the context ended.
ReadFails ==
  /\ pc = "read"
  /\ exchange = "broken" \/ ended
  /\ stream' = n
  /\ err' = "read"
  /\ pc' = "cleanup"
  /\ UNCHANGED <<call, request, context, status, ok, decoded, body, network>>

\* helper.JsonUnmarshal
Decode ==
  /\ pc = "decode"
  /\ IF answer.json
     THEN /\ decoded' = n
          /\ err' = "nil"
     ELSE /\ err' = "decode"
          /\ UNCHANGED decoded
  /\ pc' = "cleanup"
  /\ UNCHANGED <<call, request, context, status, ok, stream, body, network>>

\* opt.resp != nil && opt.resp.Body != nil
CloseBody == body' = IF body = "open" THEN "closed" ELSE body

\* The deferred function, after a panic too.
Cleanup ==
  /\ pc \in {"cleanup", "panicking"}
  /\ CloseBody
  /\ ended' = (ended \/ cancel)
  /\ pc' = IF pc = "panicking" THEN "panicked" ELSE IF wrapped THEN "returned" ELSE "idle"
  /\ UNCHANGED <<call, request, ctx, cancel, result, network>>

Step ==
  \/ Marshal \/ Build \/ ReqHook \/ Send \/ DoReturns \/ DoFails \/ RespHook
  \/ ReadAll \/ ReadFails \/ Decode \/ Cleanup

-----------------------------------------------------------------------------
(* The server and the context.                                              *)

Headers ==
  /\ exchange = "sent"
  /\ exchange' = "headers"
  /\ answer' \in [ok : BOOLEAN, json : BOOLEAN]
  /\ UNCHANGED <<pc, call, request, context, result, body>>

Body ==
  /\ exchange = "headers"
  /\ exchange' = "complete"
  /\ UNCHANGED <<pc, call, request, context, result, body, answer>>

Break ==
  /\ exchange \in {"sent", "headers"}
  /\ Running
  /\ exchange' = "broken"
  /\ UNCHANGED <<pc, call, request, context, result, body, answer>>

\* context.WithTimeout
HasDeadline == ctx = "own"

Expire ==
  /\ Running
  /\ HasDeadline
  /\ ~ended
  /\ ended' = TRUE
  /\ UNCHANGED <<pc, call, request, ctx, cancel, result, body, network>>

UserCancels ==
  /\ ctx = "user"
  /\ ~ended
  /\ ended' = TRUE
  /\ UNCHANGED <<pc, call, request, ctx, cancel, result, body, network>>

Next ==
  \/ DoRequest \/ Get \/ Renew \/ Step \/ BuildPanics
  \/ Headers \/ Body \/ Break \/ Expire \/ UserCancels

\* The calling goroutine runs and time passes; the server owes nothing.
Spec == Init /\ [][Next]_vars /\ WF_vars(Step) /\ WF_vars(Expire)

-----------------------------------------------------------------------------
(* Properties.                                                              *)

\* The error that the caller sees: Get and its kin make one of a bad status.
NoErrorTold == err = "nil" /\ (pc = "returned" => ok)

\* A call that reports no error was sent and answered, and all the Opt says of the
\* answer is of this one, although an Opt is used again with everything it has kept
\* from the calls before, and although answers and the end of the context race.
FreshAnswer ==
  pc \in {"idle", "returned"} /\ n > 0 /\ ctx # "nil" /\ NoErrorTold =>
    /\ exchange = "complete"
    /\ status = n /\ ok = answer.ok
    /\ stream = n
    /\ decoded = IF ok /\ ~raw THEN n ELSE 0

\* However a call ends, the body of its response is closed and the context that it
\* made itself has ended: no connection and no timer is left behind.
NothingLeaks ==
  ~Running => body # "open" /\ (ctx = "own" => ended)

\* A call with a route of its own sends every query parameter once, whatever calls
\* have added to Opt.Url before ("the argument has the higher priority").
QueryOnce ==
  given /\ exchange # "none" => copies = 1

\* A call for which clean made the context returns, even if the server is silent.
CallReturns == Running /\ ctx = "own" ~> ~Running
=============================================================================
