--------------------------- MODULE SagaDefinition ----------------------------
(***************************************************************************)
(* The saga builder of createSaga() and one turn of a handler built with    *)
(* it.  All builders of a saga write one shared draft; build() copies the   *)
(* handler maps and the triggers but hands out the draft's own lists of     *)
(* handlers and correlations.  In a turn the handler emits intents into a   *)
(* buffer: helpers emit at once, a request when its chain ends in onError() *)
(* and only once, and the intent can still be changed through its handle.   *)
(***************************************************************************)
EXTENDS Naturals, Sequences, SequencesExt, FiniteSets

CONSTANTS
  Tokens,     \* the keys of the response, error and retry handlers
  Requests,   \* the calls of request_response actions in a turn
  NoToken,    \* a chain without onRetry, a contract that was not given
  MaxCalls    \* bound of the builder calls, build() included

ASSUME DefinitionAssumption ==
  NoToken \notin Tokens /\ NoToken \notin Requests /\ NoToken \notin Nat

VARIABLES
  stage,        \* the builder in hand: "open", "awaiting" or "correlated"
  draft,        \* the draft all builders share
  definitions,  \* what build() returned: [copies, maps, of the draft]
  calls,        \* history: the builder calls, in order
  handlerTurn,  \* "none", "running" or "returned"
  intents,      \* intentBuffer of the turn
  taken,        \* the intents the caller of the turn has gone through
  terminal      \* [Requests -> whether its chain has ended]

definitionVars == <<stage, draft, definitions, calls, handlerTurn, intents, taken, terminal>>
turnVars == <<handlerTurn, intents, taken, terminal>>

NoHandlers == [t \in {} |-> 0]

DefinitionInit ==
  /\ stage = "open"
  /\ draft = [start |-> FALSE, correlateBy |-> NoToken, triggers |-> <<>>,
              responses |-> NoHandlers, errors |-> NoHandlers, retries |-> NoHandlers,
              correlations |-> <<>>, handlers |-> <<>>]
  /\ definitions = <<>> /\ calls = <<>>
  /\ handlerTurn = "none" /\ intents = <<>> /\ taken = <<>>
  /\ terminal = [r \in Requests |-> FALSE]

-----------------------------------------------------------------------------
Call(op, key) ==
  /\ handlerTurn = "none" /\ Len(calls) < MaxCalls
  /\ calls' = Append(calls, [op |-> op, key |-> key])
  /\ UNCHANGED turnVars

\* Mutant of Merged: the handler registered first is kept.
MergedFirstWins(map, token) == [t \in DOMAIN map \cup {token} |->
                                  IF t \in DOMAIN map THEN map[t] ELSE Len(calls) + 1]

\* A handler is the number of the call that registered it; later ones win.
Merged(map, token) == [t \in DOMAIN map \cup {token} |->
                         IF t = token THEN Len(calls) + 1 ELSE map[t]]

OnResponses(token) ==
  /\ Call("onResponses", token)
  /\ draft' = [draft EXCEPT !.responses = Merged(@, token)]
  /\ UNCHANGED <<stage, definitions>>

OnErrors(token) ==
  /\ Call("onErrors", token)
  /\ draft' = [draft EXCEPT !.errors = Merged(@, token)]
  /\ UNCHANGED <<stage, definitions>>

OnRetries(token) ==
  /\ Call("onRetries", token)
  /\ draft' = [draft EXCEPT !.retries = Merged(@, token)]
  /\ UNCHANGED <<stage, definitions>>

AddHandlers ==
  /\ Call("on", NoToken)
  /\ draft' = [draft EXCEPT !.handlers = Append(@, Len(calls) + 1)]
  /\ UNCHANGED <<stage, definitions>>

AddCorrelation ==
  /\ Call("correlate", NoToken)
  /\ draft' = [draft EXCEPT !.correlations = Append(@, Len(calls) + 1)]
  /\ UNCHANGED <<stage, definitions>>

Start ==
  /\ stage = "open" /\ Call("start", NoToken)
  /\ draft' = [draft EXCEPT !.start = TRUE]
  /\ stage' = "awaiting"
  /\ UNCHANGED definitions

CorrelateBy ==
  /\ stage # "open" /\ Call("correlateBy", NoToken)
  /\ draft' = [draft EXCEPT !.correlateBy = Len(calls) + 1]
  /\ stage' = "correlated"
  /\ UNCHANGED definitions

TriggeredBy ==
  /\ stage = "correlated" /\ Call("triggeredBy", NoToken)
  /\ draft' = [draft EXCEPT !.triggers = Append(@, Len(calls) + 1)]
  /\ UNCHANGED <<stage, definitions>>

\* The lists of handlers and correlations are not copied: see HandlersOf.
Build ==
  /\ stage # "awaiting" /\ Call("build", NoToken)
  /\ definitions' = Append(definitions,
       [start |-> draft.start, correlateBy |-> draft.correlateBy,
        triggers |-> draft.triggers, responses |-> draft.responses,
        errors |-> draft.errors, retries |-> draft.retries, calls |-> Len(calls)])
  /\ UNCHANGED <<stage, draft>>

HandlersOf(definition) == draft.handlers
CorrelationsOf(definition) == draft.correlations

BuilderNext ==
  \/ \E t \in Tokens : OnResponses(t) \/ OnErrors(t) \/ OnRetries(t)
  \/ AddHandlers \/ AddCorrelation \/ Start \/ CorrelateBy \/ TriggeredBy \/ Build

-----------------------------------------------------------------------------
Definition == Last(definitions)

\* createTokenBindings: a token of two maps keeps the phase written last.
PhaseOf(token) ==
  CASE token \in DOMAIN Definition.retries -> "retry"
    [] token \in DOMAIN Definition.errors -> "error"
    [] OTHER -> "response"

\* ctx.onResponse, ctx.onError and ctx.onRetry
Namespace(phase) ==
  {t \in DOMAIN Definition.responses \cup DOMAIN Definition.errors
         \cup DOMAIN Definition.retries : PhaseOf(t) = phase}

\* The handler of an answer to an earlier turn's request: none, and no turn,
\* for a token the definition has no handler of that phase for.
HandlerOf(phase, token) ==
  LET handlers == IF phase = "response" THEN Definition.responses ELSE Definition.errors
  IN {handlers[t] : t \in {token} \cap DOMAIN handlers}

BeginTurn ==
  /\ handlerTurn = "none" /\ definitions # <<>>
  /\ handlerTurn' = "running"
  /\ UNCHANGED <<stage, draft, definitions, calls, intents, taken, terminal>>

BeginCallback(phase, token) ==
  HandlerOf(phase, token) # {} /\ BeginTurn

Emit(intent) ==
  /\ handlerTurn # "none" /\ Len(intents) < Cardinality(Requests) + 1
  /\ intents' = Append(intents, intent)
  /\ UNCHANGED <<stage, draft, definitions, calls, handlerTurn, taken>>

\* A core action or a one-way helper.
EmitOneWay == Emit([type |-> "one-way", request |-> NoToken, policy |-> 0]) /\ UNCHANGED terminal

\* The chain ends; ending it again returns the first intent and emits nothing.
OnError(r, response, retry, error) ==
  /\ ~terminal[r]
  /\ Emit([type |-> "request", request |-> r, policy |-> 0,
           response |-> response, retry |-> retry, error |-> error])
  /\ terminal' = [terminal EXCEPT ![r] = TRUE]

\* retryPolicy() or onCompensation() on the handle of an intent already emitted.
Override(i) ==
  /\ i \in DOMAIN intents /\ intents[i].policy = 0
  /\ intents' = [intents EXCEPT ![i].policy = 1]
  /\ UNCHANGED <<stage, draft, definitions, calls, handlerTurn, taken, terminal>>

\* The handler returns and its output is gone through; what code it did not
\* await emits afterwards stays in the buffer.
HandlerReturned ==
  /\ handlerTurn = "running"
  /\ handlerTurn' = "returned"
  /\ taken' = [i \in DOMAIN intents |-> intents[i].request]
  /\ UNCHANGED <<stage, draft, definitions, calls, intents, terminal>>

TurnNext ==
  \/ BeginTurn \/ EmitOneWay \/ HandlerReturned
  \/ /\ definitions # <<>>
     /\ \E phase \in {"response", "error"}, t \in Tokens : BeginCallback(phase, t)
  \/ /\ handlerTurn # "none"
     /\ \E r \in Requests, response \in Namespace("response"), error \in Namespace("error"),
           retry \in Namespace("retry") \cup {NoToken} : OnError(r, response, retry, error)
  \/ \E i \in 1..Cardinality(Requests) + 1 : Override(i)

DefinitionNext == BuilderNext \/ TurnNext

DefinitionSpec == DefinitionInit /\ [][DefinitionNext]_definitionVars

-----------------------------------------------------------------------------
LastCall(op, token, bound) ==
  LET at == {i \in 1..bound : calls[i].op = op /\ calls[i].key = token}
  IN IF at = {} THEN 0 ELSE CHOOSE i \in at : \A j \in at : j <= i

\* That a list holds the calls of an operation, in order.
Lists(list, op, bound) ==
  /\ ToSet(list) = {i \in 1..bound : calls[i].op = op}
  /\ \A i, j \in DOMAIN list : i < j => list[i] < list[j]

\* What build() returned, against the calls before it.
DefinitionsKeepTheirCalls == \A i \in DOMAIN definitions :
  LET d == definitions[i]
      handlerOf(map, t) == IF t \in DOMAIN map THEN map[t] ELSE 0
  IN /\ \A t \in Tokens :
          /\ handlerOf(d.responses, t) = LastCall("onResponses", t, d.calls)
          /\ handlerOf(d.errors, t) = LastCall("onErrors", t, d.calls)
          /\ handlerOf(d.retries, t) = LastCall("onRetries", t, d.calls)
     /\ Lists(d.triggers, "triggeredBy", d.calls)
     /\ d.triggers # <<>> => d.start /\ d.correlateBy # NoToken
     /\ Lists(HandlersOf(d), "on", Len(calls))
     /\ Lists(CorrelationsOf(d), "correlate", Len(calls))

\* What a turn emitted, against the definition it runs.
RequestsCanBeAnswered ==
  /\ \A i, j \in DOMAIN intents :
       intents[i].type = "request" /\ intents[i].request = intents[j].request => i = j
  /\ \A i \in DOMAIN intents : intents[i].type = "request" =>
       /\ HandlerOf("response", intents[i].response) # {}
       /\ HandlerOf("error", intents[i].error) # {}
       /\ intents[i].retry # NoToken => intents[i].retry \in DOMAIN Definition.retries
  /\ \A i \in DOMAIN taken : taken[i] = intents[i].request

(* What build() returned says what was called before it: of each token the   *)
(* handler registered last, every trigger in order, and no trigger without   *)
(* the correlation and the start it needs.  Later calls on the builder leave *)
(* that alone, but every handler they add is in all definitions built.  A    *)
(* request is emitted at most once, the chains of several ending in any      *)
(* order; it can be answered, failed and retried with the handlers of the    *)
(* definition its turn runs; and an intent emitted before the handler        *)
(* returned is one its caller went through.                                  *)
SagasRunAsBuilt == DefinitionsKeepTheirCalls /\ RequestsCanBeAnswered
=============================================================================
