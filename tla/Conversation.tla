------------------------------ MODULE Conversation ------------------------------
(***************************************************************************)
(* A conversation, from the Telegram poller or the web console to the reply: *)
(* packs/telegram (poller, ingester, dispatcher), packs/chat (sessions,      *)
(* turns, responders), packs/communication (reply gate, threads, dispatch)   *)
(* and packs/identity_auth (principals and their registry).                  *)
(*                                                                          *)
(* A handler of the server submits one object and drains the event queue     *)
(* under one lock, so a new request finds the runtime Quiet.  The runtime     *)
(* fires the behaviors of an event in registration order: `queue` holds one   *)
(* delivery per behavior.  A crash may fall between any two mutations.        *)
(* Objects are numbered in creation order; 0 stands for None.                *)
(***************************************************************************)
EXTENDS Naturals, Sequences, FiniteSets

CONSTANTS
  Senders,        \* user_refs
  Owners,         \* those among identity_settings.owner_identifiers
  Updates,        \* [1..n -> [user : Senders, text : BOOLEAN]], Telegram's updates
  WebUsers,       \* user_refs that write in the web console
  Configs,        \* [policy, auto]: reply_policy and auto_approve_responses
  ContextLimit,   \* max_context_messages
  Grants,         \* [ref, role]: the registrations made while the server runs
  MaxInputs,      \* bound on messages from the web console
  MaxGrants,      \* bound on registrations
  MaxFaults       \* bound on failed posts, restarts, crashes, silent models

Policies == {"open", "known", "owner_only"}
Roles == {"owner", "admin", "collaborator", "external", "blocked"}
Ids == 1..Len(Updates)

ASSUME ConversationAssumption ==
  /\ Owners \subseteq Senders /\ IsFiniteSet(Owners)
  /\ WebUsers \subseteq Senders
  /\ Updates \in Seq([user : Senders, text : BOOLEAN])
  /\ Configs \subseteq [policy : Policies, auto : BOOLEAN]
  /\ Grants \subseteq [ref : Senders, role : Roles]
  /\ ContextLimit \in Nat \ {0}
  /\ {MaxInputs, MaxGrants, MaxFaults} \subseteq Nat

VARIABLES
  config,         \* the settings the server was built with
  sent,           \* updates 1..sent have reached Telegram
  confirmed,      \* Telegram has forgotten the updates below
  poller,         \* [offset, batch]: memory of the poller process
  lost,           \* updates whose post failed
  inputs,         \* chat_input objects
  sessions,       \* chat_session objects
  messages,       \* comm_message objects (with their source)
  turns,          \* chat_turn objects
  candidates,     \* comm_response_candidate objects
  threads,        \* comm_thread objects
  principals,     \* principal objects
  memory,         \* in-process dedup set, caches and registries
  queue,          \* deliveries [behavior, ref] not yet made, in order
  exec,           \* the chat_ingester or thread_tracker in progress
  granted,        \* history: the last role registered for a sender
  life,           \* which process of the server is running
  budget          \* what is left of the bounds

objects == <<inputs, sessions, messages, turns, candidates, threads, principals>>
edge == <<sent, confirmed, poller, lost>>
vars == <<config, edge, objects, memory, queue, exec, granted, life, budget>>

Idle == [pc |-> "idle", input |-> 0, session |-> 0, number |-> 0, gate |-> "open",
         message |-> 0, thread |-> 0]
Empty(S) == [x \in S |-> 0]

\* The registry of principals after rebuild_principal_registry: the last one wins.
\* Mutant: a restart leaves it empty.
NoRegistry(ps) == [r \in Senders |-> 0]
RebuildPrincipalRegistry(ps) ==
  [r \in Senders |->
     IF \E p \in 1..Len(ps) : ps[p].ref = r
     THEN CHOOSE p \in 1..Len(ps) :
            ps[p].ref = r /\ \A q \in (p + 1)..Len(ps) : ps[q].ref # r
     ELSE 0]

\* seen: _SEEN_UPDATE_IDS; session, number: _SESSION_REGISTRY; index:
\* _PRINCIPAL_REGISTRY; thread: _THREAD_REGISTRY with its counts.
\* (_MESSAGE_TO_TURN misses are looked up in the graph: same result.)
Fresh(ps) ==
  [seen |-> {}, session |-> Empty(Senders), number |-> Empty(Senders),
   index |-> RebuildPrincipalRegistry(ps), thread |-> {}]

\* The owners are seeded (bundles.seed_owner_principals).
Seeds(ps) ==
  \E order \in [1..Cardinality(Owners) -> Owners] :
    /\ \A i, j \in DOMAIN order : order[i] = order[j] => i = j
    /\ ps = [i \in DOMAIN order |-> [ref |-> order[i], role |-> "owner"]]

TypeOK ==
  /\ config \in Configs
  /\ sent \in 0..Len(Updates)
  /\ confirmed \in Nat
  /\ poller \in [offset : Nat, batch : Seq(Ids)]
  /\ lost \subseteq Ids
  /\ inputs \in Seq([user : Senders, session : Nat, update : Nat, life : Nat])
  /\ sessions \in Seq([user : Senders, turns : Nat])
  /\ messages \in Seq([input : Nat, session : Nat, gate : {"open", "deflect"},
                       entitled : BOOLEAN, thread : Nat, context : Seq(Nat),
                       silent : BOOLEAN])
  /\ turns \in Seq([session : Nat, number : Nat, message : Nat, answer : Nat,
                    linked : BOOLEAN, life : Nat])
  /\ candidates \in Seq([message : Nat, born : {"proposed", "approved"},
                         status : {"proposed", "approved", "sent"},
                         approved : BOOLEAN, gated : BOOLEAN, calls : Nat])
  /\ threads \in Seq([session : Nat, web : BOOLEAN, count : Nat])
  /\ principals \in Seq([ref : Senders, role : Roles])
  /\ memory.index \in [Senders -> 0..Len(principals)]
  /\ memory.session \in [Senders -> 0..Len(sessions)]

Init ==
  /\ config \in Configs
  /\ sent = 0 /\ confirmed = 1 /\ lost = {}
  /\ poller = [offset |-> 0, batch |-> <<>>]
  /\ inputs = <<>> /\ sessions = <<>> /\ messages = <<>> /\ turns = <<>>
  /\ candidates = <<>> /\ threads = <<>>
  /\ principals \in {ps \in [1..Cardinality(Owners) ->
                              [ref : Owners, role : {"owner"}]] : Seeds(ps)}
  /\ memory = Fresh(principals)
  /\ queue = <<>>
  /\ exec = Idle
  /\ granted = [r \in Senders |-> IF r \in Owners THEN "owner" ELSE "external"]
  /\ budget = [inputs |-> MaxInputs, grants |-> MaxGrants,
               faults |-> MaxFaults]
  /\ life = 0

Spend(b) == budget[b] > 0 /\ budget' = [budget EXCEPT ![b] = @ - 1]

-----------------------------------------------------------------------------
(* Telegram and its poller.  A step of theirs commutes with every step of the *)
(* server but the post: they are taken while the server is Quiet.             *)

Quiet == queue = <<>> /\ exec = Idle

UserSends ==
  /\ Quiet
  /\ sent < Len(Updates)
  /\ sent' = sent + 1
  /\ UNCHANGED <<config, confirmed, poller, lost, objects, memory, queue, exec,
                 granted, life, budget>>

Larger(a, b) == IF a > b THEN a ELSE b

\* getUpdates: Telegram forgets what is below the offset and returns the rest.
GetUpdates ==
  LET from == Larger(confirmed, poller.offset) IN
  /\ Quiet
  /\ poller.batch = <<>>
  /\ from <= sent \/ from > confirmed
  /\ confirmed' = from
  /\ poller' = [poller EXCEPT !.batch =
                  [i \in 1..(IF from > sent THEN 0 ELSE sent + 1 - from)
                     |-> from + i - 1]]
  /\ UNCHANGED <<config, sent, lost, objects, memory, queue, exec, granted, life, budget>>

Deliver(behavior, ref) == [behavior |-> behavior, ref |-> ref]

\* The offset is past the update before it is posted.
Past(u) == Larger(poller.offset, u + 1)

\* submit_telegram_update_fn and the drain that follows.
PostToServer ==
  LET u == Head(poller.batch) IN
  /\ poller.batch # <<>>
  /\ Quiet
  /\ poller' = [offset |-> Past(u), batch |-> Tail(poller.batch)]
  /\ queue' = <<Deliver("telegram_ingester", u)>>
  /\ UNCHANGED <<config, sent, confirmed, lost, objects, memory, exec, granted, life,
                 budget>>

\* The post raises: run_poller sleeps and fetches again from the offset.
PostFails ==
  LET u == Head(poller.batch) IN
  /\ poller.batch # <<>>
  /\ Quiet
  /\ Spend("faults")
  /\ poller' = [offset |-> Past(u), batch |-> <<>>]
  /\ lost' = lost \cup {u}
  /\ UNCHANGED <<config, sent, confirmed, objects, memory, queue, exec, granted, life>>

\* The post times out while the server works on it.
PostTimesOut ==
  LET u == Head(poller.batch) IN
  /\ poller.batch # <<>>
  /\ Quiet
  /\ Spend("faults")
  /\ poller' = [offset |-> Past(u), batch |-> <<>>]
  /\ queue' = <<Deliver("telegram_ingester", u)>>
  /\ UNCHANGED <<config, sent, confirmed, lost, objects, memory, exec, granted, life>>

PollerRestarts ==
  /\ Quiet
  /\ Spend("faults")
  /\ poller' = [offset |-> 0, batch |-> <<>>]
  /\ UNCHANGED <<config, sent, confirmed, lost, objects, memory, queue, exec, granted, life>>

-----------------------------------------------------------------------------
(* Identity: packs/identity_auth *)

\* register_principal_fn: the known principal is patched, or a new one indexed.
RegisterPrincipal(r, role) ==
  LET known == memory.index[r] IN
  /\ Quiet
  /\ Spend("grants")
  /\ granted' = [granted EXCEPT ![r] = role]
  /\ \/ /\ known # 0
        /\ principals' = [principals EXCEPT ![known].role = role]
        /\ UNCHANGED memory
     \/ /\ known = 0
        /\ principals' = Append(principals, [ref |-> r, role |-> role])
        /\ memory' = [memory EXCEPT !.index[r] = Len(principals) + 1]
  /\ UNCHANGED <<config, edge, inputs, sessions, messages, turns, candidates,
                 threads, queue, exec, life>>

\* _resolve_principal: a sender without an indexed principal gets one, owner if
\* configured so, else default_external_role.
ResolvePrincipal(r) ==
  IF memory.index[r] # 0 THEN UNCHANGED <<principals, memory>>
  ELSE /\ principals' = Append(principals,
            [ref |-> r, role |-> IF r \in Owners THEN "owner" ELSE "external"])
       /\ memory' = [memory EXCEPT !.index[r] = Len(principals) + 1]

\* resolve_known_principal
KnownRole(r) ==
  IF memory.index[r] = 0 THEN "none" ELSE principals[memory.index[r]].role

\* Roles a policy serves; whoever is blocked is served under none.
Served(policy) ==
  CASE policy = "open" -> (Roles \cup {"none"}) \ {"blocked"}
    [] policy = "known" -> {"owner", "admin", "collaborator"}
    [] policy = "owner_only" -> {"owner", "admin"}

DecideReply(r) == IF KnownRole(r) \in Served(config.policy) THEN "open" ELSE "deflect"

-----------------------------------------------------------------------------
(* Ingestion *)

Fires(behavior) == exec = Idle /\ queue # <<>> /\ Head(queue).behavior = behavior
Ref == Head(queue).ref

\* Mutant: updates are not recognised.
SeenNever(u) == FALSE
Seen(u) == u \in memory.seen

TelegramIngester ==
  LET u == Ref IN
  /\ Fires("telegram_ingester")
  /\ memory' = [memory EXCEPT !.seen = @ \cup {u}]
  /\ \/ /\ Seen(u) \/ ~Updates[u].text
        /\ queue' = Tail(queue)
        /\ UNCHANGED inputs
     \/ /\ ~Seen(u) /\ Updates[u].text
        /\ inputs' = Append(inputs, [user |-> Updates[u].user, session |-> 0,
                                     update |-> u, life |-> life])
        /\ queue' = Append(Tail(queue), Deliver("chat_ingester", Len(inputs) + 1))
  /\ UNCHANGED <<config, edge, sessions, messages, turns, candidates, threads,
                 principals, exec, granted, life, budget>>

\* submit_chat_input_fn from the web console, which may name any session.
SubmitChatInput(r, s) ==
  /\ Quiet
  /\ Spend("inputs")
  /\ inputs' = Append(inputs, [user |-> r, session |-> s, update |-> 0,
                               life |-> life])
  /\ queue' = <<Deliver("chat_ingester", Len(inputs) + 1)>>
  /\ UNCHANGED <<config, edge, sessions, messages, turns, candidates, threads,
                 principals, memory, exec, granted, life>>

\* Mutant: a turn takes the session's count instead of the next number.
ResumeSame(i) ==
  LET given == inputs[i].session
      r == inputs[i].user
  IN IF given # 0 THEN [session |-> given, number |-> sessions[given].turns]
     ELSE IF memory.session[r] # 0
     THEN [session |-> memory.session[r], number |-> memory.number[r]]
     ELSE [session |-> 0, number |-> 1]

\* The named session, by the object; else the sender's last, by the cache; else
\* a new one.
Resume(i) ==
  LET given == inputs[i].session
      r == inputs[i].user
  IN IF given # 0 THEN [session |-> given, number |-> sessions[given].turns + 1]
     ELSE IF memory.session[r] # 0
     THEN [session |-> memory.session[r], number |-> memory.number[r] + 1]
     ELSE [session |-> 0, number |-> 1]

\* chat_ingester up to the gate; a new session is a mutation of its own.
ChatIngester ==
  LET i == Ref
      at == Resume(i)
      new == at.session = 0
  IN /\ Fires("chat_ingester")
     /\ sessions' = IF new THEN Append(sessions, [user |-> inputs[i].user, turns |-> 0])
                    ELSE sessions
     /\ exec' = [pc |-> "source", input |-> i,
                 session |-> IF new THEN Len(sessions) + 1 ELSE at.session,
                 number |-> at.number, gate |-> DecideReply(inputs[i].user),
                 message |-> 0, thread |-> 0]
     /\ queue' = Tail(queue)
     /\ UNCHANGED <<config, edge, inputs, messages, turns, candidates, threads,
                    principals, memory, granted, life, budget>>

AddSource ==
  /\ exec.pc = "source"
  /\ exec' = [exec EXCEPT !.pc = "message"]
  /\ queue' = Append(queue, Deliver("principal_resolver", inputs[exec.input].user))
  /\ UNCHANGED <<config, edge, objects, memory, granted, life, budget>>

\* Mutant: the deflection responder asks for the console's channel.
SubscribersDeflectOnWeb(gate, web) ==
  <<"comm_message_principal_resolver", "thread_tracker">>
    \o (IF web THEN <<"chat_context_assembler">> ELSE <<>>)
    \o (IF gate = "open" THEN <<"chat_llm_responder">>
        ELSE IF web THEN <<"chat_deflection_responder">> ELSE <<>>)

\* The where clauses of the behaviors on comm_message; channel "chat" is the web.
Subscribers(gate, web) ==
  <<"comm_message_principal_resolver", "thread_tracker">>
    \o (IF web THEN <<"chat_context_assembler">> ELSE <<>>)
    \o <<IF gate = "open" THEN "chat_llm_responder" ELSE "chat_deflection_responder">>

AddMessage ==
  LET i == exec.input
      deliveries == Subscribers(exec.gate, inputs[i].update = 0)
  IN /\ exec.pc = "message"
     /\ messages' = Append(messages,
          [input |-> i, session |-> exec.session, gate |-> exec.gate,
           entitled |-> granted[inputs[i].user] \in Served(config.policy),
           thread |-> 0, context |-> <<>>, silent |-> FALSE])
     /\ queue' = queue \o [k \in 1..Len(deliveries) |->
                             Deliver(deliveries[k], Len(messages) + 1)]
     /\ exec' = [exec EXCEPT !.pc = "turn"]
     /\ UNCHANGED <<config, edge, inputs, sessions, turns, candidates, threads,
                    principals, memory, granted, life, budget>>

AddTurn ==
  /\ exec.pc = "turn"
  /\ turns' = Append(turns, [session |-> exec.session, number |-> exec.number,
                             message |-> Len(messages), answer |-> 0,
                             linked |-> FALSE, life |-> life])
  /\ exec' = [exec EXCEPT !.pc = "link"]
  /\ UNCHANGED <<config, edge, inputs, sessions, messages, candidates, threads,
                 principals, memory, queue, granted, life, budget>>

\* The relation session_contains_turn, through which a transcript finds the turn.
LinkTurn ==
  /\ exec.pc = "link"
  /\ turns' = [turns EXCEPT ![Len(turns)].linked = TRUE]
  /\ exec' = [exec EXCEPT !.pc = "count"]
  /\ UNCHANGED <<config, edge, inputs, sessions, messages, candidates, threads,
                 principals, memory, queue, granted, life, budget>>

\* The session's turn_count and the caches.
CountTurn ==
  LET r == inputs[exec.input].user IN
  /\ exec.pc = "count"
  /\ sessions' = [sessions EXCEPT ![exec.session].turns = exec.number]
  /\ memory' = [memory EXCEPT !.session[r] = exec.session,
                              !.number[r] = exec.number]
  /\ exec' = Idle
  /\ UNCHANGED <<config, edge, inputs, messages, turns, candidates, threads,
                 principals, queue, granted, life, budget>>

-----------------------------------------------------------------------------
(* The behaviors on a source and on a comm_message *)

\* principal_resolver and comm_message_principal_resolver; the second always
\* finds what the first left, unless the source's event was lost.
PrincipalResolver ==
  /\ \/ Fires("principal_resolver") /\ ResolvePrincipal(Ref)
     \/ /\ Fires("comm_message_principal_resolver")
        /\ ResolvePrincipal(inputs[messages[Ref].input].user)
  /\ queue' = Tail(queue)
  /\ UNCHANGED <<config, edge, inputs, sessions, messages, turns, candidates,
                 threads, exec, granted, life, budget>>

OnTelegram(m) == inputs[messages[m].input].update # 0

\* One thread per channel and session, found again by the registry only.
ThreadTracker ==
  LET m == Ref
      new == [session |-> messages[m].session, web |-> ~OnTelegram(m), count |-> 1]
      known == {k \in memory.thread :
                  [threads[k] EXCEPT !.count = 1] = new}
      t == IF known = {} THEN Len(threads) + 1 ELSE CHOOSE k \in known : TRUE
  IN /\ Fires("thread_tracker")
     /\ threads' = IF known = {} THEN Append(threads, new)
                   ELSE [threads EXCEPT ![t].count = @ + 1]
     /\ memory' = IF known = {} THEN [memory EXCEPT !.thread = @ \cup {t}] ELSE memory
     /\ exec' = [Idle EXCEPT !.pc = "thread", !.message = m, !.thread = t]
     /\ queue' = Tail(queue)
     /\ UNCHANGED <<config, edge, inputs, sessions, messages, turns, candidates,
                    principals, granted, life, budget>>

NameThread ==
  /\ exec.pc = "thread"
  /\ messages' = [messages EXCEPT ![exec.message].thread = exec.thread]
  /\ exec' = Idle
  /\ UNCHANGED <<config, edge, inputs, sessions, turns, candidates, threads,
                 principals, memory, queue, granted, life, budget>>

\* The turns linked to m's session without its own, by turn_number, the latest ones.
Transcript(m) ==
  LET prior == {t \in 1..Len(turns) : /\ turns[t].session = messages[m].session
                                      /\ turns[t].linked
                                      /\ turns[t].message # m}
      Before(t) == {u \in prior : \/ turns[u].number < turns[t].number
                                  \/ turns[u].number = turns[t].number /\ u < t}
      n == Cardinality(prior)
      skip == IF n > ContextLimit THEN n - ContextLimit ELSE 0
  IN [k \in 1..(n - skip) |->
        CHOOSE t \in prior : Cardinality(Before(t)) = skip + k - 1]

ChatContextAssembler ==
  LET m == Ref IN
  /\ Fires("chat_context_assembler")
  /\ messages' = IF messages[m].gate = "deflect" THEN messages
                 ELSE [messages EXCEPT ![m].context = Transcript(m)]
  /\ queue' = Tail(queue)
  /\ UNCHANGED <<config, edge, inputs, sessions, turns, candidates, threads,
                 principals, memory, exec, granted, life, budget>>

\* Mutant: a deflection is recorded as sent.
AnswerSent(m, status, gated) ==
  /\ candidates' = Append(candidates,
       [message |-> m, born |-> IF gated THEN "sent" ELSE status, status |-> status,
        approved |-> status = "approved", gated |-> gated, calls |-> 0])
  /\ queue' = Tail(queue) \o
       [k \in 1..3 |-> Deliver(<<"response_dispatcher", "chat_responder",
                                 "telegram_dispatcher">>[k], Len(candidates) + 1)]

\* A candidate, and its event to the behaviors on comm_response_candidate.
Answer(m, status, gated) ==
  /\ candidates' = Append(candidates,
       [message |-> m, born |-> status, status |-> status,
        approved |-> status = "approved", gated |-> gated, calls |-> 0])
  /\ queue' = Tail(queue) \o
       [k \in 1..3 |-> Deliver(<<"response_dispatcher", "chat_responder",
                                 "telegram_dispatcher">>[k], Len(candidates) + 1)]

\* The model may answer nothing.
ChatLlmResponder ==
  LET m == Ref IN
  /\ Fires("chat_llm_responder")
  /\ \/ /\ Answer(m, IF config.auto THEN "approved" ELSE "proposed", FALSE)
        /\ UNCHANGED <<messages, budget>>
     \/ /\ messages' = [messages EXCEPT ![m].silent = TRUE]
        /\ Spend("faults")
        /\ queue' = Tail(queue)
        /\ UNCHANGED candidates
  /\ UNCHANGED <<config, edge, inputs, sessions, turns, threads, principals,
                 memory, exec, granted, life>>

ChatDeflectionResponder ==
  /\ Fires("chat_deflection_responder")
  /\ Answer(Ref, "approved", TRUE)
  /\ UNCHANGED <<config, edge, inputs, sessions, messages, turns, threads,
                 principals, memory, exec, granted, life, budget>>

-----------------------------------------------------------------------------
(* The behaviors on a comm_response_candidate *)

\* Mutant: the status is read from the object's approval, not from the event.
ApprovedEver(c) == TRUE

\* The where clauses and the guards read the status in the creation event.
Approved(c) == candidates[c].born = "approved"

ResponseDispatcher ==
  LET c == Ref IN
  /\ Fires("response_dispatcher")
  /\ candidates' = IF Approved(c) THEN [candidates EXCEPT ![c].status = "sent"]
                   ELSE candidates
  /\ queue' = Tail(queue)
  /\ UNCHANGED <<config, edge, inputs, sessions, messages, turns, threads,
                 principals, memory, exec, granted, life, budget>>

ChatResponder ==
  LET c == Ref IN
  /\ Fires("chat_responder")
  /\ turns' = [t \in 1..Len(turns) |->
       IF Approved(c) /\ turns[t].message = candidates[c].message
       THEN [turns[t] EXCEPT !.answer = c] ELSE turns[t]]
  /\ queue' = Tail(queue)
  /\ UNCHANGED <<config, edge, inputs, sessions, messages, candidates, threads,
                 principals, memory, exec, granted, life, budget>>

\* The capability_call that sends the reply; the gateway takes it from there.
TelegramDispatcher ==
  LET c == Ref IN
  /\ Fires("telegram_dispatcher")
  /\ candidates' = IF Approved(c) /\ OnTelegram(candidates[c].message)
                   THEN [candidates EXCEPT ![c].calls = @ + 1] ELSE candidates
  /\ queue' = Tail(queue)
  /\ UNCHANGED <<config, edge, inputs, sessions, messages, turns, threads,
                 principals, memory, exec, granted, life, budget>>

\* approve_response_fn patches the object; nothing listens to the patch.
ApproveResponse(c) ==
  /\ Quiet
  /\ candidates[c].status = "proposed"
  /\ candidates' = [candidates EXCEPT ![c].status = "approved", ![c].approved = TRUE]
  /\ UNCHANGED <<config, edge, inputs, sessions, messages, turns, threads,
                 principals, memory, queue, exec, granted, life, budget>>

-----------------------------------------------------------------------------

\* The server dies; Runtime.load replays the objects, the registry of principals
\* is rebuilt and the configured owners are registered again, as owners.
CrashRestart ==
  /\ Spend("faults")
  /\ memory' = Fresh(principals)
  /\ principals' = [p \in 1..Len(principals) |->
       IF \E r \in Owners : memory'.index[r] = p
       THEN [principals[p] EXCEPT !.role = "owner"] ELSE principals[p]]
  /\ granted' = [r \in Senders |-> IF r \in Owners THEN "owner" ELSE granted[r]]
  /\ queue' = <<>>
  /\ exec' = Idle
  /\ life' = life + 1
  /\ UNCHANGED <<config, edge, inputs, sessions, messages, turns, candidates,
                 threads>>

Poll == GetUpdates \/ PostToServer

Drain ==
  \/ TelegramIngester \/ ChatIngester \/ AddSource \/ AddMessage \/ AddTurn
  \/ LinkTurn \/ CountTurn \/ PrincipalResolver \/ ThreadTracker \/ NameThread
  \/ ChatContextAssembler
  \/ ChatLlmResponder \/ ChatDeflectionResponder
  \/ ResponseDispatcher \/ ChatResponder \/ TelegramDispatcher

Next ==
  \/ UserSends \/ Poll \/ PostFails \/ PostTimesOut \/ PollerRestarts
  \/ \E r \in WebUsers, s \in 0..Len(sessions) : SubmitChatInput(r, s)
  \/ \E g \in Grants : RegisterPrincipal(g.ref, g.role)
  \/ \E c \in 1..Len(candidates) : ApproveResponse(c)
  \/ Drain
  \/ CrashRestart

Spec == Init /\ [][Next]_vars

\* The poller runs for ever and a request drains the queue before it returns.
FairSpec == Spec /\ WF_vars(Drain) /\ WF_vars(GetUpdates) /\ WF_vars(PostToServer)

-----------------------------------------------------------------------------
(* Properties *)

\* An update becomes a message at most once in the life of the server, however
\* often the poller fetches it: telegram_ingester's _SEEN_UPDATE_IDS, against a
\* poller that starts over from offset 0.
UpdatesAreIngestedOnce ==
  \A i, j \in 1..Len(inputs) :
    (inputs[i].update # 0 /\ inputs[i].update = inputs[j].update
       /\ inputs[i].life = inputs[j].life) => i = j

\* The model answers exactly those who were entitled to it when their message
\* came in, by the last role registered for them: neither the stamp on the
\* message, nor the automatic roles, nor a restart that loses the registry lets a
\* blocked sender in or locks an approved one out (decide_reply, "fail-closed";
\* rebuild_principal_registry).
RepliesFollowTheGate ==
  \A c \in 1..Len(candidates) :
    candidates[c].gated <=> ~messages[candidates[c].message].entitled

\* A message gets one reply, which calls the channel at most once, and nothing is
\* marked as sent or handed to the channel before it was approved
\* (response_dispatcher, telegram_dispatcher).
OneApprovedReply ==
  \A c \in 1..Len(candidates) :
    /\ \A d \in 1..Len(candidates) : candidates[c].message = candidates[d].message => c = d
    /\ candidates[c].calls <= 1
    /\ candidates[c].status = "sent" \/ candidates[c].calls > 0 => candidates[c].approved

\* A reply the owner approves is dispatched, as long as the server lives
\* (approve_response_fn, "triggering response_dispatcher").
ApprovedRepliesAreSent ==
  \A c \in 1..(Len(Updates) + MaxInputs) :
    (c \in DOMAIN candidates /\ candidates[c].approved)
      ~> ((c \in DOMAIN candidates /\ candidates[c].status = "sent") \/ life > 0)

\* Sessions only their user has written in.
Own(s) ==
  \A m \in 1..Len(messages) :
    messages[m].session = s => inputs[messages[m].input].user = sessions[s].user

\* The turns m's transcript has to choose from.
Earlier(m) ==
  {t \in 1..Len(turns) : /\ turns[t].session = messages[m].session
                         /\ turns[t].linked
                         /\ turns[t].message < m}

\* The thread_tracker is between the count and the message, or was when the server
\* crashed: the registry that would use the thread again is gone with it.
BeingCounted(t) == (exec.pc = "thread" /\ exec.thread = t) \/ t \notin memory.thread

\* In such a session the turns are numbered in order, a number twice only across
\* a crash, and the transcript handed to the model lists linked turns in the order
\* they were spoken, never its own, and leaves an earlier one out only if it is full
\* of later ones: the number comes from the object or from the cache, whichever way
\* the session was resumed.  A thread counts the messages that name it, though its
\* counter is kept in memory, but for the one that is being put in it.
TranscriptsFollowTheSession ==
  /\ \A s \in 1..Len(sessions) : Own(s) =>
       /\ \A t, u \in 1..Len(turns) :
            (t < u /\ turns[t].session = s /\ turns[u].session = s) =>
              \/ turns[t].number < turns[u].number
              \/ turns[t].number = turns[u].number /\ turns[t].life < turns[u].life
       /\ \A m \in 1..Len(messages) :
            LET context == messages[m].context IN
            messages[m].session = s =>
              /\ Len(context) <= ContextLimit
              /\ \A k \in 1..Len(context) :
                   /\ turns[context[k]].session = s /\ turns[context[k]].linked
                   /\ turns[context[k]].message # m
                   /\ k > 1 => context[k - 1] < context[k]
              /\ context # <<>> => \A t \in Earlier(m) :
                   \/ \E k \in 1..Len(context) : context[k] = t
                   \/ Len(context) = ContextLimit /\ t < context[1]
  /\ \A t \in 1..Len(threads) :
       LET named == Cardinality({m \in 1..Len(messages) : messages[m].thread = t}) IN
       threads[t].count = named \/ (threads[t].count = named + 1 /\ BeingCounted(t))

Answered(u) ==
  \E t \in 1..Len(turns) :
    /\ inputs[messages[turns[t].message].input].update = u
    /\ \/ turns[t].answer # 0 /\ candidates[turns[t].answer].calls > 0
       \/ messages[turns[t].message].silent

\* As long as the server lives, every text sent on Telegram is answered, unless
\* its post failed, the model said nothing, or replies wait for approval.
UpdatesAreAnswered ==
  \A u \in Ids :
    (u <= sent /\ Updates[u].text /\ config.auto)
      ~> (Answered(u) \/ u \in lost \/ life > 0)
===============================================================================
