--------------------------- MODULE ConversationProofs ---------------------------
(***************************************************************************)
(* Proofs about Conversation, for any senders, updates, settings and bounds.  *)
(*                                                                          *)
(* Objects refer to what exists and deliveries to what they are about         *)
(* (TypeInv); the promises about replies rest on what is true of a delivery   *)
(* for as long as it is queued (DeliveriesHold), the one about the gate on    *)
(* the registry of principals (RegistryInv), the one about transcripts on     *)
(* the three places a turn's number is kept in (NumbersAgree) and on the order  *)
(* in which a thread is counted and named (ThreadsCount).                     *)
(***************************************************************************)
EXTENDS Conversation, FiniteSetTheorems, SequenceTheorems, TLAPS

-----------------------------------------------------------------------------
(* Types *)

MessageBehaviors ==
  {"comm_message_principal_resolver", "thread_tracker", "chat_context_assembler",
   "chat_llm_responder", "chat_deflection_responder"}
Responders == {"chat_llm_responder", "chat_deflection_responder"}
CandidateBehaviors == {"response_dispatcher", "chat_responder", "telegram_dispatcher"}

\* A delivery about one of i inputs, m messages, c candidates.
Deliverable(d, i, m, c) ==
  \/ d.behavior = "telegram_ingester" /\ d.ref \in Ids
  \/ d.behavior = "chat_ingester" /\ d.ref \in 1..i
  \/ d.behavior = "principal_resolver" /\ d.ref \in Senders
  \/ d.behavior \in MessageBehaviors /\ d.ref \in 1..m
  \/ d.behavior \in CandidateBehaviors /\ d.ref \in 1..c
Deliveries(i, m, c) ==
  {d \in [behavior : {"telegram_ingester", "chat_ingester", "principal_resolver"}
                       \cup MessageBehaviors \cup CandidateBehaviors,
          ref : Nat \cup Senders] : Deliverable(d, i, m, c)}

Gates == {"open", "deflect"}
Inputs == [user : Senders, session : Nat, update : Nat, life : Nat]
Sessions == [user : Senders, turns : Nat]
Messages == [input : Nat, session : Nat, gate : Gates, entitled : BOOLEAN,
             thread : Nat, context : Seq(Nat), silent : BOOLEAN]
Turns == [session : Nat, number : Nat, message : Nat, answer : Nat, linked : BOOLEAN,
          life : Nat]
Candidates == [message : Nat, born : {"proposed", "approved"},
               status : {"proposed", "approved", "sent"}, approved : BOOLEAN,
               gated : BOOLEAN, calls : Nat]
Threads == [session : Nat, web : BOOLEAN, count : Nat]
Principals == [ref : Senders, role : Roles]
Frames == [pc : {"idle", "source", "message", "turn", "link", "count", "thread"},
           input : Nat, session : Nat, number : Nat, gate : Gates, message : Nat,
           thread : Nat]
\* Caches over s sessions, p principals and t threads.
Caches(s, p, t) ==
  [seen : SUBSET Ids, session : [Senders -> 0..s], number : [Senders -> Nat],
   index : [Senders -> 0..p], thread : SUBSET (1..t)]

Tables ==
  /\ inputs \in Seq(Inputs)
  /\ sessions \in Seq(Sessions)
  /\ messages \in Seq(Messages)
  /\ turns \in Seq(Turns)
  /\ candidates \in Seq(Candidates)
  /\ threads \in Seq(Threads)
  /\ principals \in Seq(Principals)

References ==
  /\ \A i \in 1..Len(inputs) : /\ inputs[i].session \in 0..Len(sessions)
                               /\ inputs[i].life <= life
  /\ \A m \in 1..Len(messages) : /\ messages[m].input \in 1..Len(inputs)
                                 /\ messages[m].session \in 1..Len(sessions)
                                 /\ messages[m].thread \in 0..Len(threads)
  /\ \A t \in 1..Len(turns) : /\ turns[t].session \in 1..Len(sessions)
                              /\ turns[t].life <= life
  /\ \A c \in 1..Len(candidates) : candidates[c].message \in 1..Len(messages)

EdgeTypes ==
  /\ sent \in 0..Len(Updates)
  /\ confirmed \in Nat \ {0}
  /\ poller \in [offset : Nat, batch : Seq(Ids)]
  /\ lost \subseteq Ids

FrameTypes ==
  /\ exec \in Frames
  /\ exec.pc = "idle" => exec = Idle
  /\ exec.pc \notin {"idle", "thread"} => /\ exec.input \in 1..Len(inputs)
                                         /\ exec.session \in 1..Len(sessions)
  /\ exec.pc \in {"turn", "link", "count"} =>
       /\ Len(messages) > 0
       /\ messages[Len(messages)].input = exec.input
       /\ messages[Len(messages)].session = exec.session
  /\ exec.pc = "link" => Len(turns) > 0 /\ turns[Len(turns)].message = Len(messages)
  /\ exec.pc = "thread" => /\ exec.message \in 1..Len(messages)
                           /\ exec.thread \in 1..Len(threads)
                           /\ exec.session = 0

TypeInv ==
  /\ config \in Configs
  /\ granted \in [Senders -> Roles]
  /\ life \in Nat
  /\ Tables
  /\ References
  /\ EdgeTypes
  /\ FrameTypes
  /\ memory \in Caches(Len(sessions), Len(principals), Len(threads))
  /\ queue \in Seq(Deliveries(Len(inputs), Len(messages), Len(candidates)))

LEMMA Lengths ==
  ASSUME TypeInv
  PROVE  /\ Len(inputs) \in Nat /\ Len(sessions) \in Nat /\ Len(messages) \in Nat
         /\ Len(turns) \in Nat /\ Len(candidates) \in Nat /\ Len(threads) \in Nat
         /\ Len(principals) \in Nat /\ Len(queue) \in Nat /\ Len(Updates) \in Nat
  BY ConversationAssumption, LenProperties DEF TypeInv, Tables

\* The delivery that fires.
LEMMA Firing ==
  ASSUME TypeInv, NEW b, Fires(b)
  PROVE  /\ exec = Idle /\ 1 \in 1..Len(queue)
         /\ queue[1].behavior = b /\ queue[1].ref = Ref
         /\ b = "telegram_ingester" => Ref \in Ids
         /\ b = "chat_ingester" => Ref \in 1..Len(inputs)
         /\ b = "principal_resolver" => Ref \in Senders
         /\ b \in MessageBehaviors => Ref \in 1..Len(messages)
         /\ b \in CandidateBehaviors => Ref \in 1..Len(candidates)
<1> DEFINE D == Deliveries(Len(inputs), Len(messages), Len(candidates))
<1>1. queue \in Seq(D) /\ queue # <<>> BY DEF TypeInv, Fires
<1>2. Len(queue) \in Nat \ {0} /\ queue[1] \in D
  <2> HIDE DEF D
  <2>1. Len(queue) \in Nat \ {0} BY <1>1, EmptySeq
  <2>2. 1 \in 1..Len(queue) BY <2>1
  <2> QED BY <1>1, <2>1, <2>2, ElementOfSeq
<1>3. Head(queue) = queue[1] BY <1>1
<1>4. Deliverable(queue[1], Len(inputs), Len(messages), Len(candidates))
  BY <1>2 DEF Deliveries
<1> QED BY <1>2, <1>3, <1>4 DEF Fires, Ref, Deliverable, MessageBehaviors, CandidateBehaviors

-----------------------------------------------------------------------------
(* Which actions change what *)

LEMMA UpdateTypes == \A u \in Ids : Updates[u].user \in Senders /\ u \in Nat \ {0}
<1> DEFINE U == [user : Senders, text : BOOLEAN]
<1>1. Updates \in Seq(U) BY ConversationAssumption
<1>2. \A u \in Ids : Updates[u] \in U
  <2> HIDE DEF U
  <2> QED BY <1>1, ElementOfSeq DEF Ids
<1>3. Len(Updates) \in Nat BY <1>1
<1> QED BY <1>2, <1>3 DEF Ids

LEMMA Changes ==
  ASSUME [Next]_vars
  PROVE  /\ config' = config
         /\ \/ inputs' = inputs
            \/ TelegramIngester \/ \E r \in WebUsers, s \in 0..Len(sessions) : SubmitChatInput(r, s)
         /\ sessions' = sessions \/ ChatIngester \/ CountTurn
         /\ \/ messages' = messages
            \/ AddMessage \/ NameThread \/ ChatContextAssembler \/ ChatLlmResponder
         /\ turns' = turns \/ AddTurn \/ LinkTurn \/ ChatResponder
         /\ \/ candidates' = candidates
            \/ ChatLlmResponder \/ ChatDeflectionResponder
            \/ ResponseDispatcher \/ TelegramDispatcher
            \/ \E c \in 1..Len(candidates) : ApproveResponse(c)
         /\ threads' = threads \/ ThreadTracker
         /\ \/ principals' = principals
            \/ PrincipalResolver \/ CrashRestart
            \/ \E g \in Grants : RegisterPrincipal(g.ref, g.role)
         /\ \/ memory' = memory
            \/ TelegramIngester \/ CountTurn \/ PrincipalResolver \/ ThreadTracker
            \/ CrashRestart \/ \E g \in Grants : RegisterPrincipal(g.ref, g.role)
         /\ \/ exec' = exec
            \/ ChatIngester \/ AddSource \/ AddMessage \/ AddTurn \/ LinkTurn \/ CountTurn
            \/ ThreadTracker \/ NameThread \/ CrashRestart
         /\ \/ granted' = granted
            \/ CrashRestart \/ \E g \in Grants : RegisterPrincipal(g.ref, g.role)
         /\ life' = life \/ CrashRestart
<1> USE DEF vars, edge, objects
<1>1. CASE UNCHANGED vars BY <1>1
<1>2. CASE UserSends \/ Poll \/ PostFails \/ PostTimesOut \/ PollerRestarts
  BY <1>2 DEF UserSends, Poll, GetUpdates, PostToServer, PostFails, PostTimesOut, PollerRestarts
<1>3. CASE \E r \in WebUsers, s \in 0..Len(sessions) : SubmitChatInput(r, s)
  BY <1>3 DEF SubmitChatInput
<1>4. CASE \E g \in Grants : RegisterPrincipal(g.ref, g.role)
  BY <1>4 DEF RegisterPrincipal
<1>5. CASE \E c \in 1..Len(candidates) : ApproveResponse(c) BY <1>5 DEF ApproveResponse
<1>6. CASE TelegramIngester \/ ChatIngester \/ AddSource \/ AddMessage \/ AddTurn \/ LinkTurn
             \/ CountTurn
  BY <1>6 DEF TelegramIngester, ChatIngester, AddSource, AddMessage, AddTurn, LinkTurn,
              CountTurn
<1>7. CASE PrincipalResolver \/ ThreadTracker \/ NameThread \/ ChatContextAssembler
             \/ ChatLlmResponder \/ ChatDeflectionResponder
  BY <1>7 DEF PrincipalResolver, ThreadTracker, NameThread, ChatContextAssembler,
              ChatLlmResponder, ChatDeflectionResponder
<1>8. CASE ResponseDispatcher \/ ChatResponder \/ TelegramDispatcher
  BY <1>8 DEF ResponseDispatcher, ChatResponder, TelegramDispatcher
<1>9. CASE CrashRestart BY <1>9 DEF CrashRestart
<1> QED BY <1>1, <1>2, <1>3, <1>4, <1>5, <1>6, <1>7, <1>8, <1>9 DEF Next, Drain

-----------------------------------------------------------------------------
(* The tables: what they gain, what stays *)

LEMMA NextInputs ==
  ASSUME TypeInv, [Next]_vars
  PROVE  /\ inputs' \in Seq(Inputs)
         /\ Len(inputs') \in {Len(inputs), Len(inputs) + 1}
         /\ \A i \in 1..Len(inputs) : inputs'[i] = inputs[i]
         /\ \A i \in 1..Len(inputs') : i \notin 1..Len(inputs) =>
              /\ i = Len(inputs) + 1
              /\ inputs'[i].life = life
              /\ inputs'[i].session \in 0..Len(sessions)
              /\ inputs'[i].update # 0 =>
                   /\ TelegramIngester /\ inputs'[i].update = Ref
                   /\ ~ Seen(Ref)
<1>1. inputs \in Seq(Inputs) /\ Len(inputs) \in Nat /\ life \in Nat /\ Len(sessions) \in Nat
  BY Lengths DEF TypeInv, Tables
<1>2. ASSUME NEW new \in Inputs, inputs' = Append(inputs, new), new.life = life,
             new.session \in 0..Len(sessions),
             new.update # 0 => TelegramIngester /\ new.update = Ref /\ ~ Seen(Ref)
      PROVE  /\ inputs' \in Seq(Inputs)
             /\ Len(inputs') = Len(inputs) + 1
             /\ \A i \in 1..Len(inputs) : inputs'[i] = inputs[i]
             /\ inputs'[Len(inputs) + 1] = new
  BY <1>1, <1>2, AppendProperties
<1>3. CASE inputs' = inputs BY <1>1, <1>3
<1>4. CASE TelegramIngester /\ inputs' # inputs
  <2> DEFINE new == [user |-> Updates[Ref].user, session |-> 0, update |-> Ref, life |-> life]
  <2>1. Ref \in Ids BY <1>4, Firing DEF TelegramIngester
  <2>2. Updates[Ref].user \in Senders /\ Ref \in Nat
    BY <2>1, UpdateTypes
  <2>3. new \in Inputs /\ new.life = life /\ new.session = 0 /\ new.update = Ref
    BY <1>1, <2>2 DEF Inputs
  <2>4. inputs' = Append(inputs, new) /\ ~ Seen(Ref) BY <1>4 DEF TelegramIngester
  <2> HIDE DEF new
  <2>5. /\ inputs' \in Seq(Inputs)
        /\ Len(inputs') = Len(inputs) + 1
        /\ \A i \in 1..Len(inputs) : inputs'[i] = inputs[i]
        /\ inputs'[Len(inputs) + 1] = new
    BY <1>1, <1>2, <1>4, <2>3, <2>4
  <2> QED BY <1>1, <1>4, <2>3, <2>4, <2>5
<1>5. CASE \E r \in WebUsers, s \in 0..Len(sessions) : SubmitChatInput(r, s)
  <2>1. PICK r \in WebUsers, s \in 0..Len(sessions) : SubmitChatInput(r, s) BY <1>5
  <2> DEFINE new == [user |-> r, session |-> s, update |-> 0, life |-> life]
  <2>2. new \in Inputs /\ new.life = life /\ new.session = s /\ new.update = 0
    BY <1>1, ConversationAssumption DEF Inputs
  <2>3. inputs' = Append(inputs, new) BY <2>1 DEF SubmitChatInput
  <2> HIDE DEF new
  <2>4. /\ inputs' \in Seq(Inputs)
        /\ Len(inputs') = Len(inputs) + 1
        /\ \A i \in 1..Len(inputs) : inputs'[i] = inputs[i]
        /\ inputs'[Len(inputs) + 1] = new
    BY <1>1, <1>2, <2>2, <2>3
  <2> QED BY <1>1, <2>2, <2>3, <2>4
<1> QED BY <1>3, <1>4, <1>5, Changes

LEMMA NextSessions ==
  ASSUME TypeInv, [Next]_vars
  PROVE  /\ sessions' \in Seq(Sessions)
         /\ Len(sessions') \in {Len(sessions), Len(sessions) + 1}
         /\ \A s \in 1..Len(sessions) : sessions'[s].user = sessions[s].user
         /\ \A s \in 1..Len(sessions) :
              sessions'[s].turns = IF CountTurn /\ s = exec.session THEN exec.number
                                   ELSE sessions[s].turns
         /\ Len(sessions') # Len(sessions) =>
              /\ ChatIngester /\ Resume(Ref).session = 0
              /\ sessions'[Len(sessions')].turns = 0
<1>1. sessions \in Seq(Sessions) /\ Len(sessions) \in Nat BY Lengths DEF TypeInv, Tables
<1>2. ~ (ChatIngester /\ CountTurn)
  BY DEF ChatIngester, CountTurn, Fires, Idle
<1>3. CASE sessions' = sessions /\ ~ CountTurn BY <1>1, <1>3
<1>4. CASE CountTurn
  <2> DEFINE new == [sessions[exec.session] EXCEPT !.turns = exec.number]
  <2>1. exec.session \in 1..Len(sessions) /\ exec.number \in Nat
    BY <1>4 DEF CountTurn, TypeInv, FrameTypes, Frames
  <2>2. sessions[exec.session] \in Sessions BY <1>1, <2>1, ElementOfSeq
  <2>3. /\ new \in Sessions /\ new.turns = exec.number
        /\ new.user = sessions[exec.session].user
    BY <2>1, <2>2 DEF Sessions
  <2>4. sessions' = [sessions EXCEPT ![exec.session] = new] BY <1>4 DEF CountTurn
  <2> HIDE DEF new
  <2>5. /\ sessions' \in Seq(Sessions) /\ Len(sessions') = Len(sessions)
        /\ \A s \in 1..Len(sessions) :
             sessions'[s] = IF s = exec.session THEN new ELSE sessions[s]
    BY <1>1, <2>1, <2>3, <2>4, ExceptSeq
  <2> QED BY <1>4, <2>3, <2>5
<1>5. CASE ChatIngester /\ sessions' # sessions
  <2> DEFINE new == [user |-> inputs[Ref].user, turns |-> 0]
  <2>1. Ref \in 1..Len(inputs) BY <1>5, Firing DEF ChatIngester
  <2>2. inputs[Ref] \in Inputs BY <2>1, ElementOfSeq DEF TypeInv, Tables
  <2>3. new \in Sessions /\ new.turns = 0 BY <2>2 DEF Inputs, Sessions
  <2>4. sessions' = Append(sessions, new) /\ Resume(Ref).session = 0
    BY <1>5 DEF ChatIngester
  <2> HIDE DEF new
  <2>5. /\ sessions' \in Seq(Sessions) /\ Len(sessions') = Len(sessions) + 1
        /\ \A s \in 1..Len(sessions) : sessions'[s] = sessions[s]
        /\ sessions'[Len(sessions) + 1] = new
    BY <1>1, <2>3, <2>4, AppendProperties
  <2> QED BY <1>2, <1>5, <2>3, <2>4, <2>5
<1> QED BY <1>3, <1>4, <1>5, Changes

\* A message keeps what it came in with.
MessagesKept ==
  \A m \in 1..Len(messages) :
    /\ messages'[m].input = messages[m].input
    /\ messages'[m].session = messages[m].session
    /\ messages'[m].gate = messages[m].gate
    /\ messages'[m].entitled = messages[m].entitled
MessageSet(m, new) ==
  /\ new \in Messages
  /\ new.input = messages[m].input /\ new.session = messages[m].session
  /\ new.gate = messages[m].gate /\ new.entitled = messages[m].entitled
  /\ messages' = [messages EXCEPT ![m] = new]

LEMMA SettingMessage ==
  ASSUME TypeInv, NEW m \in 1..Len(messages), NEW new, MessageSet(m, new)
  PROVE  /\ messages' \in Seq(Messages) /\ Len(messages') = Len(messages)
         /\ \A k \in 1..Len(messages) : messages'[k] = IF k = m THEN new ELSE messages[k]
         /\ MessagesKept
<1>1. messages \in Seq(Messages) /\ Len(messages) \in Nat BY Lengths DEF TypeInv, Tables
<1>2. /\ messages' \in Seq(Messages) /\ Len(messages') = Len(messages)
      /\ \A k \in 1..Len(messages) : messages'[k] = IF k = m THEN new ELSE messages[k]
  BY <1>1, ExceptSeq DEF MessageSet
<1> QED BY <1>2 DEF MessageSet, MessagesKept

LEMMA AddingMessage ==
  ASSUME TypeInv, AddMessage
  PROVE  /\ messages' \in Seq(Messages) /\ Len(messages') = Len(messages) + 1
         /\ \A m \in 1..Len(messages) : messages'[m] = messages[m]
         /\ LET new == messages'[Len(messages) + 1]
            IN  /\ new.input = exec.input /\ new.session = exec.session
                /\ new.gate = exec.gate
                /\ new.entitled <=> granted[inputs[exec.input].user] \in Served(config.policy)
                /\ new.thread = 0 /\ new.context = <<>>
<1> DEFINE entitled == granted[inputs[exec.input].user] \in Served(config.policy)
           new == [input |-> exec.input, session |-> exec.session, gate |-> exec.gate,
                   entitled |-> entitled, thread |-> 0, context |-> <<>>, silent |-> FALSE]
<1>1. messages \in Seq(Messages) /\ Len(messages) \in Nat BY Lengths DEF TypeInv, Tables
<1>2. exec.input \in Nat /\ exec.session \in Nat /\ exec.gate \in Gates
  BY DEF TypeInv, FrameTypes, Frames
<1>3. entitled \in BOOLEAN OBVIOUS
<1>4. messages' = Append(messages, new) BY DEF AddMessage
<1> HIDE DEF entitled
<1>5. new \in Messages BY <1>2, <1>3, EmptySeq DEF Messages
<1>6. /\ new.input = exec.input /\ new.session = exec.session /\ new.gate = exec.gate
      /\ new.entitled = entitled /\ new.thread = 0 /\ new.context = <<>>
  OBVIOUS
<1> HIDE DEF new
<1>7. /\ messages' \in Seq(Messages) /\ Len(messages') = Len(messages) + 1
      /\ \A m \in 1..Len(messages) : messages'[m] = messages[m]
      /\ messages'[Len(messages) + 1] = new
  BY <1>1, <1>4, <1>5, AppendProperties
<1> QED BY <1>6, <1>7 DEF entitled

\* In a finite strict order, ranks are the numbers below the size.
LEMMA Ranks ==
  ASSUME NEW S, IsFiniteSet(S), NEW B \in [S -> SUBSET S],
         \A t \in S : t \notin B[t],
         \A t, u \in S : t # u => t \in B[u] \/ u \in B[t],
         \A t, u \in S : t \in B[u] => B[t] \subseteq B[u]
  PROVE  /\ \A j \in 0..(Cardinality(S) - 1) : \E t \in S : Cardinality(B[t]) = j
         /\ \A t, u \in S : Cardinality(B[t]) < Cardinality(B[u]) => t \in B[u]
         /\ \A t, u \in S : Cardinality(B[t]) = Cardinality(B[u]) => t = u
<1> DEFINE n == Cardinality(S)
           rank == [t \in S |-> Cardinality(B[t])]
<1>1. n \in Nat BY FS_CardinalityType
<1>2. \A t \in S : IsFiniteSet(B[t]) /\ Cardinality(B[t]) \in Nat /\ Cardinality(B[t]) < n
  <2> SUFFICES ASSUME NEW t \in S
               PROVE  IsFiniteSet(B[t]) /\ Cardinality(B[t]) \in Nat /\ Cardinality(B[t]) < n
    OBVIOUS
  <2>1. B[t] \in SUBSET S /\ B[t] # S OBVIOUS
  <2> QED BY <1>1, <2>1, FS_Subset, FS_CardinalityType
<1>3. \A t, u \in S : t \in B[u] => Cardinality(B[t]) < Cardinality(B[u])
  <2> SUFFICES ASSUME NEW t \in S, NEW u \in S, t \in B[u]
               PROVE  Cardinality(B[t]) < Cardinality(B[u])
    OBVIOUS
  <2>1. B[t] \in SUBSET B[u] /\ B[t] # B[u] OBVIOUS
  <2> QED BY <1>2, <2>1, FS_Subset
<1>4. rank \in Injection(S, 0..(n - 1))
  <2>1. rank \in [S -> 0..(n - 1)]
    <3> SUFFICES ASSUME NEW t \in S PROVE Cardinality(B[t]) \in 0..(n - 1) OBVIOUS
    <3> QED BY <1>1, <1>2
  <2>2. ASSUME NEW t \in S, NEW u \in S, rank[t] = rank[u] PROVE t = u
    <3>1. Cardinality(B[t]) = Cardinality(B[u]) BY <2>2
    <3> QED BY <1>2, <1>3, <3>1
  <2> HIDE DEF rank
  <2> QED BY <2>1, <2>2 DEF Injection, IsInjective
<1>5. IsFiniteSet(0..(n - 1)) /\ Cardinality(0..(n - 1)) = n BY <1>1, FS_Interval
<1>6. rank \in Surjection(S, 0..(n - 1))
  <2> HIDE DEF rank
  <2> QED BY <1>4, <1>5, FS_Injection
<1>7. \A j \in 0..(n - 1) : \E t \in S : rank[t] = j
  <2> HIDE DEF rank
  <2> QED BY <1>6 DEF Surjection
<1>8. ASSUME NEW t \in S, NEW u \in S, Cardinality(B[t]) < Cardinality(B[u])
      PROVE  t \in B[u]
  <2>1. t # u BY <1>2, <1>8
  <2>2. u \notin B[t]
    <3> SUFFICES ASSUME u \in B[t] PROVE FALSE OBVIOUS
    <3>1. Cardinality(B[u]) < Cardinality(B[t]) BY <1>3
    <3> QED BY <1>2, <1>8, <3>1
  <2> QED BY <2>1, <2>2
<1>9. ASSUME NEW t \in S, NEW u \in S, Cardinality(B[t]) = Cardinality(B[u])
      PROVE  t = u
  BY <1>2, <1>3, <1>9
<1> QED BY <1>7, <1>8, <1>9

Prior(m) == {t \in 1..Len(turns) : /\ turns[t].session = messages[m].session
                                   /\ turns[t].linked
                                   /\ turns[t].message # m}
\* Spoken before: by number, then by creation.
SpokenBefore(t, u) == \/ turns[t].number < turns[u].number
                      \/ turns[t].number = turns[u].number /\ t < u

\* A transcript lists prior turns of the session, in the order of their numbers, and
\* all of them or as many of the last as it may.
LEMMA TranscriptIsOrdered ==
  ASSUME TypeInv, NEW m
  PROVE  /\ Transcript(m) \in Seq(Nat)
         /\ \A k \in 1..Len(Transcript(m)) : Transcript(m)[k] \in Prior(m)
         /\ \A k \in 2..Len(Transcript(m)) :
              SpokenBefore(Transcript(m)[k - 1], Transcript(m)[k])
         /\ Len(Transcript(m)) <= ContextLimit
         /\ \A t \in Prior(m) :
              \/ \E k \in 1..Len(Transcript(m)) : Transcript(m)[k] = t
              \/ /\ Len(Transcript(m)) = ContextLimit
                 /\ SpokenBefore(t, Transcript(m)[1])
<1> DEFINE S == Prior(m)
           Before(t) == {u \in S : \/ turns[u].number < turns[t].number
                                   \/ turns[u].number = turns[t].number /\ u < t}
           B == [t \in S |-> Before(t)]
           n == Cardinality(S)
           skip == IF n > ContextLimit THEN n - ContextLimit ELSE 0
           At(k) == CHOOSE t \in S : Cardinality(Before(t)) = skip + k - 1
           T == [k \in 1..(n - skip) |-> At(k)]
<1>1. turns \in Seq(Turns) /\ Len(turns) \in Nat BY Lengths DEF TypeInv, Tables
<1>2. \A t \in S : turns[t].number \in Nat /\ t \in Nat
  <2>1. \A t \in 1..Len(turns) : turns[t] \in Turns BY <1>1, ElementOfSeq
  <2>2. \A t \in 1..Len(turns) : turns[t].number \in Nat BY <2>1 DEF Turns
  <2>3. S \subseteq 1..Len(turns) BY DEF Prior
  <2> HIDE DEF S
  <2> QED BY <1>1, <2>2, <2>3
<1>3. IsFiniteSet(S)
  <2>1. S \in SUBSET (1..Len(turns)) BY DEF Prior
  <2>2. IsFiniteSet(1..Len(turns)) BY <1>1, FS_Interval
  <2> HIDE DEF S
  <2> QED BY <2>1, <2>2, FS_Subset
<1>4. /\ B \in [S -> SUBSET S]
      /\ \A t \in S : t \notin B[t]
      /\ \A t, u \in S : t # u => t \in B[u] \/ u \in B[t]
      /\ \A t, u \in S : t \in B[u] => B[t] \subseteq B[u]
  <2> HIDE DEF S
  <2> QED BY <1>2
<1>5. n \in Nat BY <1>3, FS_CardinalityType
<1>6. skip \in Nat /\ skip <= n BY <1>5, ConversationAssumption
<1>7. \A k \in 1..(n - skip) : At(k) \in S /\ Cardinality(B[At(k)]) = skip + k - 1
  <2> SUFFICES ASSUME NEW k \in 1..(n - skip)
               PROVE  At(k) \in S /\ Cardinality(B[At(k)]) = skip + k - 1
    OBVIOUS
  <2>1. skip + k - 1 \in 0..(n - 1) BY <1>5, <1>6
  <2> HIDE DEF S, B, Before, skip, n
  <2>2. \A j \in 0..(Cardinality(S) - 1) : \E t \in S : Cardinality(B[t]) = j
    BY <1>3, <1>4, Ranks
  <2>3. \E t \in S : Cardinality(B[t]) = skip + k - 1 BY <2>1, <2>2 DEF n
  <2>4. \A t \in S : B[t] = Before(t) BY DEF B
  <2>5. \E t \in S : Cardinality(Before(t)) = skip + k - 1 BY <2>3, <2>4
  <2>6. At(k) \in S /\ Cardinality(Before(At(k))) = skip + k - 1 BY <2>5
  <2> HIDE DEF At
  <2> QED BY <2>4, <2>6
<1>8. Transcript(m) = T BY DEF Transcript, Prior
<1>9. T \in Seq(Nat) /\ Len(T) = n - skip
  <2>1. \A k \in 1..(n - skip) : At(k) \in Nat BY <1>2, <1>7
  <2>2. n - skip \in Nat BY <1>5, <1>6
  <2> HIDE DEF At, skip, n
  <2>3. T \in [1..(n - skip) -> Nat] BY <2>1
  <2> HIDE DEF T
  <2> QED BY <2>2, <2>3
<1>10. ASSUME NEW k \in 2..(n - skip) PROVE SpokenBefore(T[k - 1], T[k])
  <2>1. k - 1 \in 1..(n - skip) /\ k \in 1..(n - skip) BY <1>5, <1>6
  <2>2. T[k - 1] = At(k - 1) /\ T[k] = At(k)
    <3> HIDE DEF At, skip, n
    <3> QED BY <2>1
  <2>3. /\ At(k - 1) \in S /\ At(k) \in S
        /\ Cardinality(B[At(k - 1)]) = skip + (k - 1) - 1
        /\ Cardinality(B[At(k)]) = skip + k - 1
    <3> HIDE DEF At, S, B, Before, skip, n
    <3> QED BY <1>7, <2>1
  <2>4. Cardinality(B[At(k - 1)]) < Cardinality(B[At(k)])
    <3>1. skip + (k - 1) - 1 < skip + k - 1 BY <1>6
    <3> HIDE DEF At, S, B, Before, skip, n
    <3> QED BY <2>3, <3>1
  <2>5. \A t, u \in S : Cardinality(B[t]) < Cardinality(B[u]) => t \in B[u]
    <3> HIDE DEF S, B, Before
    <3> QED BY <1>3, <1>4, Ranks
  <2>6. At(k - 1) \in B[At(k)]
    <3> HIDE DEF At, S, B, Before, skip, n
    <3> QED BY <2>3, <2>4, <2>5
  <2>7. \A t, u \in S : t \in B[u] => SpokenBefore(t, u) BY DEF SpokenBefore
  <2>8. SpokenBefore(At(k - 1), At(k))
    <3> HIDE DEF At, S, B, Before, skip, n
    <3> QED BY <2>3, <2>6, <2>7
  <2> QED BY <2>2, <2>8
<1>11. \A k \in 1..(n - skip) : T[k] \in S
  <2> HIDE DEF At, S, skip, n
  <2> QED BY <1>7
<1>12. /\ n - skip <= ContextLimit
       /\ skip # 0 => n - skip = ContextLimit
  BY <1>5, ConversationAssumption
<1>13. ASSUME NEW t \in S
       PROVE  \/ \E k \in 1..(n - skip) : T[k] = t
              \/ n - skip = ContextLimit /\ SpokenBefore(t, T[1])
  <2> DEFINE rank == Cardinality(B[t])
  <2>1. rank \in 0..(n - 1)
    <3>1. B[t] \in SUBSET S /\ B[t] # S
      <4> HIDE DEF S, B, Before
      <4> QED BY <1>4
    <3> HIDE DEF S, B, Before
    <3>2. Cardinality(B[t]) \in Nat /\ Cardinality(B[t]) < n
      BY <1>3, <3>1, FS_Subset, FS_CardinalityType
    <3> HIDE DEF n
    <3> QED BY <1>5, <3>2
  <2>2. \A u, v \in S : Cardinality(B[u]) < Cardinality(B[v]) => u \in B[v]
    <3> HIDE DEF S, B, Before
    <3> QED BY <1>3, <1>4, Ranks
  <2>3. \A u, v \in S : u \in B[v] => SpokenBefore(u, v) BY DEF SpokenBefore
  <2>4. \A u, v \in S : Cardinality(B[u]) = Cardinality(B[v]) => u = v
    <3> HIDE DEF S, B, Before
    <3> QED BY <1>3, <1>4, Ranks
  <2>5. \A k \in 1..(n - skip) : T[k] = At(k)
    <3> HIDE DEF At, skip, n
    <3> QED OBVIOUS
  <2> HIDE DEF At, S, B, Before, skip, n, T, rank
  <2>6. CASE skip <= rank
    <3> DEFINE k == rank + 1 - skip
    <3>1. k \in 1..(n - skip) /\ skip + k - 1 = rank BY <1>5, <1>6, <2>1, <2>6
    <3> HIDE DEF k
    <3>2. At(k) \in S /\ Cardinality(B[At(k)]) = rank BY <1>7, <3>1
    <3>3. At(k) = t BY <2>4, <3>2 DEF rank
    <3> QED BY <2>5, <3>1, <3>3
  <2>7. CASE rank < skip
    <3>1. 1 \in 1..(n - skip) /\ skip + 1 - 1 = skip /\ skip # 0
      BY <1>5, <1>6, <1>12, <2>1, <2>7, ConversationAssumption
    <3>2. At(1) \in S /\ Cardinality(B[At(1)]) = skip BY <1>7, <3>1
    <3>3. t \in B[At(1)] BY <2>2, <2>7, <3>2 DEF rank
    <3> QED BY <1>12, <2>3, <2>5, <3>1, <3>2, <3>3
  <2> QED BY <1>6, <2>1, <2>6, <2>7
<1> HIDE DEF T
<1> QED BY <1>8, <1>9, <1>10, <1>11, <1>12, <1>13

\* The thread a message is counted in: a new one, or one the registry knows.
LEMMA Tracking ==
  ASSUME TypeInv, ThreadTracker
  PROVE  /\ Ref \in 1..Len(messages)
         /\ threads' \in Seq(Threads)
         /\ \E t \in 1..(Len(threads) + 1) :
              /\ \/ /\ t = Len(threads) + 1
                    /\ Len(threads') = Len(threads) + 1 /\ threads'[t].count = 1
                    /\ \A k \in 1..Len(threads) : threads'[k] = threads[k]
                    /\ memory' = [memory EXCEPT !.thread = @ \cup {t}]
                 \/ /\ t \in 1..Len(threads)
                    /\ Len(threads') = Len(threads)
                    /\ \A k \in 1..Len(threads) : threads'[k].count =
                         IF k = t THEN threads[k].count + 1 ELSE threads[k].count
                    /\ memory' = memory /\ t \in memory.thread
              /\ exec' = [Idle EXCEPT !.pc = "thread", !.message = Ref, !.thread = t]
<1> DEFINE m == Ref
           new == [session |-> messages[m].session, web |-> ~OnTelegram(m), count |-> 1]
           known == {k \in memory.thread : [threads[k] EXCEPT !.count = 1] = new}
           t == IF known = {} THEN Len(threads) + 1 ELSE CHOOSE k \in known : TRUE
<1>1. threads \in Seq(Threads) /\ Len(threads) \in Nat BY Lengths DEF TypeInv, Tables
<1>2. Ref \in 1..Len(messages) BY Firing DEF ThreadTracker, MessageBehaviors
<1>3. messages[m] \in Messages BY <1>2, ElementOfSeq DEF TypeInv, Tables
<1>4. known \subseteq 1..Len(threads) BY DEF TypeInv, Caches
<1>5. /\ threads' = IF known = {} THEN Append(threads, new)
                    ELSE [threads EXCEPT ![t].count = @ + 1]
      /\ memory' = IF known = {} THEN [memory EXCEPT !.thread = @ \cup {t}] ELSE memory
      /\ exec' = [Idle EXCEPT !.pc = "thread", !.message = m, !.thread = t]
  BY DEF ThreadTracker
<1>6. new \in Threads
  <2>1. (~OnTelegram(m)) \in BOOLEAN BY DEF OnTelegram
  <2>2. messages[m].session \in Nat BY <1>3 DEF Messages
  <2> HIDE DEF m
  <2> QED BY <2>1, <2>2 DEF Threads
<1>7. new.count = 1 OBVIOUS
<1>8. t \in 1..(Len(threads) + 1)
  <2>1. CASE known = {} BY <1>1, <2>1
  <2>2. CASE known # {}
    <3>1. t \in known BY <2>2
    <3> QED BY <1>1, <1>4, <3>1
  <2> QED BY <2>1, <2>2
<1>9. exec' = [Idle EXCEPT !.pc = "thread", !.message = Ref, !.thread = t]
  <2> HIDE DEF t
  <2> QED BY <1>5
<1>10. CASE known = {}
  <2>1. t = Len(threads) + 1 BY <1>10
  <2> HIDE DEF new
  <2>2. threads' = Append(threads, new) BY <1>5, <1>10
  <2>3. /\ threads' \in Seq(Threads) /\ Len(threads') = Len(threads) + 1
        /\ threads'[Len(threads) + 1] = new
        /\ \A k \in 1..Len(threads) : threads'[k] = threads[k]
    BY <1>1, <1>6, <2>2, AppendProperties
  <2>4. memory' = [memory EXCEPT !.thread = @ \cup {t}] BY <1>5, <1>10
  <2>5. threads'[t].count = 1 BY <1>7, <2>1, <2>3
  <2> HIDE DEF t, known
  <2> QED BY <1>2, <1>8, <1>9, <2>1, <2>3, <2>4, <2>5
<1>11. CASE known # {}
  <2>1. t \in known BY <1>11
  <2>2. t \in 1..Len(threads) /\ t \in memory.thread BY <1>4, <2>1
  <2> HIDE DEF t, known
  <2>3. threads[t] \in Threads BY <1>1, <2>2, ElementOfSeq
  <2> DEFINE counted == [threads[t] EXCEPT !.count = @ + 1]
  <2>4. counted \in Threads /\ counted.count = threads[t].count + 1 BY <2>3 DEF Threads
  <2>5. threads' = [threads EXCEPT ![t] = counted] BY <1>5, <1>11
  <2> HIDE DEF counted
  <2>6. /\ threads' \in Seq(Threads) /\ Len(threads') = Len(threads)
        /\ \A k \in 1..Len(threads) : threads'[k] = IF k = t THEN counted ELSE threads[k]
    BY <1>1, <2>2, <2>4, <2>5, ExceptSeq
  <2>7. memory' = memory BY <1>5, <1>11
  <2> QED BY <1>2, <1>8, <1>9, <2>2, <2>4, <2>6, <2>7
<1> QED BY <1>10, <1>11

\* The message is put in the thread.
LEMMA Naming ==
  ASSUME TypeInv, NameThread
  PROVE  /\ exec.message \in 1..Len(messages) /\ exec.thread \in 1..Len(threads)
         /\ LET new == [messages[exec.message] EXCEPT !.thread = exec.thread]
            IN  /\ MessageSet(exec.message, new)
                /\ new.thread = exec.thread
                /\ new.context = messages[exec.message].context
<1>1. /\ exec.message \in 1..Len(messages) /\ exec.thread \in 1..Len(threads)
      /\ Len(threads) \in Nat
  BY Lengths DEF NameThread, TypeInv, FrameTypes
<1>2. messages[exec.message] \in Messages BY <1>1, ElementOfSeq DEF TypeInv, Tables
<1>3. exec.thread \in Nat BY <1>1
<1>4. messages' = [messages EXCEPT ![exec.message] =
                     [messages[exec.message] EXCEPT !.thread = exec.thread]]
  BY DEF NameThread
<1> QED BY <1>1, <1>2, <1>3, <1>4 DEF MessageSet, Messages

LEMMA NextMessages ==
  ASSUME TypeInv, [Next]_vars
  PROVE  /\ messages' \in Seq(Messages) /\ MessagesKept
         /\ Len(messages') \in {Len(messages), Len(messages) + 1}
         /\ Len(messages') # Len(messages) => AddMessage
         /\ \A m \in 1..Len(messages) :
              /\ messages'[m].thread # messages[m].thread =>
                   NameThread /\ m = exec.message /\ messages'[m].thread = exec.thread
              /\ messages'[m].context # messages[m].context
                   => ChatContextAssembler /\ messages'[m].context = Transcript(m)
<1>1. messages \in Seq(Messages) /\ Len(messages) \in Nat BY Lengths DEF TypeInv, Tables
<1>2. CASE messages' = messages BY <1>1, <1>2 DEF MessagesKept
<1>3. CASE AddMessage BY <1>1, <1>3, AddingMessage DEF MessagesKept
<1>4. CASE NameThread
  <2> DEFINE m == exec.message
             new == [messages[m] EXCEPT !.thread = exec.thread]
  <2>1. /\ m \in 1..Len(messages) /\ MessageSet(m, new)
        /\ new.thread = exec.thread /\ new.context = messages[m].context
    BY <1>4, Naming
  <2> HIDE DEF new
  <2> QED BY <1>4, <2>1, SettingMessage
<1>5. CASE ChatContextAssembler /\ messages' # messages
  <2> DEFINE new == [messages[Ref] EXCEPT !.context = Transcript(Ref)]
  <2>1. Ref \in 1..Len(messages) BY <1>5, Firing DEF ChatContextAssembler, MessageBehaviors
  <2>2. messages[Ref] \in Messages BY <1>1, <2>1, ElementOfSeq
  <2>3. Transcript(Ref) \in Seq(Nat) BY TranscriptIsOrdered
  <2>4. new.context = Transcript(Ref) /\ new.thread = messages[Ref].thread
    BY <2>2 DEF Messages
  <2>5. messages' = [messages EXCEPT ![Ref] = new] BY <1>5 DEF ChatContextAssembler
  <2>6. MessageSet(Ref, new) BY <2>2, <2>3, <2>5 DEF MessageSet, Messages
  <2> HIDE DEF new
  <2> QED BY <1>5, <2>1, <2>4, <2>6, SettingMessage
<1>6. CASE ChatLlmResponder /\ messages' # messages
  <2> DEFINE new == [messages[Ref] EXCEPT !.silent = TRUE]
  <2>1. Ref \in 1..Len(messages) BY <1>6, Firing DEF ChatLlmResponder, MessageBehaviors
  <2>2. messages[Ref] \in Messages BY <1>1, <2>1, ElementOfSeq
  <2>3. new.context = messages[Ref].context /\ new.thread = messages[Ref].thread
    BY <2>2 DEF Messages
  <2>4. messages' = [messages EXCEPT ![Ref] = new] BY <1>6 DEF ChatLlmResponder
  <2>5. MessageSet(Ref, new) BY <2>2, <2>4 DEF MessageSet, Messages
  <2> HIDE DEF new
  <2> QED BY <2>1, <2>3, <2>5, SettingMessage
<1> QED BY <1>2, <1>3, <1>4, <1>5, <1>6, Changes

TurnsKept ==
  \A t \in 1..Len(turns) :
    /\ turns'[t].session = turns[t].session /\ turns'[t].number = turns[t].number
    /\ turns'[t].message = turns[t].message /\ turns'[t].life = turns[t].life
    /\ turns[t].linked => turns'[t].linked
    /\ turns'[t].linked => turns[t].linked \/ (LinkTurn /\ t = Len(turns))

LEMMA NextTurns ==
  ASSUME TypeInv, [Next]_vars
  PROVE  /\ turns' \in Seq(Turns) /\ TurnsKept
         /\ Len(turns') \in {Len(turns), Len(turns) + 1}
         /\ Len(turns') # Len(turns) =>
              /\ AddTurn
              /\ LET new == turns'[Len(turns) + 1]
                 IN  /\ new.session = exec.session /\ new.number = exec.number
                     /\ new.message = Len(messages) /\ new.life = life
                     /\ ~new.linked
<1>1. turns \in Seq(Turns) /\ Len(turns) \in Nat BY Lengths DEF TypeInv, Tables
<1>2. CASE turns' = turns BY <1>1, <1>2 DEF TurnsKept
<1>3. CASE AddTurn
  <2> DEFINE new == [session |-> exec.session, number |-> exec.number,
                     message |-> Len(messages), answer |-> 0, linked |-> FALSE,
                     life |-> life]
  <2>1. exec.session \in Nat /\ exec.number \in Nat /\ life \in Nat
    BY DEF TypeInv, FrameTypes, Frames
  <2>2. new \in Turns BY <2>1, Lengths DEF Turns
  <2>3. /\ new.session = exec.session /\ new.number = exec.number
        /\ new.message = Len(messages) /\ new.life = life /\ new.linked = FALSE
    OBVIOUS
  <2>4. turns' = Append(turns, new) BY <1>3 DEF AddTurn
  <2> HIDE DEF new
  <2>5. /\ turns' \in Seq(Turns) /\ Len(turns') = Len(turns) + 1
        /\ \A t \in 1..Len(turns) : turns'[t] = turns[t]
        /\ turns'[Len(turns) + 1] = new
    BY <1>1, <2>2, <2>4, AppendProperties
  <2> QED BY <1>3, <2>3, <2>5 DEF TurnsKept
<1>4. CASE ChatResponder
  <2> DEFINE n == Len(turns)
             WithAnswer(t) == IF Approved(Ref) /\ turns[t].message = candidates[Ref].message
                            THEN [turns[t] EXCEPT !.answer = Ref] ELSE turns[t]
             answered == [t \in 1..n |-> WithAnswer(t)]
  <2>1. Ref \in Nat
    BY <1>4, Firing, Lengths DEF ChatResponder, CandidateBehaviors
  <2>2. \A t \in 1..n :
          /\ WithAnswer(t) \in Turns
          /\ WithAnswer(t).session = turns[t].session
          /\ WithAnswer(t).number = turns[t].number
          /\ WithAnswer(t).message = turns[t].message /\ WithAnswer(t).life = turns[t].life
          /\ WithAnswer(t).linked = turns[t].linked
    <3>1. \A t \in 1..n : turns[t] \in Turns BY <1>1, ElementOfSeq
    <3> QED BY <2>1, <3>1 DEF Turns
  <2>3. turns' = answered BY <1>4 DEF ChatResponder
  <2> HIDE DEF WithAnswer
  <2>4. answered \in [1..n -> Turns] /\ \A t \in 1..n : answered[t] = WithAnswer(t)
    BY <2>2
  <2> HIDE DEF answered
  <2>5. answered \in Seq(Turns) /\ Len(answered) = n BY <1>1, <2>4
  <2> QED BY <2>2, <2>3, <2>4, <2>5 DEF TurnsKept
<1>5. CASE LinkTurn
  <2> DEFINE n == Len(turns)
             new == [turns[n] EXCEPT !.linked = TRUE]
  <2>1. n \in 1..n BY <1>1, <1>5 DEF LinkTurn, TypeInv, FrameTypes
  <2>2. turns[n] \in Turns BY <1>1, <2>1, ElementOfSeq
  <2>3. /\ new \in Turns
        /\ new.session = turns[n].session /\ new.number = turns[n].number
        /\ new.message = turns[n].message /\ new.life = turns[n].life
        /\ new.linked = TRUE
    BY <2>2 DEF Turns
  <2>4. turns' = [turns EXCEPT ![n] = new] BY <1>5 DEF LinkTurn
  <2> HIDE DEF new
  <2>5. /\ turns' \in Seq(Turns) /\ Len(turns') = Len(turns)
        /\ \A t \in 1..n : turns'[t] = IF t = n THEN new ELSE turns[t]
    BY <1>1, <2>1, <2>3, <2>4, ExceptSeq
  <2> QED BY <1>5, <2>3, <2>5 DEF TurnsKept
<1> QED BY <1>2, <1>3, <1>4, <1>5, Changes

CandidatesKept ==
  \A c \in 1..Len(candidates) :
    /\ candidates'[c].message = candidates[c].message
    /\ candidates'[c].born = candidates[c].born
    /\ candidates'[c].gated = candidates[c].gated
    /\ candidates[c].approved => candidates'[c].approved
CandidateSet(c, new) ==
  /\ new \in Candidates
  /\ new.message = candidates[c].message /\ new.born = candidates[c].born
  /\ new.gated = candidates[c].gated
  /\ candidates[c].approved => new.approved
  /\ candidates' = [candidates EXCEPT ![c] = new]

LEMMA SettingCandidate ==
  ASSUME TypeInv, NEW c \in 1..Len(candidates), NEW new, CandidateSet(c, new)
  PROVE  /\ candidates' \in Seq(Candidates) /\ Len(candidates') = Len(candidates)
         /\ \A k \in 1..Len(candidates) : candidates'[k] = IF k = c THEN new ELSE candidates[k]
         /\ CandidatesKept
<1>1. candidates \in Seq(Candidates) /\ Len(candidates) \in Nat
  BY Lengths DEF TypeInv, Tables
<1>2. /\ candidates' \in Seq(Candidates) /\ Len(candidates') = Len(candidates)
      /\ \A k \in 1..Len(candidates) : candidates'[k] = IF k = c THEN new ELSE candidates[k]
  BY <1>1, ExceptSeq DEF CandidateSet
<1> QED BY <1>2 DEF CandidateSet, CandidatesKept

\* A responder answers the message it fired for.
Answers(m, gated) ==
  /\ Len(candidates') = Len(candidates) + 1
  /\ \A c \in 1..Len(candidates) : candidates'[c] = candidates[c]
  /\ candidates' \in Seq(Candidates)
  /\ LET new == candidates'[Len(candidates) + 1]
     IN  /\ new.message = m /\ new.gated = gated /\ new.calls = 0
         /\ new.born = new.status
         /\ new.approved <=> new.born = "approved"

LEMMA Answering ==
  ASSUME TypeInv, NEW m \in 1..Len(messages), NEW s \in {"proposed", "approved"},
         NEW gated \in BOOLEAN, Answer(m, s, gated)
  PROVE  Answers(m, gated)
<1> DEFINE new == [message |-> m, born |-> s, status |-> s, approved |-> s = "approved",
                   gated |-> gated, calls |-> 0]
<1>1. candidates \in Seq(Candidates) /\ Len(candidates) \in Nat
  BY Lengths DEF TypeInv, Tables
<1>2. new \in Candidates BY Lengths DEF Candidates
<1>3. /\ new.message = m /\ new.gated = gated /\ new.calls = 0 /\ new.born = new.status
      /\ new.approved <=> new.born = "approved"
  OBVIOUS
<1>4. candidates' = Append(candidates, new) BY DEF Answer
<1> HIDE DEF new
<1>5. /\ candidates' \in Seq(Candidates) /\ Len(candidates') = Len(candidates) + 1
      /\ \A c \in 1..Len(candidates) : candidates'[c] = candidates[c]
      /\ candidates'[Len(candidates) + 1] = new
  BY <1>1, <1>2, <1>4, AppendProperties
<1> QED BY <1>3, <1>5 DEF Answers

LEMMA NextCandidates ==
  ASSUME TypeInv, [Next]_vars
  PROVE  /\ candidates' \in Seq(Candidates) /\ CandidatesKept
         /\ Len(candidates') \in {Len(candidates), Len(candidates) + 1}
         /\ Len(candidates') # Len(candidates) =>
              \/ ChatLlmResponder /\ Answers(Ref, FALSE)
              \/ ChatDeflectionResponder /\ Answers(Ref, TRUE)
         /\ \A c \in 1..Len(candidates) :
              /\ candidates'[c].status # candidates[c].status =>
                   candidates'[c].status = "approved" \/ candidates[c].born = "approved"
              /\ candidates'[c].calls # candidates[c].calls =>
                   /\ TelegramDispatcher /\ c = Ref /\ candidates[c].born = "approved"
                   /\ candidates'[c].calls = candidates[c].calls + 1
<1>1. candidates \in Seq(Candidates) /\ Len(candidates) \in Nat
  BY Lengths DEF TypeInv, Tables
<1>2. CASE candidates' = candidates BY <1>1, <1>2 DEF CandidatesKept
<1>3. CASE ChatLlmResponder /\ candidates' # candidates
  <2>1. Ref \in 1..Len(messages) BY <1>3, Firing DEF ChatLlmResponder, MessageBehaviors
  <2>2. Answer(Ref, "approved", FALSE) \/ Answer(Ref, "proposed", FALSE)
    BY <1>3 DEF ChatLlmResponder
  <2>3. Answers(Ref, FALSE) BY <2>1, <2>2, Answering
  <2> QED BY <1>3, <2>3 DEF Answers, CandidatesKept
<1>4. CASE ChatDeflectionResponder
  <2>1. Ref \in 1..Len(messages)
    BY <1>4, Firing DEF ChatDeflectionResponder, MessageBehaviors
  <2>2. Answers(Ref, TRUE) BY <1>4, <2>1, Answering DEF ChatDeflectionResponder
  <2> QED BY <1>4, <2>2 DEF Answers, CandidatesKept
<1>5. CASE ResponseDispatcher /\ candidates' # candidates
  <2> DEFINE new == [candidates[Ref] EXCEPT !.status = "sent"]
  <2>1. Ref \in 1..Len(candidates)
    BY <1>5, Firing DEF ResponseDispatcher, CandidateBehaviors
  <2>2. candidates[Ref] \in Candidates BY <1>1, <2>1, ElementOfSeq
  <2>3. candidates' = [candidates EXCEPT ![Ref] = new] /\ candidates[Ref].born = "approved"
    BY <1>5 DEF ResponseDispatcher, Approved
  <2>4. CandidateSet(Ref, new) /\ new.calls = candidates[Ref].calls
    BY <2>2, <2>3 DEF CandidateSet, Candidates
  <2> HIDE DEF new
  <2> QED BY <2>1, <2>3, <2>4, SettingCandidate
<1>6. CASE TelegramDispatcher /\ candidates' # candidates
  <2> DEFINE new == [candidates[Ref] EXCEPT !.calls = @ + 1]
  <2>1. Ref \in 1..Len(candidates)
    BY <1>6, Firing DEF TelegramDispatcher, CandidateBehaviors
  <2>2. candidates[Ref] \in Candidates BY <1>1, <2>1, ElementOfSeq
  <2>3. candidates' = [candidates EXCEPT ![Ref] = new] /\ candidates[Ref].born = "approved"
    BY <1>6 DEF TelegramDispatcher, Approved
  <2>4. /\ CandidateSet(Ref, new) /\ new.status = candidates[Ref].status
        /\ new.calls = candidates[Ref].calls + 1
    BY <2>2, <2>3 DEF CandidateSet, Candidates
  <2> HIDE DEF new
  <2> QED BY <1>6, <2>1, <2>3, <2>4, SettingCandidate
<1>7. CASE \E c \in 1..Len(candidates) : ApproveResponse(c)
  <2>1. PICK c \in 1..Len(candidates) : ApproveResponse(c) BY <1>7
  <2> DEFINE new == [candidates[c] EXCEPT !.status = "approved", !.approved = TRUE]
  <2>2. candidates[c] \in Candidates BY <1>1, ElementOfSeq
  <2>3. candidates' = [candidates EXCEPT ![c] = new] BY <2>1 DEF ApproveResponse
  <2>4. /\ CandidateSet(c, new) /\ new.calls = candidates[c].calls
        /\ new.status = "approved"
    BY <2>2, <2>3 DEF CandidateSet, Candidates
  <2> HIDE DEF new
  <2> QED BY <2>4, SettingCandidate
<1> QED BY <1>2, <1>3, <1>4, <1>5, <1>6, <1>7, Changes

LEMMA NextThreads ==
  ASSUME TypeInv, [Next]_vars
  PROVE  /\ threads' \in Seq(Threads)
         /\ Len(threads') \in {Len(threads), Len(threads) + 1}
         /\ threads' = threads \/ ThreadTracker
<1>1. threads \in Seq(Threads) BY DEF TypeInv, Tables
<1>2. CASE threads' = threads BY <1>1, <1>2
<1>3. CASE ThreadTracker BY <1>3, Tracking
<1> QED BY <1>2, <1>3, Changes

-----------------------------------------------------------------------------
(* Principals and the caches *)

LEMMA LastOne ==
  ASSUME NEW n \in Nat, NEW S \in SUBSET (1..n), S # {}
  PROVE  \E p \in S : \A q \in (p + 1)..n : q \notin S
<1> DEFINE R == OpToRel(<, Nat)
           T == {n - p : p \in S}
<1>1. \A x, y \in Nat : y < x => <<y, x>> \in R BY DEF OpToRel
<1>2. T \in SUBSET Nat /\ T # {}
  <2>1. PICK p \in S : TRUE OBVIOUS
  <2>2. n - p \in T OBVIOUS
  <2>3. \A j \in 1..n : n - j \in Nat OBVIOUS
  <2> QED BY <2>2, <2>3
<1>3. PICK x \in T : \A y \in T : ~ (<<y, x>> \in R)
  <2>1. IsWellFoundedOn(R, Nat) BY NatLessThanWellFounded
  <2> HIDE DEF R, T
  <2> QED BY <1>2, <2>1, WFMin
<1>4. \A y \in T : ~ (y < x)
  <2> HIDE DEF R, T
  <2> QED BY <1>1, <1>2, <1>3, Zenon
<1>5. PICK p \in S : x = n - p OBVIOUS
<1>6. \A q \in S : ~ (n - q < n - p) BY <1>4, <1>5
<1>7. ASSUME NEW q \in (p + 1)..n PROVE q \notin S
  <2>1. p \in 1..n OBVIOUS
  <2>2. n - q < n - p BY <2>1
  <2> QED BY <1>6, <2>2
<1> QED BY <1>7

LEMMA Rebuilding ==
  ASSUME NEW ps \in Seq(Principals)
  PROVE  /\ RebuildPrincipalRegistry(ps) \in [Senders -> 0..Len(ps)]
         /\ \A r \in Senders :
              LET p == RebuildPrincipalRegistry(ps)[r]
              IN  IF \E q \in 1..Len(ps) : ps[q].ref = r
                  THEN p \in 1..Len(ps) /\ ps[p].ref = r ELSE p = 0
<1> DEFINE Last(r, p) == ps[p].ref = r /\ \A q \in (p + 1)..Len(ps) : ps[q].ref # r
           At(r) == IF \E p \in 1..Len(ps) : ps[p].ref = r
                    THEN CHOOSE p \in 1..Len(ps) : Last(r, p) ELSE 0
<1>1. RebuildPrincipalRegistry(ps) = [r \in Senders |-> At(r)]
  BY DEF RebuildPrincipalRegistry
<1>2. Len(ps) \in Nat OBVIOUS
<1>3. ASSUME NEW r
      PROVE  IF \E q \in 1..Len(ps) : ps[q].ref = r
             THEN At(r) \in 1..Len(ps) /\ ps[At(r)].ref = r ELSE At(r) = 0
  <2>1. CASE \E q \in 1..Len(ps) : ps[q].ref = r
    <3> DEFINE S == {q \in 1..Len(ps) : ps[q].ref = r}
    <3>1. S \in SUBSET (1..Len(ps)) /\ S # {} BY <2>1
    <3>2. PICK p \in S : \A q \in (p + 1)..Len(ps) : q \notin S
      <4> HIDE DEF S
      <4> QED BY <1>2, <3>1, LastOne
    <3>3. \A q \in (p + 1)..Len(ps) : q \in 1..Len(ps) BY <1>2
    <3>4. p \in 1..Len(ps) /\ Last(r, p) BY <3>2, <3>3
    <3>5. (CHOOSE q \in 1..Len(ps) : Last(r, q)) \in 1..Len(ps)
          /\ Last(r, CHOOSE q \in 1..Len(ps) : Last(r, q))
      <4> HIDE DEF Last
      <4> QED BY <3>4
    <3> QED BY <2>1, <3>5
  <2>2. CASE ~ \E q \in 1..Len(ps) : ps[q].ref = r BY <2>2
  <2> QED BY <2>1, <2>2
<1>4. ASSUME NEW r \in Senders PROVE At(r) \in 0..Len(ps)
  <2> HIDE DEF At
  <2>1. At(r) = 0 \/ At(r) \in 1..Len(ps) BY <1>3
  <2> QED BY <1>2, <2>1
<1> HIDE DEF At
<1> QED BY <1>1, <1>3, <1>4

\* A sender without a principal gets one.
Indexes(r, role) ==
  /\ memory.index[r] = 0
  /\ principals' = Append(principals, [ref |-> r, role |-> role])
  /\ memory' = [memory EXCEPT !.index[r] = Len(principals) + 1]

LEMMA Indexing ==
  ASSUME TypeInv, NEW r \in Senders, NEW role \in Roles, Indexes(r, role)
  PROVE  /\ principals' \in Seq(Principals) /\ Len(principals') = Len(principals) + 1
         /\ \A p \in 1..Len(principals) : principals'[p] = principals[p]
         /\ principals'[Len(principals) + 1] = [ref |-> r, role |-> role]
         /\ \A q \in Senders :
              memory'.index[q] = IF q = r THEN Len(principals) + 1 ELSE memory.index[q]
         /\ memory' \in Caches(Len(sessions), Len(principals) + 1, Len(threads))
         /\ memory'.seen = memory.seen /\ memory'.session = memory.session
         /\ memory'.number = memory.number /\ memory'.thread = memory.thread
<1> DEFINE new == [ref |-> r, role |-> role]
<1>1. principals \in Seq(Principals) /\ Len(principals) \in Nat
  BY Lengths DEF TypeInv, Tables
<1>2. new \in Principals BY DEF Principals
<1>3. principals' = Append(principals, new) BY DEF Indexes
<1>4. /\ principals' \in Seq(Principals) /\ Len(principals') = Len(principals) + 1
      /\ \A p \in 1..Len(principals) : principals'[p] = principals[p]
      /\ principals'[Len(principals) + 1] = new
  <2> HIDE DEF new
  <2> QED BY <1>1, <1>2, <1>3, AppendProperties
<1>5. memory \in Caches(Len(sessions), Len(principals), Len(threads)) BY DEF TypeInv
<1>6. /\ \A q \in Senders :
           memory'.index[q] = IF q = r THEN Len(principals) + 1 ELSE memory.index[q]
      /\ memory'.index \in [Senders -> 0..(Len(principals) + 1)]
  BY <1>1, <1>5 DEF Indexes, Caches
<1>7. memory' = [memory EXCEPT !.index = memory'.index] BY <1>5 DEF Indexes, Caches
<1>8. memory' \in Caches(Len(sessions), Len(principals) + 1, Len(threads))
  BY <1>5, <1>6, <1>7 DEF Caches
<1> QED BY <1>4, <1>5, <1>6, <1>8 DEF Indexes, Caches

\* What a step does to the principals, and to the index that finds them.
LEMMA NextPrincipals ==
  ASSUME TypeInv, [Next]_vars
  PROVE  \/ /\ principals' = principals /\ memory'.index = memory.index
            /\ memory' = memory \/ TelegramIngester \/ CountTurn \/ ThreadTracker
         \/ \E r \in Senders \ Owners : Indexes(r, "external") /\ UNCHANGED granted
         \/ \E r \in Owners : Indexes(r, "owner") /\ UNCHANGED granted
         \/ \E r \in Senders, role \in Roles :
              /\ granted' = [granted EXCEPT ![r] = role]
              /\ \/ Indexes(r, role)
                 \/ /\ memory.index[r] # 0 /\ UNCHANGED memory
                    /\ principals' = [principals EXCEPT ![memory.index[r]].role = role]
         \/ CrashRestart
<1>1. memory \in Caches(Len(sessions), Len(principals), Len(threads)) BY DEF TypeInv
<1>2. CASE \E g \in Grants : RegisterPrincipal(g.ref, g.role)
  <2>1. PICK g \in Grants : RegisterPrincipal(g.ref, g.role) BY <1>2
  <2>2. g.ref \in Senders /\ g.role \in Roles BY ConversationAssumption
  <2> QED BY <2>1, <2>2 DEF RegisterPrincipal, Indexes
<1>3. CASE PrincipalResolver
  <2>1. PICK r \in Senders : ResolvePrincipal(r)
    <3>1. CASE Fires("principal_resolver") /\ ResolvePrincipal(Ref) BY <3>1, Firing
    <3>2. CASE /\ Fires("comm_message_principal_resolver")
               /\ ResolvePrincipal(inputs[messages[Ref].input].user)
      <4>1. Ref \in 1..Len(messages) BY <3>2, Firing DEF MessageBehaviors
      <4>2. messages[Ref].input \in 1..Len(inputs) BY <4>1 DEF TypeInv, References
      <4>3. inputs[messages[Ref].input] \in Inputs
        BY <4>2, ElementOfSeq DEF TypeInv, Tables
      <4> QED BY <3>2, <4>3 DEF Inputs
    <3> QED BY <1>3, <3>1, <3>2 DEF PrincipalResolver
  <2>2. UNCHANGED granted BY <1>3 DEF PrincipalResolver
  <2> QED BY <2>1, <2>2 DEF ResolvePrincipal, Indexes
<1>4. CASE TelegramIngester \/ CountTurn
  BY <1>1, <1>4 DEF TelegramIngester, CountTurn, Caches
<1>5. CASE ThreadTracker
  <2>1. UNCHANGED principals BY <1>5 DEF ThreadTracker
  <2>2. PICK t : \/ memory' = [memory EXCEPT !.thread = @ \cup {t}]
                 \/ memory' = memory
    BY <1>5, Tracking
  <2> QED BY <1>1, <1>5, <2>1, <2>2 DEF Caches
<1>6. CASE principals' = principals /\ memory' = memory BY <1>6
<1> QED BY <1>2, <1>3, <1>4, <1>5, <1>6, Changes

\* The owners are registered again as owners.
LEMMA Restarting ==
  ASSUME TypeInv, CrashRestart
  PROVE  /\ principals' \in Seq(Principals) /\ Len(principals') = Len(principals)
         /\ \A p \in 1..Len(principals) :
              /\ principals'[p].ref = principals[p].ref
              /\ principals'[p].role = IF \E r \in Owners : memory'.index[r] = p
                                       THEN "owner" ELSE principals[p].role
         /\ memory' = Fresh(principals)
         /\ memory' \in Caches(Len(sessions), Len(principals), Len(threads))
<1> DEFINE n == Len(principals)
           Again(p) == IF \E r \in Owners : memory'.index[r] = p
                       THEN [principals[p] EXCEPT !.role = "owner"] ELSE principals[p]
           again == [p \in 1..n |-> Again(p)]
<1>1. principals \in Seq(Principals) /\ n \in Nat BY Lengths DEF TypeInv, Tables
<1>2. principals' = again /\ memory' = Fresh(principals) BY DEF CrashRestart
<1>3. ASSUME NEW p \in 1..n
      PROVE  /\ Again(p) \in Principals /\ Again(p).ref = principals[p].ref
             /\ Again(p).role = IF \E r \in Owners : memory'.index[r] = p
                                THEN "owner" ELSE principals[p].role
  <2>1. principals[p] \in Principals BY <1>1, ElementOfSeq
  <2> QED BY <2>1 DEF Principals, Roles
<1>4. again \in [1..n -> Principals] /\ \A p \in 1..n : again[p] = Again(p)
  <2> HIDE DEF Again
  <2> QED BY <1>3
<1>5. again \in Seq(Principals) /\ Len(again) = n
  <2> HIDE DEF again
  <2> QED BY <1>1, <1>4
<1>6. Fresh(principals) \in Caches(Len(sessions), n, Len(threads))
  <2>1. RebuildPrincipalRegistry(principals) \in [Senders -> 0..n] BY <1>1, Rebuilding
  <2>2. Len(sessions) \in Nat BY Lengths
  <2>3. Empty(Senders) \in [Senders -> 0..Len(sessions)] /\ Empty(Senders) \in [Senders -> Nat]
    BY <2>2 DEF Empty
  <2> QED BY <2>1, <2>3 DEF Fresh, Caches
<1> HIDE DEF Again, again
<1> QED BY <1>2, <1>3, <1>4, <1>5, <1>6

LEMMA PrincipalsTyped ==
  ASSUME TypeInv, [Next]_vars
  PROVE  /\ principals' \in Seq(Principals)
         /\ Len(principals') \in {Len(principals), Len(principals) + 1}
         /\ \A p \in 1..Len(principals) : principals'[p].ref = principals[p].ref
<1>1. principals \in Seq(Principals) /\ Len(principals) \in Nat
  BY Lengths DEF TypeInv, Tables
<1>2. CASE principals' = principals BY <1>1, <1>2
<1>3. CASE \E r \in Senders, role \in Roles : Indexes(r, role) BY <1>3, Indexing
<1>4. ASSUME NEW r \in Senders, NEW role \in Roles, memory.index[r] # 0,
             principals' = [principals EXCEPT ![memory.index[r]].role = role]
      PROVE  /\ principals' \in Seq(Principals) /\ Len(principals') = Len(principals)
             /\ \A p \in 1..Len(principals) : principals'[p].ref = principals[p].ref
  <2> DEFINE k == memory.index[r]
             new == [principals[k] EXCEPT !.role = role]
  <2>1. k \in 1..Len(principals) BY <1>1, <1>4 DEF TypeInv, Caches
  <2>2. principals[k] \in Principals BY <1>1, <2>1, ElementOfSeq
  <2>3. new \in Principals /\ new.ref = principals[k].ref BY <2>2 DEF Principals
  <2>4. principals' = [principals EXCEPT ![k] = new] BY <1>4
  <2> HIDE DEF k, new
  <2> QED BY <1>1, <2>1, <2>3, <2>4, ExceptSeq
<1>5. CASE CrashRestart BY <1>1, <1>5, Restarting
<1>6. "external" \in Roles /\ "owner" \in Roles /\ Owners \subseteq Senders
  BY ConversationAssumption DEF Roles
<1> QED BY <1>2, <1>3, <1>4, <1>5, <1>6, NextPrincipals

\* The sender whose turn the frame counts.
LEMMA Counting ==
  ASSUME TypeInv, CountTurn
  PROVE  LET r == inputs[exec.input].user
         IN  /\ r \in Senders /\ exec.session \in 1..Len(sessions) /\ exec.number \in Nat
             /\ memory' \in Caches(Len(sessions), Len(principals), Len(threads))
             /\ memory'.seen = memory.seen /\ memory'.index = memory.index
             /\ memory'.thread = memory.thread
             /\ \A q \in Senders :
                  /\ memory'.session[q] = IF q = r THEN exec.session ELSE memory.session[q]
                  /\ memory'.number[q] = IF q = r THEN exec.number ELSE memory.number[q]
<1> DEFINE r == inputs[exec.input].user
<1>1. /\ exec.input \in 1..Len(inputs) /\ exec.session \in 1..Len(sessions)
      /\ exec.number \in Nat
  BY DEF CountTurn, TypeInv, FrameTypes, Frames
<1>2. inputs[exec.input] \in Inputs BY <1>1, ElementOfSeq DEF TypeInv, Tables
<1>3. r \in Senders BY <1>2 DEF Inputs
<1>4. memory \in Caches(Len(sessions), Len(principals), Len(threads)) BY DEF TypeInv
<1>5. memory' = [memory EXCEPT !.session[r] = exec.session, !.number[r] = exec.number]
  BY DEF CountTurn
<1> HIDE DEF r
<1>6. Len(sessions) \in Nat BY Lengths
<1>7. memory' = [memory EXCEPT !.session = [memory.session EXCEPT ![r] = exec.session],
                               !.number = [memory.number EXCEPT ![r] = exec.number]]
  BY <1>4, <1>5 DEF Caches
<1>8. /\ memory' \in Caches(Len(sessions), Len(principals), Len(threads))
      /\ memory'.seen = memory.seen /\ memory'.index = memory.index
      /\ memory'.thread = memory.thread
      /\ memory'.session = [memory.session EXCEPT ![r] = exec.session]
      /\ memory'.number = [memory.number EXCEPT ![r] = exec.number]
  <2>1. /\ [memory.session EXCEPT ![r] = exec.session] \in [Senders -> 0..Len(sessions)]
        /\ [memory.number EXCEPT ![r] = exec.number] \in [Senders -> Nat]
    BY <1>1, <1>3, <1>4, <1>6 DEF Caches
  <2> QED BY <1>4, <1>7, <2>1 DEF Caches
<1>9. \A q \in Senders :
        /\ memory'.session[q] = IF q = r THEN exec.session ELSE memory.session[q]
        /\ memory'.number[q] = IF q = r THEN exec.number ELSE memory.number[q]
  BY <1>4, <1>8 DEF Caches
<1> QED BY <1>1, <1>3, <1>8, <1>9 DEF r

LEMMA CachesTyped ==
  ASSUME TypeInv, [Next]_vars
  PROVE  memory' \in Caches(Len(sessions'), Len(principals'), Len(threads'))
<1> DEFINE C == Caches(Len(sessions'), Len(principals'), Len(threads'))
<1>1. /\ Len(sessions) \in Nat /\ Len(principals) \in Nat /\ Len(threads) \in Nat
      /\ Len(sessions') \in Nat /\ Len(principals') \in Nat /\ Len(threads') \in Nat
      /\ Len(sessions) <= Len(sessions') /\ Len(principals) <= Len(principals')
      /\ Len(threads) <= Len(threads')
  BY Lengths, NextSessions, PrincipalsTyped, NextThreads
<1>2. /\ 0..Len(sessions) \subseteq 0..Len(sessions')
      /\ 0..Len(principals) \subseteq 0..Len(principals')
      /\ 1..Len(threads) \subseteq 1..Len(threads')
  BY <1>1
<1>11. Caches(Len(sessions), Len(principals), Len(threads)) \subseteq C BY <1>2 DEF Caches
<1>3. memory \in Caches(Len(sessions), Len(principals), Len(threads)) BY DEF TypeInv
<1>4. CASE memory' = memory BY <1>3, <1>4, <1>11
<1>5. CASE TelegramIngester
  <2>1. Ref \in Ids BY <1>5, Firing DEF TelegramIngester
  <2>2. memory' = [memory EXCEPT !.seen = @ \cup {Ref}] BY <1>5 DEF TelegramIngester
  <2>3. memory' \in Caches(Len(sessions), Len(principals), Len(threads))
    BY <1>3, <2>1, <2>2 DEF Caches
  <2> QED BY <1>11, <2>3
<1>6. CASE CountTurn
  <2>1. memory' \in Caches(Len(sessions), Len(principals), Len(threads))
    BY <1>6, Counting
  <2> QED BY <1>11, <2>1
<1>7. CASE CrashRestart
  <2>1. memory' \in Caches(Len(sessions), Len(principals), Len(threads))
    BY <1>7, Restarting
  <2> QED BY <1>11, <2>1
<1>8. CASE ThreadTracker
  <2>1. UNCHANGED <<sessions, principals>> BY <1>8 DEF ThreadTracker
  <2>2. PICK t \in 1..(Len(threads) + 1) :
           \/ /\ t = Len(threads) + 1 /\ Len(threads') = Len(threads) + 1
              /\ memory' = [memory EXCEPT !.thread = @ \cup {t}]
           \/ memory' = memory
    BY <1>8, Tracking
  <2>3. CASE memory' = [memory EXCEPT !.thread = @ \cup {t}]
               /\ Len(threads') = Len(threads) + 1
    <3>1. 1..Len(threads) \subseteq 1..Len(threads') /\ t \in 1..Len(threads')
      BY <1>1, <2>3
    <3> QED BY <1>3, <2>1, <2>3, <3>1 DEF Caches
  <2> QED BY <1>4, <2>2, <2>3
<1>9. CASE \E r \in Senders, role \in Roles : Indexes(r, role)
  <2>1. /\ Len(principals') = Len(principals) + 1
        /\ memory' \in Caches(Len(sessions), Len(principals) + 1, Len(threads))
    BY <1>9, Indexing
  <2>2. Caches(Len(sessions), Len(principals) + 1, Len(threads)) \subseteq C
    BY <1>2, <2>1 DEF Caches
  <2> QED BY <2>1, <2>2
<1>10. "external" \in Roles /\ "owner" \in Roles /\ Owners \subseteq Senders
  BY ConversationAssumption DEF Roles
<1> QED BY <1>4, <1>5, <1>6, <1>7, <1>8, <1>9, <1>10, NextPrincipals

-----------------------------------------------------------------------------
(* The queue: what leaves it and what joins *)

Responder(gate) == IF gate = "open" THEN "chat_llm_responder" ELSE "chat_deflection_responder"

\* One of each behavior hears of a message, and one of the responders.
LEMMA SubscribersOnce ==
  ASSUME NEW gate \in Gates, NEW web \in BOOLEAN
  PROVE  LET s == Subscribers(gate, web)
         IN  /\ s \in Seq(MessageBehaviors)
             /\ \A j, k \in 1..Len(s) : s[j] = s[k] => j = k
             /\ \A k \in 1..Len(s) : s[k] \in Responders => s[k] = Responder(gate)
<1> DEFINE s == Subscribers(gate, web)
           M == MessageBehaviors
           a == "comm_message_principal_resolver"
           b == "thread_tracker"
           c == "chat_context_assembler"
           d == Responder(gate)
           two == <<a, b>>
           last == <<d>>
           first == two \o (IF web THEN <<c>> ELSE <<>>)
<1>1. /\ d \in M /\ d # a /\ d # b /\ d # c /\ a \in M /\ b \in M /\ c \in M
      /\ a # b /\ a # c /\ b # c /\ a \notin Responders /\ b \notin Responders
      /\ c \notin Responders
  BY DEF Responder, MessageBehaviors, Responders
<1>2. s = first \o last BY DEF Subscribers, Responder
<1> HIDE DEF s, a, b, c, d, M
<1>3. two \in Seq(M) /\ Len(two) = 2 /\ two[1] = a /\ two[2] = b BY <1>1
<1>4. last \in Seq(M) /\ Len(last) = 1 /\ last[1] = d BY <1>1
<1>5. CASE web
  <2>1. <<c>> \in Seq(M) /\ Len(<<c>>) = 1 /\ <<c>>[1] = c BY <1>1
  <2>2. first = two \o <<c>> BY <1>5
  <2> HIDE DEF two, first, last
  <2>3. /\ first \in Seq(M) /\ Len(first) = 3
        /\ first[1] = a /\ first[2] = b /\ first[3] = c
    BY <1>3, <2>1, <2>2, ConcatProperties
  <2>4. /\ s \in Seq(M) /\ Len(s) = 3 + 1
        /\ \A i \in 1..(3 + 1) : s[i] = IF i <= 3 THEN first[i] ELSE last[i - 3]
    <3>1. /\ first \o last \in Seq(M) /\ Len(first \o last) = Len(first) + Len(last)
          /\ \A i \in 1..(Len(first) + Len(last)) : (first \o last)[i] =
               IF i <= Len(first) THEN first[i] ELSE last[i - Len(first)]
      BY <1>4, <2>3, ConcatProperties
    <3> QED BY <1>2, <1>4, <2>3, <3>1
  <2>6. s[1] = a /\ s[2] = b /\ s[3] = c /\ s[4] = d BY <1>4, <2>3, <2>4
  <2>5. \A k \in 1..Len(s) : k \in {1, 2, 3, 4} BY <2>4
  <2> QED BY <1>1, <2>4, <2>5, <2>6 DEF s, d, M
<1>6. CASE ~ web
  <2>1. first = two \o << >> BY <1>6
  <2> HIDE DEF two, first, last
  <2>2. first = two BY <1>3, <2>1, ConcatEmptySeq
  <2>3. /\ s \in Seq(M) /\ Len(s) = 2 + 1
        /\ \A i \in 1..(2 + 1) : s[i] = IF i <= 2 THEN first[i] ELSE last[i - 2]
    BY <1>2, <1>3, <1>4, <2>2, ConcatProperties
  <2>4. s[1] = a /\ s[2] = b /\ s[3] = d BY <1>3, <1>4, <2>2, <2>3
  <2>5. \A k \in 1..Len(s) : k \in {1, 2, 3} BY <2>3
  <2> QED BY <1>1, <2>3, <2>4, <2>5 DEF s, d, M
<1> QED BY <1>5, <1>6

FirstHands == {"telegram_ingester", "chat_ingester", "principal_resolver"}

\* What joins the queue: a delivery of its own, a new message's or a new candidate's.
News(news) ==
  \/ \A k \in 1..Len(news) : news[k].behavior \in FirstHands
  \/ /\ AddMessage
     /\ \A k \in 1..Len(news) :
          /\ news[k].ref = Len(messages) + 1 /\ news[k].behavior \in MessageBehaviors
          /\ news[k].behavior \in Responders => news[k].behavior = Responder(exec.gate)
     /\ \A j, k \in 1..Len(news) : news[j].behavior = news[k].behavior => j = k
  \/ /\ ChatLlmResponder \/ ChatDeflectionResponder
     /\ Len(candidates') = Len(candidates) + 1
     /\ \A k \in 1..Len(news) :
          news[k].ref = Len(candidates) + 1 /\ news[k].behavior \in CandidateBehaviors
     /\ \A j, k \in 1..Len(news) : news[j].behavior = news[k].behavior => j = k

LEMMA NoNews == ASSUME NEW D PROVE <<>> \in Seq(D) /\ News(<<>>)
<1>1. <<>> \in Seq(D) /\ Len(<<>>) = 0 BY EmptySeq
<1>2. \A k \in 1..Len(<<>>) : FALSE BY <1>1
<1> HIDE <1>2
<1>3. \A k \in 1..Len(<<>>) : <<>>[k].behavior \in FirstHands BY <1>2, Zenon
<1> QED BY <1>1, <1>3 DEF News

LEMMA OneNews ==
  ASSUME TypeInv, NEW b \in FirstHands, NEW ref, NEW i \in Nat, NEW m \in Nat, NEW c \in Nat,
         Deliverable(Deliver(b, ref), i, m, c)
  PROVE  <<Deliver(b, ref)>> \in Seq(Deliveries(i, m, c)) /\ News(<<Deliver(b, ref)>>)
<1> DEFINE d == Deliver(b, ref)
<1>1. d.behavior = b /\ d.ref = ref BY DEF Deliver
<1>2. ref \in Nat \cup Senders
  BY <1>1, UpdateTypes
     DEF Deliverable, FirstHands, MessageBehaviors, CandidateBehaviors
<1>3. d \in Deliveries(i, m, c)
  BY <1>1, <1>2 DEF Deliver, Deliveries, FirstHands
<1> HIDE DEF d
<1>4. <<d>> \in Seq(Deliveries(i, m, c)) /\ Len(<<d>>) = 1 /\ <<d>>[1] = d BY <1>3
<1>5. \A k \in 1..Len(<<d>>) : <<d>>[k].behavior \in FirstHands BY <1>1, <1>4
<1> QED BY <1>4, <1>5 DEF News, d

MessageNews ==
  LET ds == Subscribers(exec.gate, inputs[exec.input].update = 0)
  IN  [k \in 1..Len(ds) |-> Deliver(ds[k], Len(messages) + 1)]
CandidateNews ==
  [k \in 1..3 |-> Deliver(<<"response_dispatcher", "chat_responder",
                            "telegram_dispatcher">>[k], Len(candidates) + 1)]

LEMMA AnnouncingMessage ==
  ASSUME TypeInv, AddMessage, NEW i \in Nat, NEW c \in Nat
  PROVE  /\ MessageNews \in Seq(Deliveries(i, Len(messages) + 1, c))
         /\ News(MessageNews)
<1> DEFINE web == inputs[exec.input].update = 0
           ds == Subscribers(exec.gate, web)
           n == Len(ds)
           D == Deliveries(i, Len(messages) + 1, c)
<1>1. exec.gate \in Gates BY DEF TypeInv, FrameTypes, Frames
<1>2. web \in BOOLEAN OBVIOUS
<1>3. /\ ds \in Seq(MessageBehaviors) /\ n \in Nat
      /\ \A j, k \in 1..n : ds[j] = ds[k] => j = k
      /\ \A k \in 1..n : ds[k] \in Responders => ds[k] = Responder(exec.gate)
  <2> HIDE DEF web
  <2> QED BY <1>1, <1>2, SubscribersOnce
<1>4. MessageNews = [k \in 1..n |-> Deliver(ds[k], Len(messages) + 1)] BY DEF MessageNews
<1> HIDE DEF ds
<1>5. \A k \in 1..n : ds[k] \in MessageBehaviors BY <1>3, ElementOfSeq
<1>6. \A k \in 1..n : /\ MessageNews[k].behavior = ds[k]
                      /\ MessageNews[k].ref = Len(messages) + 1
                      /\ MessageNews[k] \in D
  <2> SUFFICES ASSUME NEW k \in 1..n
               PROVE  /\ MessageNews[k].behavior = ds[k]
                      /\ MessageNews[k].ref = Len(messages) + 1
                      /\ MessageNews[k] \in D
    OBVIOUS
  <2>1. MessageNews[k] = Deliver(ds[k], Len(messages) + 1) BY <1>4
  <2>2. Len(messages) + 1 \in Nat /\ Len(messages) + 1 \in 1..(Len(messages) + 1)
    BY Lengths
  <2> HIDE DEF n
  <2> QED BY <1>5, <2>1, <2>2 DEF Deliver, Deliveries, Deliverable
<1> HIDE DEF n, D
<1>7. MessageNews \in [1..n -> D] BY <1>4, <1>6
<1>8. MessageNews \in Seq(D) /\ Len(MessageNews) = n BY <1>3, <1>7
<1> QED BY <1>3, <1>5, <1>6, <1>8 DEF News, D

LEMMA AnnouncingCandidate ==
  ASSUME TypeInv, ChatLlmResponder \/ ChatDeflectionResponder,
         Len(candidates') = Len(candidates) + 1, NEW i \in Nat, NEW m \in Nat
  PROVE  /\ CandidateNews \in Seq(Deliveries(i, m, Len(candidates) + 1))
         /\ News(CandidateNews)
<1> DEFINE D == Deliveries(i, m, Len(candidates) + 1)
           bs == <<"response_dispatcher", "chat_responder", "telegram_dispatcher">>
<1>1. /\ \A k \in 1..3 : bs[k] \in CandidateBehaviors
      /\ \A j, k \in 1..3 : bs[j] = bs[k] => j = k
  <2>1. 1..3 = {1, 2, 3} OBVIOUS
  <2> QED BY <2>1 DEF CandidateBehaviors
<1> HIDE DEF bs
<1>2. CandidateNews = [k \in 1..3 |-> Deliver(bs[k], Len(candidates) + 1)]
  BY DEF CandidateNews, bs
<1>3. \A k \in 1..3 : /\ CandidateNews[k].behavior = bs[k]
                      /\ CandidateNews[k].ref = Len(candidates) + 1
                      /\ CandidateNews[k] \in D
  <2> SUFFICES ASSUME NEW k \in 1..3
               PROVE  /\ CandidateNews[k].behavior = bs[k]
                      /\ CandidateNews[k].ref = Len(candidates) + 1
                      /\ CandidateNews[k] \in D
    OBVIOUS
  <2>1. CandidateNews[k] = Deliver(bs[k], Len(candidates) + 1) BY <1>2
  <2>2. Len(candidates) + 1 \in Nat /\ Len(candidates) + 1 \in 1..(Len(candidates) + 1)
    BY Lengths
  <2> QED BY <1>1, <2>1, <2>2 DEF Deliver, Deliveries, Deliverable
<1> HIDE DEF D
<1>4. CandidateNews \in [1..3 -> D] BY <1>2, <1>3
<1>5. CandidateNews \in Seq(D) /\ Len(CandidateNews) = 3
  <2>1. PICK n \in Nat : n = 3 OBVIOUS
  <2>2. CandidateNews \in [1..n -> D] BY <1>4, <2>1
  <2>3. CandidateNews \in Seq(D) /\ Len(CandidateNews) = n BY <2>2
  <2> QED BY <2>1, <2>3
<1> QED BY <1>1, <1>3, <1>5 DEF News, D

\* The head is taken by the action that fires it.
Takes == ThreadTracker \/ ChatLlmResponder \/ ChatDeflectionResponder \/ TelegramDispatcher
Rest(shift) == IF shift = 1 THEN Tail(queue) ELSE queue

LEMMA QueueMoves ==
  ASSUME TypeInv, [Next]_vars
  PROVE  LET D == Deliveries(Len(inputs'), Len(messages'), Len(candidates'))
         IN  /\ queue \in Seq(D)
             /\ \/ queue' = <<>>
                \/ \E shift \in {0, 1}, news \in Seq(D) :
                     /\ queue' = Rest(shift) \o news /\ News(news)
                     /\ shift = 1 => queue # <<>>
                     /\ Takes => shift = 1
<1> DEFINE D == Deliveries(Len(inputs'), Len(messages'), Len(candidates'))
           Moves(shift, news) ==
             /\ queue' = Rest(shift) \o news /\ news \in Seq(D) /\ News(news)
             /\ shift = 1 => queue # <<>>
             /\ Takes => shift = 1
<1>1. /\ Len(inputs') \in Nat /\ Len(messages') \in Nat /\ Len(candidates') \in Nat
      /\ Len(inputs) <= Len(inputs') /\ Len(messages) <= Len(messages')
      /\ Len(candidates) <= Len(candidates')
  <2>1. Len(inputs') \in {Len(inputs), Len(inputs) + 1} BY NextInputs
  <2>2. Len(messages') \in {Len(messages), Len(messages) + 1} BY NextMessages
  <2>3. Len(candidates') \in {Len(candidates), Len(candidates) + 1} BY NextCandidates
  <2> QED BY <2>1, <2>2, <2>3, Lengths
<1>2. queue \in Seq(D)
  <2>1. Deliveries(Len(inputs), Len(messages), Len(candidates)) \subseteq D
    <3>1. /\ 1..Len(inputs) \subseteq 1..Len(inputs')
          /\ 1..Len(messages) \subseteq 1..Len(messages')
          /\ 1..Len(candidates) \subseteq 1..Len(candidates')
      BY <1>1, Lengths
    <3> QED BY <3>1 DEF Deliveries, Deliverable
  <2> HIDE DEF D
  <2> QED BY <2>1, SeqMonotonic DEF TypeInv
<1>3. \A s \in Seq(D) : s \o <<>> = s /\ <<>> \o s = s
  <2> HIDE DEF D
  <2> QED BY ConcatEmptySeq
<1>4. Rest(0) = queue /\ Rest(1) = Tail(queue) BY DEF Rest
<1>5. queue # <<>> => Tail(queue) \in Seq(D)
  <2> HIDE DEF D
  <2> QED BY <1>2, HeadTailProperties
<1>6. queue # <<>> => Tail(queue) # queue
  <2> HIDE DEF D
  <2> QED BY <1>2, HeadTailProperties, LenProperties
<1>7. Takes => queue # <<>> /\ exec = Idle
  BY DEF Takes, ThreadTracker, ChatLlmResponder, ChatDeflectionResponder,
         TelegramDispatcher, Fires
<1>8. <<>> \in Seq(D) /\ News(<<>>)
  <2> HIDE DEF D
  <2> QED BY NoNews
<1>9. CASE queue # <<>> /\ queue' = Tail(queue)
  <2> HIDE DEF D
  <2>1. Moves(1, <<>>) BY <1>3, <1>4, <1>5, <1>8, <1>9
  <2> QED BY <1>2, <2>1 DEF D
<1>10. CASE queue' = queue /\ ~ Takes
  <2> HIDE DEF D
  <2>1. Moves(0, <<>>) BY <1>2, <1>3, <1>4, <1>8, <1>10
  <2> QED BY <1>2, <2>1 DEF D
<1>11. ASSUME ChatLlmResponder \/ ChatDeflectionResponder,
              NEW s, NEW gated, Answer(Ref, s, gated),
              Len(candidates') = Len(candidates) + 1
       PROVE  Moves(1, CandidateNews)
  <2>1. queue' = Tail(queue) \o CandidateNews BY <1>11 DEF Answer, CandidateNews
  <2>2. CandidateNews \in Seq(D) /\ News(CandidateNews)
    BY <1>1, <1>11, AnnouncingCandidate
  <2>3. queue # <<>> BY <1>7, <1>11 DEF Takes
  <2> HIDE DEF D
  <2> QED BY <1>4, <2>1, <2>2, <2>3
<1>12. CASE Takes
  <2>1. CASE ThreadTracker \/ TelegramDispatcher
    BY <1>7, <1>9, <1>12, <2>1 DEF ThreadTracker, TelegramDispatcher
  <2>2. CASE ChatDeflectionResponder
    <3>1. Ref \in 1..Len(messages) BY <2>2, Firing DEF ChatDeflectionResponder, MessageBehaviors
    <3>2. Answer(Ref, "approved", TRUE) BY <2>2 DEF ChatDeflectionResponder
    <3>3. Answers(Ref, TRUE) BY <3>1, <3>2, Answering
    <3>4. Moves(1, CandidateNews) BY <1>11, <2>2, <3>2, <3>3 DEF Answers
    <3> HIDE DEF D
    <3> QED BY <1>2, <3>4 DEF D
  <2>3. CASE ChatLlmResponder
    <3>1. CASE queue' = Tail(queue) BY <1>7, <1>9, <1>12, <3>1
    <3>2. CASE \E s \in {"proposed", "approved"} : Answer(Ref, s, FALSE)
      <4>1. PICK s \in {"proposed", "approved"} : Answer(Ref, s, FALSE) BY <3>2
      <4>2. Ref \in 1..Len(messages) BY <2>3, Firing DEF ChatLlmResponder, MessageBehaviors
      <4>3. Answers(Ref, FALSE) BY <4>1, <4>2, Answering
      <4>4. Moves(1, CandidateNews) BY <1>11, <2>3, <4>1, <4>3 DEF Answers
      <4> HIDE DEF D
      <4> QED BY <1>2, <4>4 DEF D
    <3> QED BY <2>3, <3>1, <3>2 DEF ChatLlmResponder
  <2> QED BY <1>12, <2>1, <2>2, <2>3 DEF Takes
<1>13. ASSUME NEW b \in FirstHands, NEW ref,
              Deliverable(Deliver(b, ref), Len(inputs'), Len(messages'), Len(candidates')),
              ~ Takes,
              \/ queue' = Append(queue, Deliver(b, ref))
              \/ queue = <<>> /\ queue' = <<Deliver(b, ref)>>
              \/ queue # <<>> /\ queue' = Append(Tail(queue), Deliver(b, ref))
       PROVE  \E shift \in {0, 1} : \E news : Moves(shift, news)
  <2> DEFINE d == Deliver(b, ref)
  <2>1. <<d>> \in Seq(D) /\ News(<<d>>) BY <1>1, <1>13, OneNews
  <2> HIDE DEF D, d
  <2>2. d \in D BY <2>1
  <2>3. \A s \in Seq(D) : Append(s, d) = s \o <<d>> BY <2>2, AppendIsConcat
  <2>4. CASE queue' = Append(queue, d)
    <3>1. Moves(0, <<d>>) BY <1>2, <1>4, <1>13, <2>1, <2>3, <2>4
    <3> QED BY <3>1
  <2>5. CASE queue = <<>> /\ queue' = <<d>>
    <3>1. Moves(0, <<d>>) BY <1>3, <1>4, <1>13, <2>1, <2>5
    <3> QED BY <3>1
  <2>6. CASE queue # <<>> /\ queue' = Append(Tail(queue), d)
    <3>1. Moves(1, <<d>>) BY <1>4, <1>5, <1>13, <2>1, <2>3, <2>6
    <3> QED BY <3>1
  <2> QED BY <1>13, <2>4, <2>5, <2>6 DEF d
<1>14. CASE ~ Takes /\ AddMessage
  <2>1. queue' = queue \o MessageNews BY <1>14 DEF AddMessage, MessageNews
  <2>2. Len(messages') = Len(messages) + 1 BY <1>14, AddingMessage
  <2>3. MessageNews \in Seq(D) /\ News(MessageNews)
    BY <1>1, <1>14, <2>2, AnnouncingMessage
  <2> HIDE DEF D
  <2>4. Moves(0, MessageNews) BY <1>4, <1>14, <2>1, <2>3
  <2> QED BY <1>2, <2>4 DEF D
<1>15. CASE ~ Takes /\ (PostToServer \/ PostTimesOut)
  <2> DEFINE u == Head(poller.batch)
  <2>1. /\ poller.batch # <<>> /\ queue = <<>>
        /\ queue' = <<Deliver("telegram_ingester", u)>>
    BY <1>15 DEF PostToServer, PostTimesOut, Quiet
  <2>2. poller.batch \in Seq(Ids) BY DEF TypeInv, EdgeTypes
  <2>3. u \in Ids BY <2>1, <2>2, HeadTailProperties
  <2>4. Deliverable(Deliver("telegram_ingester", u), Len(inputs'), Len(messages'),
                    Len(candidates'))
    BY <2>3 DEF Deliverable, Deliver
  <2> HIDE DEF D, u
  <2>5. \E shift \in {0, 1} : \E news : Moves(shift, news)
    BY <1>13, <1>15, <2>1, <2>4 DEF FirstHands
  <2> QED BY <1>2, <2>5 DEF D
<1>16. CASE ~ Takes /\ TelegramIngester
  <2>1. queue # <<>> BY <1>16 DEF TelegramIngester, Fires
  <2>2. CASE inputs' # inputs
    <3> DEFINE i == Len(inputs) + 1
    <3>1. queue' = Append(Tail(queue), Deliver("chat_ingester", i))
      BY <1>16, <2>2 DEF TelegramIngester
    <3>2. i \in 1..Len(inputs')
      <4>1. Len(inputs') # Len(inputs)
        <5>1. inputs \in Seq(Inputs) BY DEF TypeInv, Tables
        <5>2. Len(inputs') = Len(inputs) =>
                inputs' \in Seq(Inputs) /\ \A k \in 1..Len(inputs) : inputs'[k] = inputs[k]
          BY NextInputs
        <5> QED BY <2>2, <5>1, <5>2, SeqEqual
      <4>2. Len(inputs') = Len(inputs) + 1 /\ Len(inputs) \in Nat
        BY <4>1, NextInputs, Lengths
      <4> QED BY <4>2
    <3>3. Deliverable(Deliver("chat_ingester", i), Len(inputs'), Len(messages'),
                      Len(candidates'))
      BY <3>2 DEF Deliverable, Deliver
    <3> HIDE DEF D, i
    <3>4. \E shift \in {0, 1} : \E news : Moves(shift, news)
      BY <1>13, <1>16, <2>1, <3>1, <3>3 DEF FirstHands
    <3> QED BY <1>2, <3>4 DEF D
  <2>3. CASE queue' = Tail(queue) BY <1>9, <2>1, <2>3
  <2>4. inputs' # inputs \/ queue' = Tail(queue)
    <3>1. inputs \in Seq(Inputs) BY DEF TypeInv, Tables
    <3>2. ASSUME NEW e, inputs' = Append(inputs, e) PROVE inputs' # inputs
      <4>1. Len(Append(inputs, e)) = Len(inputs) + 1 /\ Len(inputs) \in Nat BY <3>1
      <4> QED BY <3>2, <4>1
    <3> QED BY <1>16, <3>2 DEF TelegramIngester
  <2> QED BY <2>2, <2>3, <2>4
<1>17. CASE ~ Takes /\ \E r \in WebUsers, s \in 0..Len(sessions) : SubmitChatInput(r, s)
  <2> DEFINE i == Len(inputs) + 1
  <2>1. PICK r \in WebUsers, s \in 0..Len(sessions) : SubmitChatInput(r, s) BY <1>17
  <2>2. queue = <<>> /\ queue' = <<Deliver("chat_ingester", i)>>
    BY <2>1 DEF SubmitChatInput, Quiet
  <2>3. i \in 1..Len(inputs')
    <3>1. inputs \in Seq(Inputs) BY DEF TypeInv, Tables
    <3>2. PICK e : inputs' = Append(inputs, e) BY <2>1 DEF SubmitChatInput
    <3>3. Len(Append(inputs, e)) = Len(inputs) + 1 /\ Len(inputs) \in Nat BY <3>1
    <3> QED BY <3>2, <3>3
  <2>4. Deliverable(Deliver("chat_ingester", i), Len(inputs'), Len(messages'),
                    Len(candidates'))
    BY <2>3 DEF Deliverable, Deliver
  <2> HIDE DEF D, i
  <2>5. \E shift \in {0, 1} : \E news : Moves(shift, news)
    BY <1>13, <1>17, <2>2, <2>4 DEF FirstHands
  <2> QED BY <1>2, <2>5 DEF D
<1>18. CASE ~ Takes /\ AddSource
  <2> DEFINE r == inputs[exec.input].user
  <2>1. queue' = Append(queue, Deliver("principal_resolver", r)) BY <1>18 DEF AddSource
  <2>2. exec.input \in 1..Len(inputs) BY <1>18 DEF AddSource, TypeInv, FrameTypes
  <2>3. inputs[exec.input] \in Inputs BY <2>2, ElementOfSeq DEF TypeInv, Tables
  <2>4. r \in Senders BY <2>3 DEF Inputs
  <2>5. Deliverable(Deliver("principal_resolver", r), Len(inputs'), Len(messages'),
                    Len(candidates'))
    BY <2>4 DEF Deliverable, Deliver
  <2> HIDE DEF D, r
  <2>6. \E shift \in {0, 1} : \E news : Moves(shift, news)
    BY <1>13, <1>18, <2>1, <2>5 DEF FirstHands
  <2> QED BY <1>2, <2>6 DEF D
<1>19. CASE ~ Takes /\ (ChatIngester \/ PrincipalResolver \/ ChatContextAssembler
                           \/ ResponseDispatcher \/ ChatResponder)
  <2>1. queue # <<>> /\ queue' = Tail(queue)
    BY <1>19 DEF ChatIngester, PrincipalResolver, ChatContextAssembler,
                 ResponseDispatcher, ChatResponder, Fires
  <2> QED BY <1>9, <2>1
<1>20. CASE ~ Takes /\ (UserSends \/ GetUpdates \/ PostFails \/ PollerRestarts
                           \/ AddTurn \/ LinkTurn \/ CountTurn \/ NameThread
                           \/ UNCHANGED vars
                           \/ (\E g \in Grants : RegisterPrincipal(g.ref, g.role))
                           \/ \E c \in 1..Len(candidates) : ApproveResponse(c))
  <2>1. queue' = queue
    BY <1>20 DEF UserSends, GetUpdates, PostFails, PollerRestarts, AddTurn, LinkTurn,
                 CountTurn, NameThread, RegisterPrincipal, ApproveResponse, vars
  <2> QED BY <1>10, <1>20, <2>1
<1>21. CASE CrashRestart
  <2>1. queue' = <<>> BY <1>21 DEF CrashRestart
  <2> HIDE DEF D
  <2> QED BY <1>2, <2>1 DEF D
<1> QED
  BY <1>12, <1>14, <1>15, <1>16, <1>17, <1>18, <1>19, <1>20, <1>21
     DEF Next, Poll, Drain, Takes

\* What is queued was queued before, nearer to the end, or is news.
LEMMA NextQueue ==
  ASSUME TypeInv, [Next]_vars
  PROVE  /\ queue' \in Seq(Deliveries(Len(inputs'), Len(messages'), Len(candidates')))
         /\ \E shift \in {0, 1}, old \in Nat : \E news :
              /\ News(news) /\ Len(news) \in Nat
              /\ Takes => shift = 1
              /\ \A k \in 1..Len(queue') :
                   \/ k <= old /\ k + shift \in 1..Len(queue) /\ queue'[k] = queue[k + shift]
                   \/ k > old /\ k - old \in 1..Len(news) /\ queue'[k] = news[k - old]
<1> DEFINE D == Deliveries(Len(inputs'), Len(messages'), Len(candidates'))
<1>1. /\ queue \in Seq(D)
      /\ \/ queue' = <<>>
         \/ \E shift \in {0, 1}, news \in Seq(D) :
              /\ queue' = Rest(shift) \o news /\ News(news)
              /\ shift = 1 => queue # <<>>
              /\ Takes => shift = 1
  BY QueueMoves
<1> HIDE DEF D
<1>2. CASE queue' = <<>>
  <2>1. queue' \in Seq(D) /\ Len(queue') = 0 BY <1>2, EmptySeq
  <2>2. News(<<>>) /\ Len(<<>>) \in Nat BY NoNews, EmptySeq
  <2>3. \A k \in 1..Len(queue') : FALSE BY <2>1
  <2>4. 0 \in Nat /\ 1 \in {0, 1} OBVIOUS
  <2> QED BY <2>1, <2>2, <2>3, <2>4 DEF D
<1>3. ASSUME NEW shift \in {0, 1}, NEW news \in Seq(D),
             queue' = Rest(shift) \o news, News(news), shift = 1 => queue # <<>>,
             Takes => shift = 1
      PROVE  /\ queue' \in Seq(D) /\ Len(news) \in Nat
             /\ \E old \in Nat : \A k \in 1..Len(queue') :
                  \/ k <= old /\ k + shift \in 1..Len(queue) /\ queue'[k] = queue[k + shift]
                  \/ k > old /\ k - old \in 1..Len(news) /\ queue'[k] = news[k - old]
  <2>1. /\ Rest(shift) \in Seq(D) /\ Len(Rest(shift)) = Len(queue) - shift
        /\ \A k \in 1..Len(Rest(shift)) : Rest(shift)[k] = queue[k + shift]
    <3>1. CASE shift = 1 BY <1>1, <1>3, <3>1, HeadTailProperties DEF Rest
    <3>2. CASE shift = 0
      <4>1. Len(queue) \in Nat BY <1>1, LenProperties
      <4> QED BY <1>1, <3>2, <4>1 DEF Rest
    <3> QED BY <3>1, <3>2
  <2> DEFINE old == Len(Rest(shift))
  <2>2. old \in Nat /\ Len(news) \in Nat /\ Len(queue) \in Nat
    BY <1>1, <2>1, LenProperties
  <2>3. /\ queue' \in Seq(D) /\ Len(queue') = old + Len(news)
        /\ \A k \in 1..(old + Len(news)) :
             queue'[k] = IF k <= old THEN Rest(shift)[k] ELSE news[k - old]
    BY <1>3, <2>1, ConcatProperties
  <2>4. ASSUME NEW k \in 1..Len(queue')
        PROVE  \/ k <= old /\ k + shift \in 1..Len(queue) /\ queue'[k] = queue[k + shift]
               \/ k > old /\ k - old \in 1..Len(news) /\ queue'[k] = news[k - old]
    <3>1. CASE k <= old
      <4>1. k \in 1..old /\ k + shift \in 1..Len(queue) BY <2>1, <2>2, <3>1
      <4> QED BY <2>1, <2>3, <3>1, <4>1
    <3>2. CASE k > old
      <4>1. k - old \in 1..Len(news) BY <2>2, <2>3, <3>2
      <4> QED BY <2>2, <2>3, <3>2, <4>1
    <3> QED BY <2>2, <3>1, <3>2
  <2> QED BY <2>2, <2>3, <2>4
<1>4. CASE \E shift \in {0, 1}, news \in Seq(D) :
             /\ queue' = Rest(shift) \o news /\ News(news)
             /\ shift = 1 => queue # <<>>
             /\ Takes => shift = 1
  <2>1. PICK shift \in {0, 1}, news \in Seq(D) :
          /\ queue' = Rest(shift) \o news /\ News(news)
          /\ shift = 1 => queue # <<>>
          /\ Takes => shift = 1
    BY <1>4
  <2>2. /\ queue' \in Seq(D) /\ Len(news) \in Nat
        /\ \E old \in Nat : \A k \in 1..Len(queue') :
             \/ k <= old /\ k + shift \in 1..Len(queue) /\ queue'[k] = queue[k + shift]
             \/ k > old /\ k - old \in 1..Len(news) /\ queue'[k] = news[k - old]
    BY <1>3, <2>1
  <2>3. PICK old \in Nat : \A k \in 1..Len(queue') :
          \/ k <= old /\ k + shift \in 1..Len(queue) /\ queue'[k] = queue[k + shift]
          \/ k > old /\ k - old \in 1..Len(news) /\ queue'[k] = news[k - old]
    BY <2>2
  <2>4. /\ News(news) /\ Len(news) \in Nat
        /\ Takes => shift = 1
        /\ \A k \in 1..Len(queue') :
             \/ k <= old /\ k + shift \in 1..Len(queue) /\ queue'[k] = queue[k + shift]
             \/ k > old /\ k - old \in 1..Len(news) /\ queue'[k] = news[k - old]
    BY <2>1, <2>2, <2>3
  <2>5. queue' \in Seq(D) BY <2>2
  <2> QED BY <2>4, <2>5 DEF D
<1> QED BY <1>1, <1>2, <1>4

-----------------------------------------------------------------------------
(* The rest of the types *)

LEMMA FrameTyped ==
  ASSUME TypeInv, [Next]_vars
  PROVE  FrameTypes'
<1>1. /\ exec \in Frames /\ Idle \in Frames /\ Idle.pc = "idle"
      /\ exec.pc = "idle" => exec = Idle
  BY DEF TypeInv, FrameTypes, Idle, Frames, Gates
<1>2. /\ Len(inputs) \in Nat /\ Len(sessions) \in Nat /\ Len(messages) \in Nat
      /\ Len(inputs') \in {Len(inputs), Len(inputs) + 1}
      /\ Len(sessions') \in {Len(sessions), Len(sessions) + 1}
      /\ Len(messages') \in {Len(messages), Len(messages) + 1}
      /\ Len(threads) \in Nat
      /\ Len(threads') \in {Len(threads), Len(threads) + 1}
  BY Lengths, NextInputs, NextSessions, NextMessages, NextThreads
<1>3. CASE exec' = exec
  <2>1. exec.pc \in {"turn", "link", "count"} =>
          /\ Len(messages') = Len(messages) /\ Len(messages) \in 1..Len(messages)
          /\ messages'[Len(messages)].input = messages[Len(messages)].input
          /\ messages'[Len(messages)].session = messages[Len(messages)].session
    <3> SUFFICES ASSUME exec.pc \in {"turn", "link", "count"}
                 PROVE  /\ Len(messages') = Len(messages)
                        /\ Len(messages) \in 1..Len(messages)
                        /\ messages'[Len(messages)].input = messages[Len(messages)].input
                        /\ messages'[Len(messages)].session = messages[Len(messages)].session
      OBVIOUS
    <3>1. ~ AddMessage BY DEF AddMessage
    <3>2. Len(messages) \in 1..Len(messages) BY <1>2 DEF TypeInv, FrameTypes
    <3> QED BY <3>1, <3>2, NextMessages DEF MessagesKept
  <2>2. exec.pc \notin {"idle", "thread"} => /\ exec.input \in 1..Len(inputs')
                                            /\ exec.session \in 1..Len(sessions')
    BY <1>2 DEF TypeInv, FrameTypes
  <2>3. exec.pc \in {"turn", "link", "count"} => Len(messages') > 0
    BY <1>2, <2>1
  <2>5. exec.pc = "link" => Len(turns') > 0 /\ turns'[Len(turns')].message = Len(messages')
    <3> SUFFICES ASSUME exec.pc = "link"
                 PROVE  Len(turns') > 0 /\ turns'[Len(turns')].message = Len(messages')
      OBVIOUS
    <3>1. ~ AddTurn BY DEF AddTurn
    <3>2. Len(turns) \in 1..Len(turns) /\ turns[Len(turns)].message = Len(messages)
      BY Lengths DEF TypeInv, FrameTypes
    <3> QED BY <2>1, <3>1, <3>2, NextTurns DEF TurnsKept
  <2>6. exec.pc = "thread" => /\ exec.message \in 1..Len(messages')
                              /\ exec.thread \in 1..Len(threads')
                              /\ exec.session = 0
    BY <1>2 DEF TypeInv, FrameTypes
  <2>4. /\ exec.pc \in {"turn", "link", "count"} =>
             messages[Len(messages)].input = exec.input
             /\ messages[Len(messages)].session = exec.session
        /\ exec.pc = "idle" => exec = Idle
    BY DEF TypeInv, FrameTypes
  <2> QED BY <1>1, <1>3, <2>1, <2>2, <2>3, <2>4, <2>5, <2>6 DEF FrameTypes
<1>4. CASE exec' = Idle BY <1>1, <1>4 DEF FrameTypes
<1>5. CASE ChatIngester
  <2> DEFINE at == Resume(Ref)
  <2>1. Ref \in 1..Len(inputs) BY <1>5, Firing DEF ChatIngester
  <2>2. inputs[Ref] \in Inputs /\ inputs[Ref].session \in 0..Len(sessions)
    BY <2>1, ElementOfSeq DEF TypeInv, Tables, References
  <2>3. memory \in Caches(Len(sessions), Len(principals), Len(threads)) BY DEF TypeInv
  <2>4. at.session \in 0..Len(sessions) /\ at.number \in Nat
    <3>1. \A s \in 1..Len(sessions) : sessions[s].turns \in Nat
      <4>1. \A s \in 1..Len(sessions) : sessions[s] \in Sessions
        BY ElementOfSeq DEF TypeInv, Tables
      <4> QED BY <4>1 DEF Sessions
    <3>2. /\ memory.session[inputs[Ref].user] \in 0..Len(sessions)
          /\ memory.number[inputs[Ref].user] \in Nat
      BY <2>2, <2>3 DEF Caches, Inputs
    <3> DEFINE given == inputs[Ref].session
               r == inputs[Ref].user
    <3>3. at = IF given # 0 THEN [session |-> given, number |-> sessions[given].turns + 1]
               ELSE IF memory.session[r] # 0
               THEN [session |-> memory.session[r], number |-> memory.number[r] + 1]
               ELSE [session |-> 0, number |-> 1]
      BY DEF Resume
    <3> HIDE DEF at, given, r
    <3>4. CASE given # 0
      <4>1. given \in 1..Len(sessions) BY <1>2, <2>2, <3>4 DEF given
      <4> QED BY <1>2, <3>1, <3>3, <3>4, <4>1
    <3>5. CASE given = 0 /\ memory.session[r] # 0 BY <3>2, <3>3, <3>5 DEF r
    <3>6. CASE given = 0 /\ memory.session[r] = 0 BY <1>2, <3>3, <3>6
    <3> QED BY <3>4, <3>5, <3>6
  <2>5. DecideReply(inputs[Ref].user) \in Gates BY DEF DecideReply, Gates
  <2>6. /\ exec'.pc = "source" /\ exec'.input = Ref /\ exec'.number = at.number
        /\ exec'.session = IF at.session = 0 THEN Len(sessions) + 1 ELSE at.session
        /\ exec' \in Frames
    <3>1. exec' = [pc |-> "source", input |-> Ref,
                   session |-> IF at.session = 0 THEN Len(sessions) + 1 ELSE at.session,
                   number |-> at.number, gate |-> DecideReply(inputs[Ref].user),
                   message |-> 0, thread |-> 0]
      BY <1>5 DEF ChatIngester
    <3>2. (IF at.session = 0 THEN Len(sessions) + 1 ELSE at.session) \in Nat
      BY <1>2, <2>4
    <3> HIDE DEF at
    <3> QED BY <1>2, <2>1, <2>4, <2>5, <3>1, <3>2 DEF Frames
  <2>7. exec'.session \in 1..Len(sessions')
    <3>1. CASE at.session = 0
      <4>1. sessions' = Append(sessions, [user |-> inputs[Ref].user, turns |-> 0])
        BY <1>5, <3>1 DEF ChatIngester
      <4>2. sessions \in Seq(Sessions) BY DEF TypeInv, Tables
      <4>3. Len(sessions') = Len(sessions) + 1 BY <4>1, <4>2
      <4> QED BY <1>2, <2>6, <3>1, <4>3
    <3>2. CASE at.session # 0 BY <1>2, <2>4, <2>6, <3>2
    <3> QED BY <3>1, <3>2
  <2>8. exec'.input \in 1..Len(inputs') BY <1>2, <2>1, <2>6
  <2> QED BY <2>6, <2>7, <2>8 DEF FrameTypes
<1>6. CASE AddSource
  <2>1. /\ exec' \in Frames /\ exec'.pc = "message"
        /\ exec'.input = exec.input /\ exec'.session = exec.session
    <3>1. exec' = [exec EXCEPT !.pc = "message"] BY <1>6 DEF AddSource
    <3> QED BY <1>1, <3>1 DEF Frames
  <2>2. UNCHANGED <<inputs, sessions>> /\ exec.pc = "source"
    BY <1>6 DEF AddSource, objects
  <2> QED BY <2>1, <2>2 DEF TypeInv, FrameTypes
<1>7. CASE AddMessage
  <2>1. /\ exec' \in Frames /\ exec'.pc = "turn"
        /\ exec'.input = exec.input /\ exec'.session = exec.session
    <3>1. exec' = [exec EXCEPT !.pc = "turn"] BY <1>7 DEF AddMessage
    <3> QED BY <1>1, <3>1 DEF Frames
  <2>2. UNCHANGED <<inputs, sessions>> /\ exec.pc = "message" BY <1>7 DEF AddMessage
  <2>3. /\ Len(messages') = Len(messages) + 1
        /\ messages'[Len(messages) + 1].input = exec.input
        /\ messages'[Len(messages) + 1].session = exec.session
    BY <1>7, AddingMessage
  <2> QED BY <1>2, <2>1, <2>2, <2>3 DEF TypeInv, FrameTypes
<1>8. CASE AddTurn
  <2>1. /\ exec' \in Frames /\ exec'.pc = "link"
        /\ exec'.input = exec.input /\ exec'.session = exec.session
    <3>1. exec' = [exec EXCEPT !.pc = "link"] BY <1>8 DEF AddTurn
    <3> QED BY <1>1, <3>1 DEF Frames
  <2>2. UNCHANGED <<inputs, sessions, messages>> /\ exec.pc = "turn" BY <1>8 DEF AddTurn
  <2>3. Len(turns') = Len(turns) + 1 /\ Len(turns) \in Nat
    <3> DEFINE new == [session |-> exec.session, number |-> exec.number,
                       message |-> Len(messages), answer |-> 0, linked |-> FALSE,
                       life |-> life]
    <3>1. turns' = Append(turns, new) BY <1>8 DEF AddTurn
    <3>2. turns \in Seq(Turns) BY DEF TypeInv, Tables
    <3> HIDE DEF new
    <3> QED BY <3>1, <3>2, LenProperties
  <2>4. turns'[Len(turns) + 1].message = Len(messages) BY <2>3, NextTurns
  <2> QED BY <2>1, <2>2, <2>3, <2>4 DEF TypeInv, FrameTypes
<1>9. CASE CountTurn \/ NameThread \/ CrashRestart
  BY <1>4, <1>9 DEF CountTurn, NameThread, CrashRestart
<1>10. CASE LinkTurn
  <2>1. /\ exec' \in Frames /\ exec'.pc = "count"
        /\ exec'.input = exec.input /\ exec'.session = exec.session
    <3>1. exec' = [exec EXCEPT !.pc = "count"] BY <1>10 DEF LinkTurn
    <3> QED BY <1>1, <3>1 DEF Frames
  <2>2. UNCHANGED <<inputs, sessions, messages>> /\ exec.pc = "link" BY <1>10 DEF LinkTurn
  <2> QED BY <2>1, <2>2 DEF TypeInv, FrameTypes
<1>11. CASE ThreadTracker
  <2>1. PICK t \in 1..(Len(threads) + 1) :
          /\ \/ t = Len(threads) + 1 /\ Len(threads') = Len(threads) + 1
             \/ t \in 1..Len(threads) /\ Len(threads') = Len(threads)
          /\ exec' = [Idle EXCEPT !.pc = "thread", !.message = Ref, !.thread = t]
    BY <1>11, Tracking
  <2>2. Ref \in 1..Len(messages) BY <1>11, Tracking
  <2>3. t \in 1..Len(threads') /\ t \in Nat BY <1>2, <2>1
  <2>4. Ref \in 1..Len(messages') /\ Ref \in Nat BY <1>2, <2>2
  <2>5. /\ exec' \in Frames /\ exec'.pc = "thread" /\ exec'.message = Ref
        /\ exec'.thread = t /\ exec'.session = 0
    BY <2>1, <2>3, <2>4 DEF Idle, Frames, Gates
  <2> QED BY <2>3, <2>4, <2>5 DEF FrameTypes
<1> QED BY <1>3, <1>5, <1>6, <1>7, <1>8, <1>9, <1>10, <1>11, Changes

LEMMA NextLife ==
  ASSUME TypeInv, [Next]_vars
  PROVE  /\ granted' \in [Senders -> Roles]
         /\ \/ life' = life
            \/ life' = life + 1 /\ exec' = Idle /\ CrashRestart
<1>1. granted \in [Senders -> Roles] BY DEF TypeInv
<1>2. CASE CrashRestart
  <2>1. /\ granted' = [r \in Senders |-> IF r \in Owners THEN "owner" ELSE granted[r]]
        /\ life' = life + 1 /\ exec' = Idle
    BY <1>2 DEF CrashRestart
  <2>2. granted' \in [Senders -> Roles] BY <1>1, <2>1 DEF Roles
  <2> QED BY <1>2, <2>1, <2>2
<1>3. CASE \E g \in Grants : RegisterPrincipal(g.ref, g.role)
  <2>1. PICK g \in Grants : RegisterPrincipal(g.ref, g.role) BY <1>3
  <2>2. g.role \in Roles BY ConversationAssumption
  <2>3. granted' = [granted EXCEPT ![g.ref] = g.role] /\ life' = life
    BY <2>1 DEF RegisterPrincipal
  <2> QED BY <1>1, <2>2, <2>3
<1>4. CASE granted' = granted /\ life' = life BY <1>1, <1>4
<1> QED BY <1>2, <1>3, <1>4, Changes

LEMMA EdgeTyped == ASSUME TypeInv, [Next]_vars PROVE EdgeTypes'
<1>1. /\ sent \in 0..Len(Updates) /\ confirmed \in Nat \ {0}
      /\ poller \in [offset : Nat, batch : Seq(Ids)] /\ lost \subseteq Ids
      /\ Len(Updates) \in Nat
  BY Lengths DEF TypeInv, EdgeTypes
<1>2. CASE UNCHANGED edge BY <1>2 DEF edge, TypeInv, EdgeTypes
<1>3. CASE UserSends BY <1>1, <1>3 DEF UserSends, EdgeTypes
<1>4. CASE GetUpdates
  <2> DEFINE from == Larger(confirmed, poller.offset)
             n == IF from > sent THEN 0 ELSE sent + 1 - from
             batch == [i \in 1..n |-> from + i - 1]
  <2>1. from \in Nat \ {0} BY <1>1 DEF Larger
  <2>2. /\ UNCHANGED <<sent, lost>> /\ confirmed' = from
        /\ poller' = [poller EXCEPT !.batch = batch]
    BY <1>4 DEF GetUpdates
  <2> HIDE DEF from
  <2>3. n \in Nat /\ \A i \in 1..n : from + i - 1 \in Ids
    <3>1. CASE from > sent BY <3>1
    <3>2. CASE ~ (from > sent)
      <4>1. n \in Nat BY <1>1, <2>1, <3>2
      <4>2. \A i \in 1..n : from + i - 1 \in 1..Len(Updates)
        BY <1>1, <2>1, <3>2
      <4> QED BY <4>1, <4>2 DEF Ids
    <3> QED BY <3>1, <3>2
  <2> HIDE DEF n
  <2>4. batch \in [1..n -> Ids] BY <2>3
  <2> HIDE DEF batch
  <2>5. batch \in Seq(Ids) BY <2>3, <2>4
  <2> QED BY <1>1, <2>1, <2>2, <2>5 DEF EdgeTypes
<1>5. CASE PostToServer \/ PostFails \/ PostTimesOut
  <2> DEFINE u == Head(poller.batch)
  <2>1. poller.batch \in Seq(Ids) /\ poller.batch # <<>>
    BY <1>1, <1>5 DEF PostToServer, PostFails, PostTimesOut
  <2>2. u \in Ids /\ Tail(poller.batch) \in Seq(Ids) /\ <<>> \in Seq(Ids)
    BY <2>1, HeadTailProperties, EmptySeq
  <2>3. u \in Nat BY <2>2, UpdateTypes
  <2>4. Past(u) \in Nat BY <1>1, <2>3 DEF Past, Larger
  <2>5. /\ UNCHANGED <<sent, confirmed>>
        /\ \/ poller' = [offset |-> Past(u), batch |-> Tail(poller.batch)]
           \/ poller' = [offset |-> Past(u), batch |-> <<>>]
        /\ lost' \in {lost, lost \cup {u}}
    BY <1>5 DEF PostToServer, PostFails, PostTimesOut
  <2> HIDE DEF u
  <2>6. lost' \subseteq Ids BY <1>1, <2>2, <2>5
  <2>8. ASSUME NEW b \in Seq(Ids), poller' = [offset |-> Past(u), batch |-> b]
        PROVE  poller' \in [offset : Nat, batch : Seq(Ids)]
    BY <2>4, <2>8
  <2>7. poller' \in [offset : Nat, batch : Seq(Ids)] BY <2>2, <2>5, <2>8
  <2> QED BY <1>1, <2>5, <2>6, <2>7 DEF EdgeTypes
<1>6. CASE PollerRestarts
  <2>1. <<>> \in Seq(Ids) BY EmptySeq
  <2> QED BY <1>1, <1>6, <2>1 DEF PollerRestarts, EdgeTypes
<1>7. CASE TelegramIngester \/ ChatIngester \/ AddSource \/ AddMessage \/ AddTurn \/ LinkTurn
             \/ CountTurn
  BY <1>2, <1>7 DEF TelegramIngester, ChatIngester, AddSource, AddMessage, AddTurn,
                    LinkTurn, CountTurn
<1>8. CASE PrincipalResolver \/ ThreadTracker \/ NameThread \/ ChatContextAssembler
             \/ ChatLlmResponder \/ ChatDeflectionResponder
  BY <1>2, <1>8 DEF PrincipalResolver, ThreadTracker, NameThread, ChatContextAssembler,
                    ChatLlmResponder, ChatDeflectionResponder
<1>9. CASE ResponseDispatcher \/ ChatResponder \/ TelegramDispatcher
  BY <1>2, <1>9 DEF ResponseDispatcher, ChatResponder, TelegramDispatcher
<1>10. CASE \/ CrashRestart \/ UNCHANGED vars
            \/ \E r \in WebUsers, s \in 0..Len(sessions) : SubmitChatInput(r, s)
            \/ \E g \in Grants : RegisterPrincipal(g.ref, g.role)
            \/ \E c \in 1..Len(candidates) : ApproveResponse(c)
  BY <1>2, <1>10 DEF CrashRestart, SubmitChatInput, RegisterPrincipal, ApproveResponse, vars
<1> QED BY <1>3, <1>4, <1>5, <1>6, <1>7, <1>8, <1>9, <1>10 DEF Next, Poll, Drain

LEMMA ReferencesKept == ASSUME TypeInv, [Next]_vars PROVE References'
<1>1. /\ Len(inputs) \in Nat /\ Len(sessions) \in Nat /\ Len(messages) \in Nat
      /\ Len(threads) \in Nat /\ life \in Nat /\ Len(turns) \in Nat
      /\ Len(candidates) \in Nat
      /\ Len(inputs') \in {Len(inputs), Len(inputs) + 1}
      /\ Len(sessions') \in {Len(sessions), Len(sessions) + 1}
      /\ Len(threads') \in {Len(threads), Len(threads) + 1}
      /\ Len(messages') \in {Len(messages), Len(messages) + 1}
      /\ life' \in {life, life + 1}
  BY Lengths, NextInputs, NextSessions, NextThreads, NextMessages, NextLife DEF TypeInv
<1>6. /\ \A x \in Nat : x <= life => x <= life'
      /\ 0..Len(sessions) \subseteq 0..Len(sessions')
      /\ 1..Len(sessions) \subseteq 1..Len(sessions')
      /\ 1..Len(inputs) \subseteq 1..Len(inputs')
      /\ 1..Len(messages) \subseteq 1..Len(messages')
  BY <1>1
<1>2. ASSUME NEW i \in 1..Len(inputs')
      PROVE  inputs'[i].session \in 0..Len(sessions') /\ inputs'[i].life <= life'
  <2>1. CASE i \in 1..Len(inputs)
    <3>1. inputs'[i] = inputs[i] BY <2>1, NextInputs
    <3>2. inputs[i].session \in 0..Len(sessions) /\ inputs[i].life <= life
      BY <2>1 DEF TypeInv, References
    <3>3. inputs[i].life \in Nat
      <4>1. inputs[i] \in Inputs BY <2>1, ElementOfSeq DEF TypeInv, Tables
      <4> QED BY <4>1 DEF Inputs
    <3> QED BY <1>1, <1>6, <3>1, <3>2, <3>3
  <2>2. CASE i \notin 1..Len(inputs)
    <3>1. inputs'[i].life = life /\ inputs'[i].session \in 0..Len(sessions)
      BY <1>2, <2>2, NextInputs
    <3> QED BY <1>1, <1>6, <3>1
  <2> QED BY <2>1, <2>2
<1>3. ASSUME NEW m \in 1..Len(messages')
      PROVE  /\ messages'[m].input \in 1..Len(inputs')
             /\ messages'[m].session \in 1..Len(sessions')
             /\ messages'[m].thread \in 0..Len(threads')
  <2>1. CASE m \in 1..Len(messages)
    <3>1. /\ messages[m].input \in 1..Len(inputs) /\ messages[m].session \in 1..Len(sessions)
          /\ messages[m].thread \in 0..Len(threads)
      BY <2>1 DEF TypeInv, References
    <3>2. messages'[m].input = messages[m].input /\ messages'[m].session = messages[m].session
      BY <2>1, NextMessages DEF MessagesKept
    <3>3. messages'[m].thread \in 0..Len(threads')
      <4>1. CASE messages'[m].thread = messages[m].thread BY <1>1, <1>6, <3>1, <4>1
      <4>2. CASE messages'[m].thread # messages[m].thread
        <5>1. NameThread /\ messages'[m].thread = exec.thread
          BY <2>1, <4>2, NextMessages
        <5>2. exec.thread \in 1..Len(threads) BY <5>1, Naming
        <5> QED BY <1>1, <1>6, <5>1, <5>2
      <4> QED BY <4>1, <4>2
    <3> QED BY <1>1, <1>6, <3>1, <3>2, <3>3
  <2>2. CASE m \notin 1..Len(messages)
    <3>1. AddMessage /\ m = Len(messages) + 1
      BY <1>1, <1>6, <1>3, <2>2, NextMessages
    <3>2. /\ messages'[m].input = exec.input /\ messages'[m].session = exec.session
          /\ messages'[m].thread = 0
      BY <3>1, AddingMessage
    <3>3. exec.input \in 1..Len(inputs) /\ exec.session \in 1..Len(sessions)
      BY <3>1 DEF AddMessage, TypeInv, FrameTypes
    <3> QED BY <1>1, <1>6, <3>2, <3>3
  <2> QED BY <2>1, <2>2
<1>4. ASSUME NEW t \in 1..Len(turns')
      PROVE  turns'[t].session \in 1..Len(sessions') /\ turns'[t].life <= life'
  <2>1. CASE t \in 1..Len(turns)
    <3>1. turns[t].session \in 1..Len(sessions) /\ turns[t].life <= life
      BY <2>1 DEF TypeInv, References
    <3>3. turns[t].life \in Nat
      <4>1. turns[t] \in Turns BY <2>1, ElementOfSeq DEF TypeInv, Tables
      <4> QED BY <4>1 DEF Turns
    <3>2. turns'[t].session = turns[t].session /\ turns'[t].life = turns[t].life
      BY <2>1, NextTurns DEF TurnsKept
    <3> QED BY <1>1, <1>6, <3>1, <3>2, <3>3
  <2>2. CASE t \notin 1..Len(turns)
    <3>1. AddTurn /\ t = Len(turns) + 1 BY <1>1, <1>6, <1>4, <2>2, NextTurns
    <3>2. turns'[t].session = exec.session /\ turns'[t].life = life
      BY <1>1, <1>6, <1>4, <2>2, <3>1, NextTurns
    <3>3. exec.session \in 1..Len(sessions) BY <3>1 DEF AddTurn, TypeInv, FrameTypes
    <3> QED BY <1>1, <1>6, <3>2, <3>3
  <2> QED BY <2>1, <2>2
<1>5. ASSUME NEW c \in 1..Len(candidates')
      PROVE  candidates'[c].message \in 1..Len(messages')
  <2>1. CASE c \in 1..Len(candidates)
    <3>1. candidates[c].message \in 1..Len(messages) BY <2>1 DEF TypeInv, References
    <3>2. candidates'[c].message = candidates[c].message
      BY <2>1, NextCandidates DEF CandidatesKept
    <3> QED BY <1>1, <1>6, <3>1, <3>2
  <2>2. CASE c \notin 1..Len(candidates)
    <3>1. /\ c = Len(candidates) + 1 /\ candidates'[c].message = Ref
          /\ (ChatLlmResponder \/ ChatDeflectionResponder)
      <4>1. /\ c = Len(candidates) + 1 /\ Len(candidates') # Len(candidates)
        <5>1. Len(candidates') \in {Len(candidates), Len(candidates) + 1} BY NextCandidates
        <5> QED BY <1>1, <1>5, <2>2, <5>1
      <4>2. \/ ChatLlmResponder /\ Answers(Ref, FALSE)
            \/ ChatDeflectionResponder /\ Answers(Ref, TRUE)
        BY <4>1, NextCandidates
      <4> QED BY <4>1, <4>2 DEF Answers
    <3>2. Ref \in 1..Len(messages)
      BY <3>1, Firing DEF ChatLlmResponder, ChatDeflectionResponder, MessageBehaviors
    <3> QED BY <1>1, <1>6, <3>1, <3>2
  <2> QED BY <2>1, <2>2
<1> QED BY <1>2, <1>3, <1>4, <1>5 DEF References

LEMMA NextTypes == ASSUME TypeInv, [Next]_vars PROVE TypeInv'
<1>1. Tables' BY NextInputs, NextSessions, NextMessages, NextTurns, NextCandidates,
                 NextThreads, PrincipalsTyped DEF Tables
<1>2. config' \in Configs BY Changes DEF TypeInv
<1>3. life' \in Nat BY NextLife DEF TypeInv
<1> QED BY <1>1, <1>2, <1>3, NextLife, ReferencesKept, EdgeTyped, FrameTyped, CachesTyped,
           NextQueue DEF TypeInv

LEMMA InitTypes == Init => TypeInv
<1> SUFFICES ASSUME Init PROVE TypeInv OBVIOUS
<1>1. /\ inputs = <<>> /\ sessions = <<>> /\ messages = <<>> /\ turns = <<>>
      /\ candidates = <<>> /\ threads = <<>> /\ queue = <<>> /\ exec = Idle
      /\ life = 0 /\ config \in Configs
  BY DEF Init
<1>2. /\ <<>> \in Seq(Inputs) /\ <<>> \in Seq(Sessions) /\ <<>> \in Seq(Messages)
      /\ <<>> \in Seq(Turns) /\ <<>> \in Seq(Candidates) /\ <<>> \in Seq(Threads)
      /\ <<>> \in Seq(Deliveries(Len(inputs), Len(messages), Len(candidates)))
      /\ <<>> \in Seq(Ids) /\ Len(<<>>) = 0
  BY EmptySeq
<1>3. 1..0 = {} OBVIOUS
<1>4. principals \in Seq(Principals) /\ Len(principals) \in Nat
  <2>1. /\ principals \in [1..Cardinality(Owners) -> [ref : Owners, role : {"owner"}]]
    BY DEF Init
  <2>2. Cardinality(Owners) \in Nat BY ConversationAssumption, FS_CardinalityType
  <2>3. [ref : Owners, role : {"owner"}] \subseteq Principals
    BY ConversationAssumption DEF Principals, Roles
  <2>4. principals \in [1..Cardinality(Owners) -> Principals] BY <2>1, <2>3
  <2> DEFINE n == Cardinality(Owners)
  <2> HIDE DEF n
  <2>5. n \in Nat /\ principals \in [1..n -> Principals] BY <2>2, <2>4 DEF n
  <2> QED BY <2>5
<1>5. memory \in Caches(Len(sessions), Len(principals), Len(threads))
  <2>1. memory = Fresh(principals) BY DEF Init
  <2>2. RebuildPrincipalRegistry(principals) \in [Senders -> 0..Len(principals)]
    BY <1>4, Rebuilding
  <2>3. Empty(Senders) \in [Senders -> 0..0] /\ Empty(Senders) \in [Senders -> Nat]
    BY DEF Empty
  <2> QED BY <1>1, <1>2, <2>1, <2>2, <2>3 DEF Fresh, Caches
<1>6. granted \in [Senders -> Roles] BY DEF Init, Roles
<1>7. FrameTypes BY <1>1 DEF FrameTypes, Idle, Frames, Gates
<1>8. EdgeTypes
  <2>1. Len(Updates) \in Nat BY ConversationAssumption, LenProperties
  <2> QED BY <1>2, <2>1 DEF Init, EdgeTypes
<1> QED BY <1>1, <1>2, <1>3, <1>4, <1>5, <1>6, <1>7, <1>8 DEF TypeInv, Tables, References

\* Inputs, sessions, messages, turns, candidates, threads, principals and the caches
\* over them keep their types, whatever is posted late, registered or lost.
THEOREM TypeCorrect == Spec => []TypeOK
<1>1. TypeInv => TypeOK
  BY DEF TypeInv, TypeOK, Tables, EdgeTypes, Inputs, Sessions, Messages, Gates, Turns,
         Candidates, Threads, Principals, Caches
<1>2. TypeInv /\ [Next]_vars => TypeInv' BY NextTypes
<1> QED BY <1>1, <1>2, InitTypes, PTL DEF Spec

LEMMA TypesHold == Spec => []TypeInv
<1>1. TypeInv /\ [Next]_vars => TypeInv' BY NextTypes
<1> QED BY <1>1, InitTypes, PTL DEF Spec

-----------------------------------------------------------------------------
(* Ingestion *)

\* What this process has ingested it has seen.
SeenInv ==
  \A i \in 1..Len(inputs) :
    (inputs[i].update # 0 /\ inputs[i].life = life) => inputs[i].update \in memory.seen
IngestInv == SeenInv /\ UpdatesAreIngestedOnce

LEMMA SeenGrows ==
  ASSUME TypeInv, [Next]_vars
  PROVE  CrashRestart \/ memory.seen \subseteq memory'.seen
<1>1. memory \in Caches(Len(sessions), Len(principals), Len(threads)) BY DEF TypeInv
<1>2. CASE TelegramIngester
  <2>1. memory' = [memory EXCEPT !.seen = @ \cup {Ref}] BY <1>2 DEF TelegramIngester
  <2> QED BY <1>1, <2>1 DEF Caches
<1>3. CASE CountTurn BY <1>3, Counting
<1>4. CASE ThreadTracker
  <2>1. PICK t : memory' = [memory EXCEPT !.thread = @ \cup {t}] \/ memory' = memory
    BY <1>4, Tracking
  <2> QED BY <1>1, <2>1 DEF Caches
<1>5. CASE \E r \in Senders, role \in Roles : Indexes(r, role) BY <1>5, Indexing
<1>6. CASE memory' = memory BY <1>6
<1>7. "external" \in Roles /\ "owner" \in Roles /\ Owners \subseteq Senders
  BY ConversationAssumption DEF Roles
<1> QED BY <1>2, <1>3, <1>4, <1>5, <1>6, <1>7, NextPrincipals

LEMMA NextIngestion == ASSUME TypeInv, IngestInv, [Next]_vars PROVE IngestInv'
<1>1. /\ Len(inputs) \in Nat /\ life \in Nat
      /\ Len(inputs') \in {Len(inputs), Len(inputs) + 1}
      /\ \A i \in 1..Len(inputs) : inputs'[i] = inputs[i] /\ inputs[i].life \in Nat
                                   /\ inputs[i].life <= life
      /\ life' \in {life, life + 1}
  <2>1. \A i \in 1..Len(inputs) : inputs[i] \in Inputs
    BY ElementOfSeq DEF TypeInv, Tables
  <2>2. \A i \in 1..Len(inputs) : inputs[i].life \in Nat BY <2>1 DEF Inputs
  <2>3. \A i \in 1..Len(inputs) : inputs[i].life <= life BY DEF TypeInv, References
  <2> QED BY <2>2, <2>3, Lengths, NextInputs, NextLife DEF TypeInv
<1>2. ASSUME NEW i \in 1..Len(inputs'), inputs'[i].update # 0, i \notin 1..Len(inputs)
      PROVE  /\ i = Len(inputs) + 1 /\ inputs'[i].life = life
             /\ TelegramIngester /\ inputs'[i].update = Ref /\ ~ Seen(Ref)
  BY <1>2, NextInputs
<1>3. SeenInv'
  <2> SUFFICES ASSUME NEW i \in 1..Len(inputs'), inputs'[i].update # 0,
                      inputs'[i].life = life'
               PROVE  inputs'[i].update \in memory'.seen
    BY DEF SeenInv
  <2>1. CASE i \in 1..Len(inputs)
    <3>1. inputs[i].life = life' BY <1>1, <2>1
    <3>2. life' = life
      <4>1. inputs[i].life <= life BY <1>1, <2>1
      <4> QED BY <1>1, <3>1, <4>1
    <3>3. ~ CrashRestart BY <1>1, <3>2 DEF CrashRestart
    <3>4. inputs[i].update \in memory.seen BY <1>1, <2>1, <3>1, <3>2 DEF IngestInv, SeenInv
    <3> QED BY <1>1, <2>1, <3>3, <3>4, SeenGrows
  <2>2. CASE i \notin 1..Len(inputs)
    <3>1. TelegramIngester /\ inputs'[i].update = Ref BY <1>2, <2>2
    <3>2. memory' = [memory EXCEPT !.seen = @ \cup {Ref}] BY <3>1 DEF TelegramIngester
    <3>3. memory \in Caches(Len(sessions), Len(principals), Len(threads)) BY DEF TypeInv
    <3> QED BY <3>1, <3>2, <3>3 DEF Caches
  <2> QED BY <2>1, <2>2
<1>4. UpdatesAreIngestedOnce'
  <2>1. ASSUME NEW i \in 1..Len(inputs), NEW j \in 1..Len(inputs'), j \notin 1..Len(inputs),
               inputs'[i].update # 0, inputs'[i].update = inputs'[j].update,
               inputs'[i].life = inputs'[j].life
        PROVE  FALSE
    <3>1. inputs'[j].life = life /\ inputs'[j].update = Ref /\ ~ Seen(Ref) BY <1>2, <2>1
    <3>2. inputs[i].life = life /\ inputs[i].update = Ref /\ inputs[i].update # 0
      BY <1>1, <2>1, <3>1
    <3> QED BY <3>1, <3>2 DEF IngestInv, SeenInv, Seen
  <2>2. ASSUME NEW i \in 1..Len(inputs'), NEW j \in 1..Len(inputs'),
               inputs'[i].update # 0, inputs'[i].update = inputs'[j].update,
               inputs'[i].life = inputs'[j].life
        PROVE  i = j
    <3>1. CASE i \in 1..Len(inputs) /\ j \in 1..Len(inputs)
      BY <1>1, <2>2, <3>1 DEF IngestInv, UpdatesAreIngestedOnce
    <3>2. CASE i \in 1..Len(inputs) /\ j \notin 1..Len(inputs) BY <2>1, <2>2, <3>2
    <3>3. CASE i \notin 1..Len(inputs) /\ j \in 1..Len(inputs) BY <2>1, <2>2, <3>3
    <3>4. CASE i \notin 1..Len(inputs) /\ j \notin 1..Len(inputs) BY <1>2, <2>2, <3>4
    <3> QED BY <3>1, <3>2, <3>3, <3>4
  <2> QED BY <2>2 DEF UpdatesAreIngestedOnce
<1> QED BY <1>3, <1>4 DEF IngestInv

\* The process ingests an update once: what it ingested it has seen, and what it has
\* seen it drops, however often the poller posts it.
THEOREM UpdatesIngestedOnce == Spec => []UpdatesAreIngestedOnce
<1>1. Init => IngestInv
  <2> SUFFICES ASSUME Init PROVE IngestInv OBVIOUS
  <2>1. Len(inputs) = 0 BY EmptySeq DEF Init
  <2>2. 1..0 = {} OBVIOUS
  <2> QED BY <2>1, <2>2 DEF IngestInv, SeenInv, UpdatesAreIngestedOnce
<1>2. TypeInv /\ IngestInv /\ [Next]_vars => IngestInv' BY NextIngestion
<1>3. IngestInv => UpdatesAreIngestedOnce BY DEF IngestInv
<1> QED BY <1>1, <1>2, <1>3, TypesHold, PTL DEF Spec

-----------------------------------------------------------------------------
(* Replies *)

\* Two deliveries that would do the same work twice.
SameWork(d, e) ==
  /\ d.ref = e.ref
  /\ \/ d.behavior \in Responders /\ e.behavior \in Responders
     \/ d.behavior = e.behavior /\ d.behavior \in {"thread_tracker", "telegram_dispatcher"}
DeliveredOnce ==
  \A j, k \in 1..Len(queue) : SameWork(queue[j], queue[k]) => j = k

\* What is true of a delivery for as long as it is queued: nobody has done its work.
Holds(d) ==
  /\ d.behavior = "thread_tracker" => messages[d.ref].thread = 0
  /\ d.behavior \in Responders =>
       /\ d.behavior = Responder(messages[d.ref].gate)
       /\ \A c \in 1..Len(candidates) : candidates[c].message # d.ref
  /\ d.behavior = "telegram_dispatcher" => candidates[d.ref].calls = 0
DeliveriesHold == \A k \in 1..Len(queue) : Holds(queue[k])

\* The message that is being put in a thread is in none, and no other delivery is to
\* put it in one.
NamingAhead ==
  exec.pc = "thread" =>
    /\ messages[exec.message].thread = 0
    /\ \A k \in 1..Len(queue) :
         ~ (queue[k].behavior = "thread_tracker" /\ queue[k].ref = exec.message)

\* What was approved when it was made is approved.
BornApproved ==
  \A c \in 1..Len(candidates) : candidates[c].born = "approved" => candidates[c].approved

ReplyInv ==
  DeliveredOnce /\ DeliveriesHold /\ NamingAhead /\ BornApproved /\ OneApprovedReply

LEMMA Queued ==
  ASSUME TypeInv, NEW k \in 1..Len(queue)
  PROVE  /\ queue[k].behavior \in MessageBehaviors => queue[k].ref \in 1..Len(messages)
         /\ queue[k].behavior \in CandidateBehaviors => queue[k].ref \in 1..Len(candidates)
<1> DEFINE D == Deliveries(Len(inputs), Len(messages), Len(candidates))
<1>1. queue[k] \in D
  <2>1. queue \in Seq(D) BY DEF TypeInv
  <2> HIDE DEF D
  <2> QED BY <2>1, ElementOfSeq
<1>2. Deliverable(queue[k], Len(inputs), Len(messages), Len(candidates))
  BY <1>1 DEF Deliveries
<1> QED BY <1>2 DEF Deliverable, MessageBehaviors, CandidateBehaviors

\* The work done in a step is the head's, and no delivery left is for the same.
LEMMA WorkTaken ==
  ASSUME TypeInv, DeliveredOnce, NEW shift \in {0, 1}, Takes => shift = 1,
         NEW k \in Nat \ {0}, k + shift \in 1..Len(queue)
  PROVE  LET d == queue[k + shift]
         IN  /\ ThreadTracker => ~ (d.behavior = "thread_tracker" /\ d.ref = Ref)
             /\ (ChatLlmResponder \/ ChatDeflectionResponder) =>
                  ~ (d.behavior \in Responders /\ d.ref = Ref)
             /\ TelegramDispatcher => ~ (d.behavior = "telegram_dispatcher" /\ d.ref = Ref)
<1>1. ASSUME Takes, SameWork(queue[k + shift], queue[1]), 1 \in 1..Len(queue) PROVE FALSE
  <2>1. shift = 1 BY <1>1
  <2>2. k + shift # 1 BY <2>1
  <2> QED BY <1>1, <2>2 DEF DeliveredOnce
<1>2. ThreadTracker => ~ (queue[k + shift].behavior = "thread_tracker" /\ queue[k + shift].ref = Ref)
  BY <1>1, Firing DEF ThreadTracker, Takes, SameWork
<1>3. TelegramDispatcher =>
        ~ (queue[k + shift].behavior = "telegram_dispatcher" /\ queue[k + shift].ref = Ref)
  BY <1>1, Firing DEF TelegramDispatcher, Takes, SameWork
<1>4. (ChatLlmResponder \/ ChatDeflectionResponder) =>
        ~ (queue[k + shift].behavior \in Responders /\ queue[k + shift].ref = Ref)
  <2> SUFFICES ASSUME ChatLlmResponder \/ ChatDeflectionResponder,
                      queue[k + shift].behavior \in Responders, queue[k + shift].ref = Ref
               PROVE  FALSE
    OBVIOUS
  <2>1. /\ 1 \in 1..Len(queue) /\ queue[1].behavior \in Responders /\ queue[1].ref = Ref
    BY Firing DEF ChatLlmResponder, ChatDeflectionResponder, Responders
  <2>2. Takes BY DEF Takes
  <2> QED BY <1>1, <2>1, <2>2 DEF SameWork
<1> QED BY <1>2, <1>3, <1>4

LEMMA NextDeliveredOnce ==
  ASSUME TypeInv, DeliveredOnce, [Next]_vars
  PROVE  DeliveredOnce'
<1>1. PICK shift \in {0, 1}, old \in Nat : \E news :
        /\ News(news) /\ Len(news) \in Nat
        /\ Takes => shift = 1
        /\ \A k \in 1..Len(queue') :
             \/ k <= old /\ k + shift \in 1..Len(queue) /\ queue'[k] = queue[k + shift]
             \/ k > old /\ k - old \in 1..Len(news) /\ queue'[k] = news[k - old]
  BY NextQueue
<1>2. PICK news :
        /\ News(news)
        /\ \A k \in 1..Len(queue') :
             \/ k <= old /\ k + shift \in 1..Len(queue) /\ queue'[k] = queue[k + shift]
             \/ k > old /\ k - old \in 1..Len(news) /\ queue'[k] = news[k - old]
  BY <1>1
<1>3. ASSUME NEW j \in 1..Len(queue), NEW k \in 1..Len(news),
             SameWork(queue[j], news[k]) \/ SameWork(news[k], queue[j])
      PROVE  FALSE
  <2>1. /\ queue[j].ref = news[k].ref
        /\ \/ queue[j].behavior \in Responders /\ news[k].behavior \in Responders
           \/ /\ queue[j].behavior = news[k].behavior
              /\ news[k].behavior \in {"thread_tracker", "telegram_dispatcher"}
    BY <1>3 DEF SameWork
  <2>2. CASE \A l \in 1..Len(news) : news[l].behavior \in FirstHands
    BY <2>1, <2>2 DEF FirstHands, Responders
  <2>3. CASE /\ news[k].ref = Len(messages) + 1 /\ news[k].behavior \in MessageBehaviors
    <3>1. queue[j].behavior \in MessageBehaviors
      BY <2>1, <2>3 DEF MessageBehaviors, Responders
    <3>2. queue[j].ref \in 1..Len(messages) BY <3>1, Queued
    <3> QED BY <2>1, <2>3, <3>2, Lengths
  <2>4. CASE /\ news[k].ref = Len(candidates) + 1 /\ news[k].behavior \in CandidateBehaviors
    <3>1. queue[j].behavior \in CandidateBehaviors
      BY <2>1, <2>4 DEF CandidateBehaviors, Responders
    <3>2. queue[j].ref \in 1..Len(candidates) BY <3>1, Queued
    <3> QED BY <2>1, <2>4, <3>2, Lengths
  <2> QED BY <1>2, <2>2, <2>3, <2>4 DEF News
<1>4. ASSUME NEW j \in 1..Len(news), NEW k \in 1..Len(news), SameWork(news[j], news[k])
      PROVE  j = k
  <2>1. CASE \A l \in 1..Len(news) : news[l].behavior \in FirstHands
    BY <1>4, <2>1 DEF FirstHands, Responders, SameWork
  <2>2. CASE \A l, m \in 1..Len(news) : news[l].behavior = news[m].behavior => l = m
    <3>1. CASE news[j].behavior = news[k].behavior BY <2>2, <3>1
    <3>2. CASE news[j].behavior \in Responders /\ news[k].behavior \in Responders
      <4>1. news[j].behavior = news[k].behavior
        BY <1>2, <3>2 DEF News, FirstHands, CandidateBehaviors, Responders
      <4> QED BY <2>2, <4>1
    <3> QED BY <1>4, <3>1, <3>2 DEF SameWork
  <2> QED BY <1>2, <2>1, <2>2 DEF News
<1>5. ASSUME NEW j \in 1..Len(queue'), NEW k \in 1..Len(queue'),
             SameWork(queue'[j], queue'[k])
      PROVE  j = k
  <2>1. CASE /\ j + shift \in 1..Len(queue) /\ queue'[j] = queue[j + shift]
             /\ k + shift \in 1..Len(queue) /\ queue'[k] = queue[k + shift]
    <3>1. j + shift = k + shift BY <1>5, <2>1 DEF DeliveredOnce
    <3> QED BY <3>1
  <2>2. CASE /\ j - old \in 1..Len(news) /\ queue'[j] = news[j - old]
             /\ k - old \in 1..Len(news) /\ queue'[k] = news[k - old]
    <3>1. j - old = k - old BY <1>4, <1>5, <2>2
    <3> QED BY <3>1
  <2>3. CASE /\ j + shift \in 1..Len(queue) /\ queue'[j] = queue[j + shift]
             /\ k - old \in 1..Len(news) /\ queue'[k] = news[k - old]
    BY <1>3, <1>5, <2>3
  <2>4. CASE /\ j - old \in 1..Len(news) /\ queue'[j] = news[j - old]
             /\ k + shift \in 1..Len(queue) /\ queue'[k] = queue[k + shift]
    BY <1>3, <1>5, <2>4
  <2> QED BY <1>2, <2>1, <2>2, <2>3, <2>4
<1>6. \A j, k \in 1..Len(queue') : SameWork(queue'[j], queue'[k]) => j = k BY <1>5
<1> QED BY <1>6 DEF DeliveredOnce, SameWork

LEMMA NextNamingAhead ==
  ASSUME TypeInv, DeliveredOnce, DeliveriesHold, NamingAhead, [Next]_vars
  PROVE  NamingAhead'
<1> SUFFICES ASSUME exec'.pc = "thread"
             PROVE  /\ messages'[exec'.message].thread = 0
                    /\ \A k \in 1..Len(queue') :
                         ~ (queue'[k].behavior = "thread_tracker"
                              /\ queue'[k].ref = exec'.message)
  BY DEF NamingAhead
<1>1. exec \in Frames BY DEF TypeInv, FrameTypes
<1>2. CASE ThreadTracker
  <2>1. exec'.message = Ref /\ messages' = messages /\ queue' = Tail(queue)
    BY <1>2 DEF ThreadTracker, Idle
  <2>2. /\ 1 \in 1..Len(queue) /\ queue[1].behavior = "thread_tracker"
        /\ queue[1].ref = Ref
    BY <1>2, Firing DEF ThreadTracker
  <2>3. messages[Ref].thread = 0 BY <2>2 DEF DeliveriesHold, Holds
  <2>4. ASSUME NEW k \in 1..Len(queue'), queue'[k].behavior = "thread_tracker",
               queue'[k].ref = Ref
        PROVE  FALSE
    <3>1. queue \in Seq(Deliveries(Len(inputs), Len(messages), Len(candidates)))
          /\ queue # <<>>
      BY <1>2 DEF TypeInv, ThreadTracker, Fires
    <3>2. k + 1 \in 1..Len(queue) /\ queue'[k] = queue[k + 1] /\ k + 1 # 1
      BY <2>1, <2>4, <3>1, Lengths
    <3> QED BY <2>2, <2>4, <3>2 DEF DeliveredOnce, SameWork
  <2> QED BY <2>1, <2>3, <2>4
<1>3. CASE exec' = exec
  <2>1. exec.pc = "thread" /\ exec # Idle BY <1>3 DEF Idle
  <2>2. exec.message \in 1..Len(messages) BY <2>1 DEF TypeInv, FrameTypes
  <2>3. ~ NameThread BY <1>3, <2>1 DEF NameThread
  <2>4. messages'[exec.message].thread = messages[exec.message].thread
    BY <2>2, <2>3, NextMessages
  <2>5. ASSUME NEW k \in 1..Len(queue'), queue'[k].behavior = "thread_tracker",
               queue'[k].ref = exec.message
        PROVE  FALSE
    <3>1. PICK shift \in {0, 1}, old \in Nat : \E news :
            /\ News(news)
            /\ \/ k + shift \in 1..Len(queue) /\ queue'[k] = queue[k + shift]
               \/ k - old \in 1..Len(news) /\ queue'[k] = news[k - old]
      BY NextQueue
    <3>2. ASSUME NEW news, News(news), k - old \in 1..Len(news), queue'[k] = news[k - old]
          PROVE  FALSE
      <4>1. ~ AddMessage BY <2>1 DEF AddMessage
      <4> QED BY <2>5, <3>2, <4>1 DEF News, FirstHands, CandidateBehaviors
    <3>3. k + shift \in 1..Len(queue) /\ queue'[k] = queue[k + shift] BY <3>1, <3>2
    <3> QED BY <2>1, <2>5, <3>3 DEF NamingAhead
  <2> QED BY <1>3, <2>1, <2>4, <2>5 DEF NamingAhead
<1>4. CASE ChatIngester BY <1>4 DEF ChatIngester
<1>5. CASE AddSource \/ AddMessage \/ AddTurn \/ LinkTurn
  <2>1. \E pc \in {"message", "turn", "link", "count"} : exec' = [exec EXCEPT !.pc = pc]
    BY <1>5 DEF AddSource, AddMessage, AddTurn, LinkTurn
  <2> QED BY <1>1, <2>1 DEF Frames
<1>6. CASE CountTurn \/ NameThread \/ CrashRestart
  BY <1>6 DEF CountTurn, NameThread, CrashRestart, Idle
<1> QED BY <1>2, <1>3, <1>4, <1>5, <1>6, Changes

\* Holds(d) in the state after the step.
HoldsNext(d) ==
  /\ d.behavior = "thread_tracker" => messages'[d.ref].thread = 0
  /\ d.behavior \in Responders =>
       /\ d.behavior = Responder(messages'[d.ref].gate)
       /\ \A c \in 1..Len(candidates') : candidates'[c].message # d.ref
  /\ d.behavior = "telegram_dispatcher" => candidates'[d.ref].calls = 0

LEMMA StillHolds ==
  ASSUME TypeInv, DeliveredOnce, DeliveriesHold, NamingAhead, [Next]_vars,
         NEW shift \in {0, 1}, Takes => shift = 1,
         NEW k \in Nat \ {0}, k + shift \in 1..Len(queue)
  PROVE  HoldsNext(queue[k + shift])
<1> DEFINE d == queue[k + shift]
<1>1. /\ d.behavior \in MessageBehaviors => d.ref \in 1..Len(messages)
      /\ d.behavior \in CandidateBehaviors => d.ref \in 1..Len(candidates)
  BY Queued
<1>2. /\ ThreadTracker => ~ (d.behavior = "thread_tracker" /\ d.ref = Ref)
      /\ (ChatLlmResponder \/ ChatDeflectionResponder) =>
           ~ (d.behavior \in Responders /\ d.ref = Ref)
      /\ TelegramDispatcher => ~ (d.behavior = "telegram_dispatcher" /\ d.ref = Ref)
  BY WorkTaken
<1>3. /\ Holds(d)
      /\ NameThread => ~ (d.behavior = "thread_tracker" /\ d.ref = exec.message)
  BY DEF DeliveriesHold, NamingAhead, NameThread
<1> HIDE DEF d
<1>4. ASSUME d.behavior = "thread_tracker" PROVE messages'[d.ref].thread = 0
  <2>1. d.ref \in 1..Len(messages) BY <1>1, <1>4 DEF MessageBehaviors
  <2>2. messages'[d.ref].thread = messages[d.ref].thread BY <1>3, <1>4, <2>1, NextMessages
  <2> QED BY <1>3, <1>4, <2>2 DEF Holds
<1>5. ASSUME d.behavior \in Responders
      PROVE  /\ d.behavior = Responder(messages'[d.ref].gate)
             /\ \A c \in 1..Len(candidates') : candidates'[c].message # d.ref
  <2>1. d.ref \in 1..Len(messages) BY <1>1, <1>5 DEF MessageBehaviors, Responders
  <2>2. messages'[d.ref].gate = messages[d.ref].gate BY <2>1, NextMessages DEF MessagesKept
  <2>3. ASSUME NEW c \in 1..Len(candidates'), candidates'[c].message = d.ref PROVE FALSE
    <3>1. CASE c \in 1..Len(candidates)
      <4>1. candidates'[c].message = candidates[c].message
        BY <3>1, NextCandidates DEF CandidatesKept
      <4> QED BY <1>3, <1>5, <2>3, <3>1, <4>1 DEF Holds
    <3>2. CASE c \notin 1..Len(candidates)
      <4>1. c = Len(candidates) + 1 /\ Len(candidates') # Len(candidates)
        <5>1. Len(candidates') \in {Len(candidates), Len(candidates) + 1} BY NextCandidates
        <5> QED BY <2>3, <3>2, <5>1, Lengths
      <4>2. \/ ChatLlmResponder /\ Answers(Ref, FALSE)
            \/ ChatDeflectionResponder /\ Answers(Ref, TRUE)
        BY <4>1, NextCandidates
      <4>3. candidates'[c].message = Ref BY <4>1, <4>2 DEF Answers
      <4> QED BY <1>2, <1>5, <2>3, <4>2, <4>3
    <3> QED BY <3>1, <3>2
  <2> QED BY <1>3, <1>5, <2>2, <2>3 DEF Holds
<1>6. ASSUME d.behavior = "telegram_dispatcher" PROVE candidates'[d.ref].calls = 0
  <2>1. d.ref \in 1..Len(candidates) BY <1>1, <1>6 DEF CandidateBehaviors
  <2>2. candidates'[d.ref].calls = candidates[d.ref].calls
    BY <1>2, <1>6, <2>1, NextCandidates
  <2> QED BY <1>3, <1>6, <2>2 DEF Holds
<1>7. HoldsNext(d) BY <1>4, <1>5, <1>6 DEF HoldsNext
<1> QED BY <1>7 DEF d

LEMMA NewsHolds ==
  ASSUME TypeInv, [Next]_vars, NEW news, News(news), NEW k \in 1..Len(news)
  PROVE  HoldsNext(news[k])
<1>1. CASE \A j \in 1..Len(news) : news[j].behavior \in FirstHands
  BY <1>1 DEF HoldsNext, FirstHands, Responders
<1>2. CASE /\ AddMessage
           /\ news[k].ref = Len(messages) + 1 /\ news[k].behavior \in MessageBehaviors
           /\ news[k].behavior \in Responders => news[k].behavior = Responder(exec.gate)
  <2>1. /\ messages'[Len(messages) + 1].thread = 0
        /\ messages'[Len(messages) + 1].gate = exec.gate
    BY <1>2, AddingMessage
  <2>2. candidates' = candidates BY <1>2 DEF AddMessage
  <2>3. \A c \in 1..Len(candidates) : candidates[c].message \in 1..Len(messages)
    BY DEF TypeInv, References
  <2>4. \A c \in 1..Len(candidates') : candidates'[c].message # Len(messages) + 1
    BY <2>2, <2>3, Lengths
  <2> QED BY <1>2, <2>1, <2>4 DEF HoldsNext, MessageBehaviors
<1>3. CASE /\ ChatLlmResponder \/ ChatDeflectionResponder
           /\ Len(candidates') = Len(candidates) + 1
           /\ news[k].ref = Len(candidates) + 1 /\ news[k].behavior \in CandidateBehaviors
  <2>1. Len(candidates') # Len(candidates) BY <1>3, Lengths
  <2>2. Answers(Ref, FALSE) \/ Answers(Ref, TRUE) BY <2>1, NextCandidates
  <2>3. candidates'[Len(candidates) + 1].calls = 0 BY <2>2 DEF Answers
  <2> QED BY <1>3, <2>3 DEF HoldsNext, CandidateBehaviors, Responders
<1> QED BY <1>1, <1>2, <1>3 DEF News

LEMMA NextDeliveriesHold ==
  ASSUME TypeInv, DeliveredOnce, DeliveriesHold, NamingAhead, [Next]_vars
  PROVE  DeliveriesHold'
<1>1. PICK shift \in {0, 1}, old \in Nat : \E news :
        /\ News(news) /\ Len(news) \in Nat
        /\ Takes => shift = 1
        /\ \A k \in 1..Len(queue') :
             \/ k <= old /\ k + shift \in 1..Len(queue) /\ queue'[k] = queue[k + shift]
             \/ k > old /\ k - old \in 1..Len(news) /\ queue'[k] = news[k - old]
  BY NextQueue
<1>2. ASSUME NEW k \in 1..Len(queue') PROVE HoldsNext(queue'[k])
  <2>1. Len(queue') \in Nat /\ k \in Nat \ {0}
    <3>1. queue' \in Seq(Deliveries(Len(inputs'), Len(messages'), Len(candidates')))
      BY NextQueue
    <3>2. Len(queue') \in Nat BY <3>1, LenProperties
    <3> QED BY <3>2
  <2> QED BY <1>1, <2>1, StillHolds, NewsHolds
<1> QED BY <1>2 DEF DeliveriesHold, Holds, HoldsNext

\* A reply is made when none is, sent or called for when it was born approved.
LEMMA NextReplies ==
  ASSUME TypeInv, DeliveriesHold, BornApproved, OneApprovedReply, [Next]_vars
  PROVE  BornApproved' /\ OneApprovedReply'
<1>1. /\ \A c \in 1..Len(candidates) : candidates[c] \in Candidates
      /\ \A c \in 1..Len(candidates') : candidates'[c] \in Candidates
      /\ \A c \in 1..Len(candidates') : c \notin 1..Len(candidates) =>
           c = Len(candidates) + 1 /\ Len(candidates') # Len(candidates)
  <2>1. /\ candidates \in Seq(Candidates) /\ candidates' \in Seq(Candidates)
        /\ Len(candidates') \in {Len(candidates), Len(candidates) + 1}
    BY NextCandidates DEF TypeInv, Tables
  <2> QED BY <2>1, Lengths, ElementOfSeq
<1>2. ASSUME NEW c \in 1..Len(candidates'), c \notin 1..Len(candidates)
      PROVE  /\ candidates'[c].message = Ref /\ candidates'[c].calls = 0
             /\ candidates'[c].born = candidates'[c].status
             /\ candidates'[c].approved <=> candidates'[c].born = "approved"
             /\ \A d \in 1..Len(candidates) : candidates[d].message # Ref
  <2>1. c = Len(candidates) + 1 /\ Len(candidates') # Len(candidates) BY <1>1, <1>2
  <2>2. \/ ChatLlmResponder /\ Answers(Ref, FALSE)
        \/ ChatDeflectionResponder /\ Answers(Ref, TRUE)
    BY <2>1, NextCandidates
  <2>3. /\ candidates'[c].message = Ref /\ candidates'[c].calls = 0
        /\ candidates'[c].born = candidates'[c].status
        /\ candidates'[c].approved <=> candidates'[c].born = "approved"
    BY <2>1, <2>2 DEF Answers
  <2>4. /\ 1 \in 1..Len(queue) /\ queue[1].behavior \in Responders /\ queue[1].ref = Ref
    BY <2>2, Firing DEF ChatLlmResponder, ChatDeflectionResponder, Responders
  <2> QED BY <2>3, <2>4 DEF DeliveriesHold, Holds
<1>3. ASSUME NEW c \in 1..Len(candidates'), NEW d \in 1..Len(candidates'),
             candidates'[c].message = candidates'[d].message
      PROVE  c = d
  <2>1. \A e \in 1..Len(candidates) : candidates'[e].message = candidates[e].message
    BY NextCandidates DEF CandidatesKept
  <2>2. CASE c \in 1..Len(candidates) /\ d \in 1..Len(candidates)
    BY <1>3, <2>1, <2>2 DEF OneApprovedReply
  <2>3. CASE c \in 1..Len(candidates) /\ d \notin 1..Len(candidates)
    BY <1>2, <1>3, <2>1, <2>3
  <2>4. CASE c \notin 1..Len(candidates) /\ d \in 1..Len(candidates)
    BY <1>2, <1>3, <2>1, <2>4
  <2>5. CASE c \notin 1..Len(candidates) /\ d \notin 1..Len(candidates) BY <1>1, <2>5
  <2> QED BY <2>2, <2>3, <2>4, <2>5
<1>4. ASSUME NEW c \in 1..Len(candidates')
      PROVE  /\ candidates'[c].born = "approved" => candidates'[c].approved
             /\ candidates'[c].calls <= 1
             /\ candidates'[c].status = "sent" \/ candidates'[c].calls > 0
                  => candidates'[c].approved
  <2>1. CASE c \in 1..Len(candidates)
    <3>1. /\ candidates[c].calls <= 1
          /\ (candidates[c].status = "sent" \/ candidates[c].calls > 0)
               => candidates[c].approved
          /\ candidates[c].born = "approved" => candidates[c].approved
      BY <2>1 DEF OneApprovedReply, BornApproved
    <3>2. /\ candidates'[c].born = candidates[c].born
          /\ candidates[c].approved => candidates'[c].approved
      BY <2>1, NextCandidates DEF CandidatesKept
    <3>3. candidates'[c].calls <= 1
      <4>1. CASE candidates'[c].calls = candidates[c].calls BY <3>1, <4>1
      <4>2. CASE candidates'[c].calls # candidates[c].calls
        <5>1. /\ TelegramDispatcher /\ c = Ref
              /\ candidates'[c].calls = candidates[c].calls + 1
          BY <2>1, <4>2, NextCandidates
        <5>2. /\ 1 \in 1..Len(queue) /\ queue[1].behavior = "telegram_dispatcher"
              /\ queue[1].ref = c
          BY <5>1, Firing DEF TelegramDispatcher
        <5>3. candidates[c].calls = 0 BY <5>2 DEF DeliveriesHold, Holds
        <5> QED BY <5>1, <5>3
      <4> QED BY <4>1, <4>2
    <3>4. ASSUME candidates'[c].status = "sent" \/ candidates'[c].calls > 0
          PROVE  candidates[c].approved
      BY <2>1, <3>1, <3>4, NextCandidates
    <3> QED BY <3>1, <3>2, <3>3, <3>4
  <2>2. CASE c \notin 1..Len(candidates)
    <3>1. /\ candidates'[c].calls = 0 /\ candidates'[c].born = candidates'[c].status
          /\ candidates'[c].approved <=> candidates'[c].born = "approved"
      BY <1>2, <2>2
    <3>2. candidates'[c].born \in {"proposed", "approved"} BY <1>1 DEF Candidates
    <3> QED BY <3>1, <3>2
  <2> QED BY <2>1, <2>2
<1> QED BY <1>3, <1>4 DEF OneApprovedReply, BornApproved

LEMMA RepliesHold == Spec => []ReplyInv
<1>1. Init => ReplyInv
  <2> SUFFICES ASSUME Init PROVE ReplyInv OBVIOUS
  <2>1. Len(queue) = 0 /\ Len(candidates) = 0 BY EmptySeq DEF Init
  <2>2. 1..0 = {} OBVIOUS
  <2>3. exec.pc # "thread" BY DEF Init, Idle
  <2> QED BY <2>1, <2>2, <2>3
          DEF ReplyInv, DeliveredOnce, DeliveriesHold, NamingAhead, BornApproved,
              OneApprovedReply
<1>2. TypeInv /\ ReplyInv /\ [Next]_vars => ReplyInv'
  BY NextDeliveredOnce, NextDeliveriesHold, NextNamingAhead, NextReplies DEF ReplyInv
<1> QED BY <1>1, <1>2, TypesHold, PTL DEF Spec

\* One of the two responders hears of a message, and the dispatchers take up what was
\* approved when it was made: a message gets one reply, called for at most once and
\* never before it was approved.
THEOREM OneReply == Spec => []OneApprovedReply
<1>1. ReplyInv => OneApprovedReply BY DEF ReplyInv
<1> QED BY <1>1, RepliesHold, PTL

-----------------------------------------------------------------------------
(* The registry of principals and the gate *)

\* The registry finds every principal, with the role last registered; whoever it does
\* not find has registered none, so that the automatic role is the right one.
RegistryInv ==
  /\ \A r \in Senders : memory.index[r] # 0 =>
       /\ principals[memory.index[r]].ref = r
       /\ principals[memory.index[r]].role = granted[r]
  /\ \A r \in Senders : memory.index[r] = 0 => r \notin Owners /\ granted[r] = "external"
  /\ \A p \in 1..Len(principals) : memory.index[principals[p].ref] = p

LEMMA IndexTypes ==
  ASSUME TypeInv
  PROVE  /\ principals \in Seq(Principals) /\ Len(principals) \in Nat
         /\ \A r \in Senders : memory.index[r] \in 0..Len(principals)
         /\ \A p \in 1..Len(principals) : principals[p].ref \in Senders
<1>1. principals \in Seq(Principals) /\ Len(principals) \in Nat
  BY Lengths DEF TypeInv, Tables
<1>2. \A p \in 1..Len(principals) : principals[p] \in Principals BY <1>1, ElementOfSeq
<1>3. memory \in Caches(Len(sessions), Len(principals), Len(threads)) BY DEF TypeInv
<1>4. \A r \in Senders : memory.index[r] \in 0..Len(principals) BY <1>3 DEF Caches
<1> QED BY <1>1, <1>2, <1>4 DEF Principals

LEMMA RegistryIndexes ==
  ASSUME TypeInv, RegistryInv, NEW r \in Senders, NEW role \in Roles, Indexes(r, role),
         \A q \in Senders : granted'[q] = IF q = r THEN role ELSE granted[q]
  PROVE  RegistryInv'
<1> DEFINE n == Len(principals)
<1>1. /\ Len(principals') = n + 1
      /\ \A p \in 1..n : principals'[p] = principals[p]
      /\ principals'[n + 1].ref = r /\ principals'[n + 1].role = role
      /\ \A q \in Senders : memory'.index[q] = IF q = r THEN n + 1 ELSE memory.index[q]
  <2>1. principals'[n + 1] = [ref |-> r, role |-> role] BY Indexing
  <2>2. principals'[n + 1].ref = r /\ principals'[n + 1].role = role BY <2>1
  <2> QED BY <2>2, Indexing
<1>2. memory.index[r] = 0 BY DEF Indexes
<1>3. /\ n \in Nat /\ \A q \in Senders : memory.index[q] \in 0..n
      /\ \A p \in 1..n : principals[p].ref \in Senders
  BY IndexTypes
<1>4. ASSUME NEW q \in Senders, memory'.index[q] # 0
      PROVE  /\ principals'[memory'.index[q]].ref = q
             /\ principals'[memory'.index[q]].role = granted'[q]
  <2>1. CASE q = r BY <1>1, <2>1
  <2>2. CASE q # r
    <3>1. memory'.index[q] = memory.index[q] /\ memory.index[q] \in 1..n
      BY <1>1, <1>3, <1>4, <2>2
    <3> QED BY <1>1, <2>2, <3>1 DEF RegistryInv
  <2> QED BY <2>1, <2>2
<1>5. ASSUME NEW q \in Senders, memory'.index[q] = 0
      PROVE  q \notin Owners /\ granted'[q] = "external"
  <2>1. q # r BY <1>1, <1>3, <1>5
  <2> QED BY <1>1, <1>5, <2>1 DEF RegistryInv
<1>6. ASSUME NEW p \in 1..Len(principals') PROVE memory'.index[principals'[p].ref] = p
  <2>1. CASE p \in 1..n
    <3>1. principals'[p] = principals[p] /\ memory.index[principals[p].ref] = p
      BY <1>1, <2>1 DEF RegistryInv
    <3>2. principals[p].ref # r BY <1>2, <2>1, <3>1
    <3> QED BY <1>1, <1>3, <2>1, <3>1, <3>2
  <2>2. CASE p = n + 1 BY <1>1, <2>2
  <2> QED BY <1>1, <1>3, <2>1, <2>2
<1> QED BY <1>4, <1>5, <1>6 DEF RegistryInv

LEMMA RegistryPatches ==
  ASSUME TypeInv, RegistryInv, NEW r \in Senders, NEW role \in Roles,
         memory.index[r] # 0, UNCHANGED memory,
         principals' = [principals EXCEPT ![memory.index[r]].role = role],
         \A q \in Senders : granted'[q] = IF q = r THEN role ELSE granted[q]
  PROVE  RegistryInv'
<1> DEFINE k == memory.index[r]
           new == [principals[k] EXCEPT !.role = role]
<1>1. principals \in Seq(Principals) /\ k \in 1..Len(principals) BY IndexTypes
<1>2. principals[k] \in Principals BY <1>1, ElementOfSeq
<1>3. new \in Principals /\ new.ref = principals[k].ref /\ new.role = role
  BY <1>2 DEF Principals
<1>4. principals' = [principals EXCEPT ![k] = new] OBVIOUS
<1> HIDE DEF k, new
<1>5. /\ Len(principals') = Len(principals)
      /\ \A p \in 1..Len(principals) :
           principals'[p] = IF p = k THEN new ELSE principals[p]
  BY <1>1, <1>3, <1>4, ExceptSeq
<1>6. principals[k].ref = r BY <1>1 DEF RegistryInv, k
<1>7. ASSUME NEW q \in Senders, memory.index[q] # 0
      PROVE  /\ principals'[memory.index[q]].ref = q
             /\ principals'[memory.index[q]].role = granted'[q]
  <2>1. memory.index[q] \in 1..Len(principals) BY <1>7, IndexTypes
  <2>2. principals[memory.index[q]].ref = q /\ principals[memory.index[q]].role = granted[q]
    BY <1>7 DEF RegistryInv
  <2>3. CASE q = r BY <1>3, <1>5, <1>6, <2>1, <2>3 DEF k
  <2>4. CASE q # r
    <3>1. memory.index[q] # k BY <1>6, <2>2, <2>4
    <3> QED BY <1>5, <2>1, <2>2, <2>4, <3>1
  <2> QED BY <2>3, <2>4
<1>8. \A q \in Senders : memory.index[q] = 0 => q \notin Owners /\ granted'[q] = "external"
  BY <1>1 DEF RegistryInv, k
<1>9. \A p \in 1..Len(principals') : memory.index[principals'[p].ref] = p
  BY <1>3, <1>5 DEF RegistryInv
<1> QED BY <1>7, <1>8, <1>9 DEF RegistryInv

\* A restart finds the principals it had.
LEMMA RegistryRestarts == ASSUME TypeInv, RegistryInv, CrashRestart PROVE RegistryInv'
<1> DEFINE n == Len(principals)
<1>1. /\ Len(principals') = n
      /\ \A p \in 1..n :
           /\ principals'[p].ref = principals[p].ref
           /\ principals'[p].role = IF \E r \in Owners : memory'.index[r] = p
                                    THEN "owner" ELSE principals[p].role
      /\ memory' = Fresh(principals)
  BY Restarting
<1>2. granted' = [r \in Senders |-> IF r \in Owners THEN "owner" ELSE granted[r]]
  BY DEF CrashRestart
<1>3. /\ principals \in Seq(Principals) /\ n \in Nat
      /\ \A q \in Senders : memory.index[q] \in 0..n
      /\ \A p \in 1..n : principals[p].ref \in Senders
  BY IndexTypes
<1>4. memory'.index = RebuildPrincipalRegistry(principals) BY <1>1 DEF Fresh
<1>5. ASSUME NEW r \in Senders PROVE memory'.index[r] = memory.index[r]
  <2>1. IF \E q \in 1..n : principals[q].ref = r
        THEN memory'.index[r] \in 1..n /\ principals[memory'.index[r]].ref = r
        ELSE memory'.index[r] = 0
    BY <1>3, <1>4, Rebuilding
  <2>2. CASE \E q \in 1..n : principals[q].ref = r BY <2>1, <2>2 DEF RegistryInv
  <2>3. CASE ~ \E q \in 1..n : principals[q].ref = r
    <3>1. memory.index[r] = 0
      <4> SUFFICES ASSUME memory.index[r] # 0 PROVE FALSE OBVIOUS
      <4>1. memory.index[r] \in 1..n BY <1>3
      <4>2. principals[memory.index[r]].ref = r BY DEF RegistryInv
      <4> QED BY <2>3, <4>1, <4>2
    <3> QED BY <2>1, <2>3, <3>1
  <2> QED BY <2>2, <2>3
<1>6. ASSUME NEW r \in Senders, memory'.index[r] # 0
      PROVE  /\ principals'[memory'.index[r]].ref = r
             /\ principals'[memory'.index[r]].role = granted'[r]
  <2> DEFINE p == memory.index[r]
  <2>1. p \in 1..n /\ principals[p].ref = r /\ principals[p].role = granted[r]
    BY <1>3, <1>5, <1>6 DEF RegistryInv
  <2>2. memory'.index[r] = p BY <1>5
  <2>3. CASE r \in Owners BY <1>1, <1>2, <2>1, <2>2, <2>3
  <2>4. CASE r \notin Owners
    <3>1. ASSUME NEW q \in Owners, memory'.index[q] = p PROVE FALSE
      <4>1. q \in Senders BY ConversationAssumption
      <4>2. memory.index[q] = p BY <1>5, <3>1, <4>1
      <4>3. principals[p].ref = q BY <2>1, <4>1, <4>2 DEF RegistryInv
      <4> QED BY <2>1, <2>4, <4>3
    <3>2. principals'[p].role = principals[p].role BY <1>1, <2>1, <3>1
    <3> QED BY <1>1, <1>2, <2>1, <2>2, <2>4, <3>2
  <2> QED BY <2>3, <2>4
<1>7. ASSUME NEW r \in Senders, memory'.index[r] = 0
      PROVE  r \notin Owners /\ granted'[r] = "external"
  BY <1>2, <1>5, <1>7 DEF RegistryInv
<1>8. ASSUME NEW p \in 1..Len(principals') PROVE memory'.index[principals'[p].ref] = p
  BY <1>1, <1>3, <1>5 DEF RegistryInv
<1> QED BY <1>6, <1>7, <1>8 DEF RegistryInv

LEMMA NextRegistry == ASSUME TypeInv, RegistryInv, [Next]_vars PROVE RegistryInv'
<1>1. granted \in [Senders -> Roles] /\ "external" \in Roles /\ Owners \subseteq Senders
  BY ConversationAssumption DEF TypeInv, Roles
<1>2. CASE \E r \in Senders, role \in Roles :
             /\ granted' = [granted EXCEPT ![r] = role]
             /\ \/ Indexes(r, role)
                \/ /\ memory.index[r] # 0 /\ UNCHANGED memory
                   /\ principals' = [principals EXCEPT ![memory.index[r]].role = role]
  <2>1. PICK r \in Senders, role \in Roles :
             /\ granted' = [granted EXCEPT ![r] = role]
             /\ \/ Indexes(r, role)
                \/ /\ memory.index[r] # 0 /\ UNCHANGED memory
                   /\ principals' = [principals EXCEPT ![memory.index[r]].role = role]
    BY <1>2
  <2>2. \A q \in Senders : granted'[q] = IF q = r THEN role ELSE granted[q] BY <1>1, <2>1
  <2>3. CASE Indexes(r, role) BY <2>2, <2>3, RegistryIndexes
  <2>4. CASE /\ memory.index[r] # 0 /\ UNCHANGED memory
             /\ principals' = [principals EXCEPT ![memory.index[r]].role = role]
    BY <2>2, <2>4, RegistryPatches
  <2> QED BY <2>1, <2>3, <2>4
<1>3. CASE \E g \in Grants : RegisterPrincipal(g.ref, g.role)
  <2>1. PICK g \in Grants : RegisterPrincipal(g.ref, g.role) BY <1>3
  <2>2. g.ref \in Senders /\ g.role \in Roles BY ConversationAssumption
  <2> QED BY <1>2, <2>1, <2>2 DEF RegisterPrincipal, Indexes
<1>4. CASE CrashRestart BY <1>4, RegistryRestarts
<1>5. CASE /\ granted' = granted /\ principals' = principals
           /\ memory'.index = memory.index
  BY <1>5 DEF RegistryInv
<1>6. CASE granted' = granted /\ \E r \in Senders \ Owners : Indexes(r, "external")
  <2>1. PICK r \in Senders \ Owners : Indexes(r, "external") BY <1>6
  <2>2. granted[r] = "external" BY <2>1 DEF RegistryInv, Indexes
  <2>3. \A q \in Senders : granted'[q] = IF q = r THEN "external" ELSE granted[q]
    BY <1>6, <2>2
  <2> QED BY <1>1, <2>1, <2>3, RegistryIndexes
<1>7. ASSUME NEW r \in Owners, Indexes(r, "owner") PROVE FALSE
  BY <1>1, <1>7 DEF RegistryInv, Indexes
<1>8. \/ granted' = granted \/ CrashRestart
      \/ \E g \in Grants : RegisterPrincipal(g.ref, g.role)
  BY Changes
<1> QED BY <1>2, <1>3, <1>4, <1>5, <1>6, <1>7, <1>8, NextPrincipals

LEMMA InitRegistry == ASSUME Init, TypeInv PROVE RegistryInv
<1> DEFINE n == Cardinality(Owners)
<1>1. PICK order \in [1..n -> Owners] :
        /\ \A i, j \in DOMAIN order : order[i] = order[j] => i = j
        /\ principals = [i \in DOMAIN order |-> [ref |-> order[i], role |-> "owner"]]
  BY DEF Init, Seeds
<1>2. n \in Nat /\ IsFiniteSet(Owners) BY ConversationAssumption, FS_CardinalityType
<1>3. \A r \in Owners : \E i \in 1..n : order[i] = r
  <2>1. IsFiniteSet(1..n) /\ Cardinality(1..n) = n BY <1>2, FS_Interval
  <2>2. order \in Injection(1..n, Owners) BY <1>1 DEF Injection, IsInjective
  <2>3. order \in Surjection(1..n, Owners)
    <3> HIDE <1>1
    <3> QED BY <1>2, <2>1, <2>2, FS_Injection
  <2> QED BY <2>3 DEF Surjection
<1>4. DOMAIN order = 1..n BY <1>1
<1>5. \A i \in 1..n : principals[i].ref = order[i] /\ principals[i].role = "owner"
  BY <1>1, <1>4
<1>6. Len(principals) = n /\ principals \in Seq(Principals)
  <2>1. principals \in Seq(Principals) BY IndexTypes
  <2>2. DOMAIN principals = 1..n BY <1>1, <1>4
  <2>3. DOMAIN principals = 1..Len(principals) /\ Len(principals) \in Nat
    BY <2>1, LenProperties
  <2> HIDE DEF n
  <2> QED BY <1>2, <2>1, <2>2, <2>3
<1>7. memory.index = RebuildPrincipalRegistry(principals) BY DEF Init, Fresh
<1> HIDE DEF n
<1>8. \A r \in Senders :
        IF \E q \in 1..n : order[q] = r
        THEN memory.index[r] \in 1..n /\ order[memory.index[r]] = r
        ELSE memory.index[r] = 0
  <2> SUFFICES ASSUME NEW r \in Senders
               PROVE  IF \E q \in 1..n : order[q] = r
                      THEN memory.index[r] \in 1..n /\ order[memory.index[r]] = r
                      ELSE memory.index[r] = 0
    OBVIOUS
  <2>1. IF \E q \in 1..n : principals[q].ref = r
        THEN memory.index[r] \in 1..n /\ principals[memory.index[r]].ref = r
        ELSE memory.index[r] = 0
    BY <1>6, <1>7, Rebuilding
  <2> QED BY <1>5, <2>1
<1>9. \A r \in Senders : granted[r] = IF r \in Owners THEN "owner" ELSE "external"
  BY DEF Init
<1>10. ASSUME NEW r \in Senders, memory.index[r] # 0
       PROVE  /\ principals[memory.index[r]].ref = r
              /\ principals[memory.index[r]].role = granted[r]
  <2>1. memory.index[r] \in 1..n /\ order[memory.index[r]] = r BY <1>8, <1>10
  <2>2. r \in Owners BY <1>1, <2>1
  <2> QED BY <1>5, <1>9, <2>1, <2>2
<1>11. ASSUME NEW r \in Senders, memory.index[r] = 0
       PROVE  r \notin Owners /\ granted[r] = "external"
  <2>1. ~ \E q \in 1..n : order[q] = r BY <1>2, <1>8, <1>11
  <2>2. r \notin Owners BY <1>3, <2>1
  <2> QED BY <1>9, <2>2
<1>12. ASSUME NEW p \in 1..n PROVE memory.index[principals[p].ref] = p
  <2>1. principals[p].ref = order[p] /\ order[p] \in Senders
    BY <1>1, <1>5, ConversationAssumption
  <2>2. memory.index[order[p]] \in 1..n /\ order[memory.index[order[p]]] = order[p]
    BY <1>8, <2>1
  <2> QED BY <1>1, <1>4, <2>1, <2>2
<1> QED BY <1>6, <1>10, <1>11, <1>12 DEF RegistryInv

Entitled(r) == granted[r] \in Served(config.policy)

\* The gate of the frame and of the messages is what their sender was entitled to.
GateInv ==
  /\ exec.pc \in {"source", "message"} =>
       (exec.gate = "open" <=> Entitled(inputs[exec.input].user))
  /\ \A m \in 1..Len(messages) : messages[m].gate = "open" <=> messages[m].entitled

AuthorityInv == RegistryInv /\ GateInv /\ RepliesFollowTheGate

\* decide_reply, from the registry, grants what the roles registered entitle to.
LEMMA DecidingReply ==
  ASSUME TypeInv, RegistryInv, NEW r \in Senders
  PROVE  DecideReply(r) = "open" <=> Entitled(r)
<1>1. config.policy \in Policies BY ConversationAssumption DEF TypeInv
<1>2. CASE memory.index[r] = 0
  <2>1. KnownRole(r) = "none" /\ granted[r] = "external"
    BY <1>2 DEF KnownRole, RegistryInv
  <2>2. "none" \in Served(config.policy) <=> "external" \in Served(config.policy)
    BY <1>1 DEF Served, Policies, Roles
  <2> QED BY <2>1, <2>2 DEF DecideReply, Entitled
<1>3. CASE memory.index[r] # 0
  <2>1. KnownRole(r) = granted[r] BY <1>3 DEF KnownRole, RegistryInv
  <2> QED BY <2>1 DEF DecideReply, Entitled
<1> QED BY <1>2, <1>3

LEMMA NextGate ==
  ASSUME TypeInv, RegistryInv, GateInv, [Next]_vars
  PROVE  GateInv'
<1>1. config' = config BY Changes
<1>2. ASSUME exec'.pc \in {"source", "message"}
      PROVE  exec'.gate = "open" <=>
               granted'[inputs'[exec'.input].user] \in Served(config.policy)
  <2>1. exec \in Frames BY DEF TypeInv, FrameTypes
  <2>2. CASE exec' = exec \/ AddSource
    <3>1. exec.pc \in {"source", "message"} /\ exec'.gate = exec.gate
          /\ exec'.input = exec.input
      <4>1. CASE exec' = exec BY <1>2, <4>1
      <4>2. CASE AddSource
        <5>1. exec' = [exec EXCEPT !.pc = "message"] /\ exec.pc = "source"
          BY <4>2 DEF AddSource
        <5> QED BY <2>1, <5>1 DEF Frames
      <4> QED BY <2>2, <4>1, <4>2
    <3>2. ~ CrashRestart /\ exec # Idle
      <4>1. exec' # Idle /\ exec # Idle BY <1>2, <3>1 DEF Idle
      <4> QED BY <4>1 DEF CrashRestart
    <3>3. granted' = granted
      <4>1. ASSUME NEW g \in Grants, RegisterPrincipal(g.ref, g.role) PROVE FALSE
        BY <3>2, <4>1 DEF RegisterPrincipal, Quiet
      <4> QED BY <3>2, <4>1, Changes
    <3>4. exec.input \in 1..Len(inputs) BY <3>1 DEF TypeInv, FrameTypes
    <3>5. inputs'[exec.input] = inputs[exec.input] BY <3>4, NextInputs
    <3>6. exec.gate = "open" <=> granted[inputs[exec.input].user] \in Served(config.policy)
      BY <3>1 DEF GateInv, Entitled
    <3> QED BY <3>1, <3>3, <3>5, <3>6
  <2>3. CASE ChatIngester
    <3>1. Ref \in 1..Len(inputs) BY <2>3, Firing DEF ChatIngester
    <3>2. inputs[Ref] \in Inputs BY <3>1, ElementOfSeq DEF TypeInv, Tables
    <3>3. inputs[Ref].user \in Senders BY <3>2 DEF Inputs
    <3>4. /\ exec'.input = Ref /\ exec'.gate = DecideReply(inputs[Ref].user)
          /\ UNCHANGED <<inputs, granted>>
      BY <2>3 DEF ChatIngester
    <3>5. DecideReply(inputs[Ref].user) = "open" <=>
            granted[inputs[Ref].user] \in Served(config.policy)
      BY <3>3, DecidingReply DEF Entitled
    <3> QED BY <3>4, <3>5
  <2>4. CASE AddMessage \/ AddTurn \/ LinkTurn
    <3>1. \E pc \in {"turn", "link", "count"} : exec' = [exec EXCEPT !.pc = pc]
      BY <2>4 DEF AddMessage, AddTurn, LinkTurn
    <3>2. exec'.pc \in {"turn", "link", "count"} BY <2>1, <3>1 DEF Frames
    <3> QED BY <1>2, <3>2
  <2>5. CASE CountTurn \/ NameThread \/ CrashRestart
    BY <1>2, <2>5 DEF CountTurn, NameThread, CrashRestart, Idle
  <2>6. CASE ThreadTracker
    <3>1. PICK t : exec' = [Idle EXCEPT !.pc = "thread", !.message = Ref, !.thread = t]
      BY <2>6, Tracking
    <3> QED BY <1>2, <3>1 DEF Idle
  <2> QED BY <2>2, <2>3, <2>4, <2>5, <2>6, Changes
<1>3. ASSUME NEW m \in 1..Len(messages')
      PROVE  messages'[m].gate = "open" <=> messages'[m].entitled
  <2>1. CASE m \in 1..Len(messages)
    <3>1. /\ messages'[m].gate = messages[m].gate
          /\ messages'[m].entitled = messages[m].entitled
      BY <2>1, NextMessages DEF MessagesKept
    <3> QED BY <2>1, <3>1 DEF GateInv
  <2>2. CASE m \notin 1..Len(messages)
    <3>1. AddMessage /\ m = Len(messages) + 1
      <4>1. Len(messages') \in {Len(messages), Len(messages) + 1} BY NextMessages
      <4>2. m = Len(messages) + 1 /\ Len(messages') # Len(messages)
        BY <2>2, <4>1, Lengths
      <4> QED BY <4>2, NextMessages
    <3>2. /\ messages'[m].gate = exec.gate
          /\ messages'[m].entitled <=> Entitled(inputs[exec.input].user)
      BY <3>1, AddingMessage DEF Entitled
    <3>3. exec.pc = "message" BY <3>1 DEF AddMessage
    <3> QED BY <3>2, <3>3 DEF GateInv
  <2> QED BY <2>1, <2>2
<1>4. exec'.pc \in {"source", "message"} =>
        (exec'.gate = "open" <=>
           granted'[inputs'[exec'.input].user] \in Served(config'.policy))
  BY <1>1, <1>2
<1> QED BY <1>3, <1>4 DEF GateInv, Entitled

LEMMA NextFollowTheGate ==
  ASSUME TypeInv, DeliveriesHold, GateInv, RepliesFollowTheGate, [Next]_vars
  PROVE  RepliesFollowTheGate'
<1> SUFFICES ASSUME NEW c \in 1..Len(candidates')
             PROVE  candidates'[c].gated <=> ~messages'[candidates'[c].message].entitled
  BY DEF RepliesFollowTheGate
<1>1. CASE c \in 1..Len(candidates)
  <2>1. /\ candidates'[c].gated = candidates[c].gated
        /\ candidates'[c].message = candidates[c].message
    BY <1>1, NextCandidates DEF CandidatesKept
  <2>2. candidates[c].message \in 1..Len(messages) BY <1>1 DEF TypeInv, References
  <2>3. messages'[candidates[c].message].entitled = messages[candidates[c].message].entitled
    BY <2>2, NextMessages DEF MessagesKept
  <2>4. candidates[c].gated <=> ~messages[candidates[c].message].entitled
    BY <1>1 DEF RepliesFollowTheGate
  <2> QED BY <2>1, <2>3, <2>4
<1>2. CASE c \notin 1..Len(candidates)
  <2>1. c = Len(candidates) + 1 /\ Len(candidates') # Len(candidates)
    <3>1. Len(candidates') \in {Len(candidates), Len(candidates) + 1} BY NextCandidates
    <3> QED BY <1>2, <3>1, Lengths
  <2>2. \/ ChatLlmResponder /\ Answers(Ref, FALSE)
        \/ ChatDeflectionResponder /\ Answers(Ref, TRUE)
    BY <2>1, NextCandidates
  <2>3. Ref \in 1..Len(messages)
    BY <2>2, Firing DEF ChatLlmResponder, ChatDeflectionResponder, MessageBehaviors
  <2>4. messages'[Ref].entitled = messages[Ref].entitled
    BY <2>3, NextMessages DEF MessagesKept
  <2>5. messages[Ref].gate = "open" <=> messages[Ref].entitled BY <2>3 DEF GateInv
  <2>6. /\ 1 \in 1..Len(queue) /\ queue[1].ref = Ref
        /\ ChatLlmResponder => queue[1].behavior = "chat_llm_responder"
        /\ ChatDeflectionResponder => queue[1].behavior = "chat_deflection_responder"
    BY <2>2, Firing DEF ChatLlmResponder, ChatDeflectionResponder
  <2>7. queue[1].behavior \in Responders => queue[1].behavior = Responder(messages[Ref].gate)
    BY <2>6 DEF DeliveriesHold, Holds
  <2>8. CASE ChatLlmResponder /\ Answers(Ref, FALSE)
    <3>1. messages[Ref].gate = "open" BY <2>6, <2>7, <2>8 DEF Responders, Responder
    <3>2. candidates'[c].message = Ref /\ candidates'[c].gated = FALSE
      BY <2>1, <2>8 DEF Answers
    <3> QED BY <2>4, <2>5, <3>1, <3>2
  <2>9. CASE ChatDeflectionResponder /\ Answers(Ref, TRUE)
    <3>1. messages[Ref].gate # "open" BY <2>6, <2>7, <2>9 DEF Responders, Responder
    <3>2. candidates'[c].message = Ref /\ candidates'[c].gated = TRUE
      BY <2>1, <2>9 DEF Answers
    <3> QED BY <2>4, <2>5, <3>1, <3>2
  <2> QED BY <2>2, <2>8, <2>9
<1> QED BY <1>1, <1>2

\* Who is answered by the model had the role for it when the message came in, by the
\* last role registered: the registry finds every principal with that role, also
\* after a restart, and the stamp of the gate is what the responders go by.
THEOREM GateFollowed == Spec => []RepliesFollowTheGate
<1>1. Init => AuthorityInv
  <2> SUFFICES ASSUME Init PROVE AuthorityInv OBVIOUS
  <2>1. RegistryInv BY InitTypes, InitRegistry
  <2>2. Len(messages) = 0 /\ Len(candidates) = 0 /\ exec.pc = "idle"
    BY EmptySeq DEF Init, Idle
  <2>3. 1..0 = {} OBVIOUS
  <2> QED BY <2>1, <2>2, <2>3 DEF AuthorityInv, GateInv, RepliesFollowTheGate
<1>2. TypeInv /\ ReplyInv /\ AuthorityInv /\ [Next]_vars => AuthorityInv'
  BY NextRegistry, NextGate, NextFollowTheGate DEF AuthorityInv, ReplyInv
<1>3. AuthorityInv => RepliesFollowTheGate BY DEF AuthorityInv
<1> QED BY <1>1, <1>2, <1>3, TypesHold, RepliesHold, PTL DEF Spec

-----------------------------------------------------------------------------
(* Sessions, their turns and the two counts of them *)

\* The three places a turn's number is kept in: the turns, the session and the cache
\* of its user agree, but for the turn that is not counted yet or never was.
Numbered(s) ==
  /\ \A t \in 1..Len(turns) : turns[t].session = s =>
       \/ turns[t].number <= sessions[s].turns
       \/ /\ turns[t].number = sessions[s].turns + 1
          /\ \/ turns[t].life < life
             \/ exec.pc \in {"link", "count"} /\ exec.session = s
  /\ exec.session = s => exec.number = sessions[s].turns + 1
  /\ \A r \in Senders : memory.session[r] = s => memory.number[r] = sessions[s].turns

\* Who the cache knows a session of has written in it.
Written(r, s) ==
  \E m \in 1..Len(messages) :
    messages[m].session = s /\ inputs[messages[m].input].user = r
NumbersAgree ==
  /\ \A s \in 1..Len(sessions) : Own(s) => Numbered(s)
  /\ \A r \in Senders : memory.session[r] # 0 => Written(r, memory.session[r])

LEMMA Counts ==
  ASSUME TypeInv
  PROVE  /\ \A s \in 1..Len(sessions) : sessions[s].turns \in Nat
         /\ \A t \in 1..Len(turns) : /\ turns[t].number \in Nat /\ turns[t].life \in Nat
                                     /\ turns[t].life <= life
                                     /\ turns[t].session \in 1..Len(sessions)
         /\ exec.number \in Nat /\ life \in Nat
         /\ \A r \in Senders : memory.session[r] \in 0..Len(sessions)
                               /\ memory.number[r] \in Nat
<1>1. \A s \in 1..Len(sessions) : sessions[s] \in Sessions
  BY ElementOfSeq DEF TypeInv, Tables
<1>2. \A t \in 1..Len(turns) : turns[t] \in Turns BY ElementOfSeq DEF TypeInv, Tables
<1>3. memory \in Caches(Len(sessions), Len(principals), Len(threads)) BY DEF TypeInv
<1>4. exec \in Frames /\ life \in Nat BY DEF TypeInv, FrameTypes
<1>5. \A s \in 1..Len(sessions) : sessions[s].turns \in Nat BY <1>1 DEF Sessions
<1>6. \A t \in 1..Len(turns) : turns[t].number \in Nat /\ turns[t].life \in Nat
  BY <1>2 DEF Turns
<1>7. \A t \in 1..Len(turns) : turns[t].life <= life /\ turns[t].session \in 1..Len(sessions)
  BY DEF TypeInv, References
<1>8. \A r \in Senders : memory.session[r] \in 0..Len(sessions) /\ memory.number[r] \in Nat
  BY <1>3 DEF Caches
<1>9. exec.number \in Nat BY <1>4 DEF Frames
<1> QED BY <1>4, <1>5, <1>6, <1>7, <1>8, <1>9

\* Messages stay in their session, and their sender is who wrote them.
LEMMA MessagesStay ==
  ASSUME TypeInv, [Next]_vars, NEW m \in 1..Len(messages)
  PROVE  /\ m \in 1..Len(messages')
         /\ messages'[m].session = messages[m].session
         /\ inputs'[messages'[m].input] = inputs[messages[m].input]
<1>1. messages'[m].session = messages[m].session /\ messages'[m].input = messages[m].input
  BY NextMessages DEF MessagesKept
<1>2. messages[m].input \in 1..Len(inputs) BY DEF TypeInv, References
<1>3. inputs'[messages[m].input] = inputs[messages[m].input] BY <1>2, NextInputs
<1>4. Len(messages') \in {Len(messages), Len(messages) + 1} BY NextMessages
<1> QED BY <1>1, <1>3, <1>4, Lengths

LEMMA OwnBefore ==
  ASSUME TypeInv, [Next]_vars, NEW s \in 1..Len(sessions), Own(s)'
  PROVE  Own(s)
<1> SUFFICES ASSUME NEW m \in 1..Len(messages), messages[m].session = s
             PROVE  inputs[messages[m].input].user = sessions[s].user
  BY DEF Own
<1>1. sessions'[s].user = sessions[s].user BY NextSessions
<1>2. /\ m \in 1..Len(messages') /\ messages'[m].session = s
      /\ inputs'[messages'[m].input] = inputs[messages[m].input]
  BY MessagesStay
<1> QED BY <1>1, <1>2 DEF Own

\* What the cache knows of sessions is set by a count and lost with the process.
LEMMA SessionCaches ==
  ASSUME TypeInv, [Next]_vars, ~ CountTurn
  PROVE  \A r \in Senders :
           \/ memory'.session[r] = 0
           \/ memory'.session[r] = memory.session[r] /\ memory'.number[r] = memory.number[r]
<1>1. memory \in Caches(Len(sessions), Len(principals), Len(threads)) BY DEF TypeInv
<1>2. CASE TelegramIngester
  <2>1. memory' = [memory EXCEPT !.seen = @ \cup {Ref}] BY <1>2 DEF TelegramIngester
  <2> QED BY <1>1, <2>1 DEF Caches
<1>3. CASE ThreadTracker
  <2>1. PICK t : memory' = [memory EXCEPT !.thread = @ \cup {t}] \/ memory' = memory
    BY <1>3, Tracking
  <2> QED BY <1>1, <2>1 DEF Caches
<1>4. CASE \E r \in Senders, role \in Roles : Indexes(r, role) BY <1>4, Indexing
<1>5. CASE memory' = memory BY <1>5
<1>6. CASE CrashRestart
  <2>1. memory'.session = Empty(Senders) BY <1>6, Restarting DEF Fresh
  <2> QED BY <2>1 DEF Empty
<1>7. "external" \in Roles /\ "owner" \in Roles /\ Owners \subseteq Senders
  BY ConversationAssumption DEF Roles
<1> QED BY <1>2, <1>3, <1>4, <1>5, <1>6, <1>7, NextPrincipals

LEMMA FrameMoves ==
  ASSUME TypeInv, [Next]_vars
  PROVE  /\ exec.pc \in {"link", "count"} =>
              \/ exec' = exec
              \/ exec'.pc = "count" /\ exec'.session = exec.session
              \/ CountTurn \/ CrashRestart
         /\ exec'.session # 0 =>
              \/ ChatIngester
              \/ /\ exec'.session = exec.session /\ exec'.number = exec.number
                 /\ ~ CountTurn
         /\ AddTurn => exec.pc = "turn" /\ exec'.pc = "link" /\ exec'.session = exec.session
<1>1. exec \in Frames BY DEF TypeInv, FrameTypes
<1>2. CASE AddSource \/ AddMessage \/ AddTurn \/ LinkTurn
  <2>1. \/ exec.pc = "source" /\ exec' = [exec EXCEPT !.pc = "message"]
        \/ exec.pc = "message" /\ exec' = [exec EXCEPT !.pc = "turn"]
        \/ exec.pc = "turn" /\ exec' = [exec EXCEPT !.pc = "link"]
        \/ exec.pc = "link" /\ exec' = [exec EXCEPT !.pc = "count"]
    BY <1>2 DEF AddSource, AddMessage, AddTurn, LinkTurn
  <2>2. /\ exec'.session = exec.session /\ exec'.number = exec.number
        /\ exec.pc = "turn" => exec'.pc = "link"
        /\ exec.pc = "link" => exec'.pc = "count"
        /\ exec.pc # "count"
    BY <1>1, <2>1 DEF Frames
  <2>3. AddTurn => exec.pc = "turn" BY DEF AddTurn
  <2>4. ~ CountTurn BY <2>2 DEF CountTurn
  <2> QED BY <2>2, <2>3, <2>4
<1>3. CASE CountTurn \/ ThreadTracker \/ NameThread \/ CrashRestart
  <2>1. exec'.session = 0
    <3>1. CASE CountTurn \/ NameThread \/ CrashRestart
      BY <3>1 DEF CountTurn, NameThread, CrashRestart, Idle
    <3>2. CASE ThreadTracker
      <4>1. PICK t : exec' = [Idle EXCEPT !.pc = "thread", !.message = Ref, !.thread = t]
        BY <3>2, Tracking
      <4> QED BY <4>1 DEF Idle
    <3> QED BY <1>3, <3>1, <3>2
  <2>2. ThreadTracker => exec.pc = "idle" BY DEF ThreadTracker, Fires, Idle
  <2>3. NameThread => exec.pc = "thread" BY DEF NameThread
  <2>4. ~ AddTurn
    <3>1. AddTurn => exec' = [exec EXCEPT !.pc = "link"] /\ exec.pc = "turn" BY DEF AddTurn
    <3>2. AddTurn => exec'.session \in 1..Len(sessions)
      BY <1>1, <3>1 DEF Frames, TypeInv, FrameTypes
    <3> QED BY <2>1, <3>2, Lengths
  <2> QED BY <1>3, <2>1, <2>2, <2>3, <2>4
<1>4. CASE ChatIngester
  <2>1. exec.pc = "idle" /\ ~ AddTurn BY <1>4 DEF ChatIngester, Fires, Idle, AddTurn
  <2> QED BY <1>4, <2>1
<1>5. CASE exec' = exec
  <2>1. ~ AddTurn
    <3>1. AddTurn => exec' = [exec EXCEPT !.pc = "link"] /\ exec.pc = "turn" BY DEF AddTurn
    <3> QED BY <1>1, <1>5, <3>1 DEF Frames
  <2>2. CountTurn => exec'.session = 0 BY DEF CountTurn, Idle
  <2> QED BY <1>5, <2>1, <2>2
<1> QED BY <1>2, <1>3, <1>4, <1>5, Changes

LEMMA SessionCounts ==
  ASSUME TypeInv, [Next]_vars, NEW s \in 1..Len(sessions)
  PROVE  /\ sessions'[s].turns = IF CountTurn /\ s = exec.session THEN exec.number
                                 ELSE sessions[s].turns
         /\ CountTurn => exec.pc = "count" /\ exec' = Idle
  BY NextSessions DEF CountTurn

\* The turns of a session only its user writes in, and its count, after a step.
LEMMA NextTurnNumbers ==
  ASSUME TypeInv, NumbersAgree, [Next]_vars, NEW s \in 1..Len(sessions), Own(s),
         NEW t \in 1..Len(turns'), turns'[t].session = s
  PROVE  \/ turns'[t].number <= sessions'[s].turns
         \/ /\ turns'[t].number = sessions'[s].turns + 1
            /\ \/ turns'[t].life < life'
               \/ exec'.pc \in {"link", "count"} /\ exec'.session = s
<1>1. Numbered(s) BY DEF NumbersAgree
<1>2. /\ sessions[s].turns \in Nat /\ exec.number \in Nat /\ life \in Nat
      /\ life' \in {life, life + 1}
  BY Counts, NextLife
<1>3. CASE t \in 1..Len(turns)
  <2>1. /\ turns'[t].number = turns[t].number /\ turns'[t].life = turns[t].life
        /\ turns[t].session = s
    BY <1>3, NextTurns DEF TurnsKept
  <2>2. turns[t].number \in Nat /\ turns[t].life \in Nat /\ turns[t].life <= life
    BY <1>3, Counts
  <2>3. \/ turns[t].number <= sessions[s].turns
        \/ /\ turns[t].number = sessions[s].turns + 1
           /\ \/ turns[t].life < life
              \/ exec.pc \in {"link", "count"} /\ exec.session = s
    BY <1>1, <1>3, <2>1 DEF Numbered
  <2>4. CASE CountTurn /\ s = exec.session
    <3>1. sessions'[s].turns = exec.number BY <2>4, SessionCounts
    <3>2. exec.number = sessions[s].turns + 1
      BY <1>1, <2>4 DEF Numbered, CountTurn
    <3> QED BY <1>2, <2>1, <2>2, <2>3, <3>1, <3>2
  <2>5. CASE ~ (CountTurn /\ s = exec.session)
    <3>1. sessions'[s].turns = sessions[s].turns BY <2>5, SessionCounts
    <3>2. CASE turns[t].number <= sessions[s].turns BY <2>1, <3>1, <3>2
    <3>3. CASE turns[t].number = sessions[s].turns + 1 /\ turns[t].life < life
      <4>1. turns[t].life < life' BY <1>2, <2>2, <3>3
      <4> QED BY <2>1, <3>1, <3>3, <4>1
    <3>4. CASE /\ turns[t].number = sessions[s].turns + 1
               /\ exec.pc \in {"link", "count"} /\ exec.session = s
      <4>1. \/ exec' = exec
            \/ exec'.pc = "count" /\ exec'.session = s
            \/ CrashRestart
        BY <2>5, <3>4, FrameMoves
      <4>2. CASE exec' = exec \/ (exec'.pc = "count" /\ exec'.session = s)
        BY <2>1, <3>1, <3>4, <4>2
      <4>3. CASE CrashRestart
        <5>1. life' = life + 1 BY <4>3 DEF CrashRestart
        <5>2. turns[t].life < life' BY <1>2, <2>2, <5>1
        <5> QED BY <2>1, <3>1, <3>4, <5>2
      <4> QED BY <4>1, <4>2, <4>3
    <3> QED BY <2>3, <3>2, <3>3, <3>4
  <2> QED BY <2>4, <2>5
<1>4. CASE t \notin 1..Len(turns)
  <2>1. t = Len(turns) + 1 /\ Len(turns') # Len(turns)
    <3>1. Len(turns') \in {Len(turns), Len(turns) + 1} BY NextTurns
    <3> QED BY <1>4, <3>1, Lengths
  <2>2. /\ AddTurn
        /\ turns'[t].session = exec.session /\ turns'[t].number = exec.number
    BY <2>1, NextTurns
  <2>3. exec.pc = "turn" /\ exec'.pc = "link" /\ exec'.session = s
    BY <2>2, FrameMoves
  <2>4. exec.number = sessions[s].turns + 1 BY <1>1, <2>2, <2>3 DEF Numbered
  <2>5. sessions'[s].turns = sessions[s].turns BY <2>3, SessionCounts
  <2> QED BY <2>2, <2>3, <2>4, <2>5
<1> QED BY <1>3, <1>4

\* The number the frame holds is the next one of its session.
LEMMA NextFrameNumber ==
  ASSUME TypeInv, NumbersAgree, [Next]_vars, NEW s \in 1..Len(sessions), Own(s),
         exec'.session = s
  PROVE  exec'.number = sessions'[s].turns + 1
<1>1. Numbered(s) BY DEF NumbersAgree
<1>2. CASE ChatIngester
  <2> DEFINE at == Resume(Ref)
             given == inputs[Ref].session
             r == inputs[Ref].user
  <2>1. Ref \in 1..Len(inputs) BY <1>2, Firing DEF ChatIngester
  <2>2. inputs[Ref] \in Inputs BY <2>1, ElementOfSeq DEF TypeInv, Tables
  <2>3. r \in Senders BY <2>2 DEF Inputs
  <2>4. /\ exec'.session = (IF at.session = 0 THEN Len(sessions) + 1 ELSE at.session)
        /\ exec'.number = at.number
        /\ exec.pc = "idle"
    BY <1>2 DEF ChatIngester, Fires, Idle
  <2>5. sessions'[s].turns = sessions[s].turns BY <2>4, SessionCounts
  <2>6. s # Len(sessions) + 1 /\ s # 0 /\ Len(sessions) \in Nat BY Lengths
  <2>7. at.session = s BY <2>4, <2>6
  <2>8. at = IF given # 0 THEN [session |-> given, number |-> sessions[given].turns + 1]
             ELSE IF memory.session[r] # 0
             THEN [session |-> memory.session[r], number |-> memory.number[r] + 1]
             ELSE [session |-> 0, number |-> 1]
    BY DEF Resume
  <2>9. memory.session[r] = s => memory.number[r] = sessions[s].turns
    BY <1>1, <2>3 DEF Numbered
  <2> HIDE DEF at, given, r
  <2>10. CASE given # 0
    <3>1. at = [session |-> given, number |-> sessions[given].turns + 1] BY <2>8, <2>10
    <3>2. given = s BY <2>7, <3>1
    <3> QED BY <2>4, <2>5, <3>1, <3>2
  <2>11. CASE given = 0 /\ memory.session[r] # 0
    <3>1. at = [session |-> memory.session[r], number |-> memory.number[r] + 1]
      BY <2>8, <2>11
    <3>2. memory.session[r] = s BY <2>7, <3>1
    <3> QED BY <2>4, <2>5, <2>9, <3>1, <3>2
  <2>12. CASE given = 0 /\ memory.session[r] = 0
    <3>1. at = [session |-> 0, number |-> 1] BY <2>8, <2>12
    <3> QED BY <2>6, <2>7, <3>1
  <2> QED BY <2>10, <2>11, <2>12
<1>3. CASE ~ ChatIngester
  <2>1. /\ exec'.session = exec.session /\ exec'.number = exec.number /\ ~ CountTurn
    <3>1. s # 0 BY Lengths
    <3> QED BY <1>3, <3>1, FrameMoves
  <2>2. sessions'[s].turns = sessions[s].turns BY <2>1, SessionCounts
  <2> QED BY <1>1, <2>1, <2>2 DEF Numbered
<1> QED BY <1>2, <1>3

\* The cache counts as the session does: only its user is cached with it.
LEMMA NextCachedNumber ==
  ASSUME TypeInv, NumbersAgree, [Next]_vars, NEW s \in 1..Len(sessions), Own(s),
         NEW q \in Senders, memory'.session[q] = s
  PROVE  memory'.number[q] = sessions'[s].turns
<1>1. Numbered(s) BY DEF NumbersAgree
<1>2. s # 0 BY Lengths
<1>3. CASE CountTurn
  <2> DEFINE r == inputs[exec.input].user
  <2>1. /\ memory'.session[q] = IF q = r THEN exec.session ELSE memory.session[q]
        /\ memory'.number[q] = IF q = r THEN exec.number ELSE memory.number[q]
    BY <1>3, Counting
  <2>2. /\ Len(messages) \in 1..Len(messages)
        /\ messages[Len(messages)].input = exec.input
        /\ messages[Len(messages)].session = exec.session
    <3>1. exec.pc = "count" BY <1>3 DEF CountTurn
    <3> QED BY <3>1, Lengths DEF TypeInv, FrameTypes
  <2>3. exec.session = s => r = sessions[s].user BY <2>2 DEF Own
  <2>4. memory.session[q] = s => q = sessions[s].user
    <3> SUFFICES ASSUME memory.session[q] = s PROVE q = sessions[s].user OBVIOUS
    <3>1. Written(q, s) BY <1>2 DEF NumbersAgree
    <3> QED BY <3>1 DEF Written, Own
  <2>5. sessions'[s].turns = IF s = exec.session THEN exec.number ELSE sessions[s].turns
    BY <1>3, SessionCounts
  <2>6. memory.session[q] = s => memory.number[q] = sessions[s].turns
    BY <1>1 DEF Numbered
  <2> HIDE DEF r
  <2> QED BY <2>1, <2>3, <2>4, <2>5, <2>6
<1>4. CASE ~ CountTurn
  <2>1. memory.session[q] = s /\ memory'.number[q] = memory.number[q]
    BY <1>2, <1>4, SessionCaches
  <2>2. sessions'[s].turns = sessions[s].turns BY <1>4, SessionCounts
  <2> QED BY <1>1, <2>1, <2>2 DEF Numbered
<1> QED BY <1>3, <1>4

LEMMA NextWritten ==
  ASSUME TypeInv, NumbersAgree, [Next]_vars, NEW q \in Senders, memory'.session[q] # 0
  PROVE  \E m \in 1..Len(messages') :
           /\ messages'[m].session = memory'.session[q]
           /\ inputs'[messages'[m].input].user = q
<1>1. CASE memory'.session[q] = memory.session[q]
  <2>1. PICK m \in 1..Len(messages) :
          messages[m].session = memory.session[q] /\ inputs[messages[m].input].user = q
    BY <1>1 DEF NumbersAgree, Written
  <2>2. /\ m \in 1..Len(messages') /\ messages'[m].session = messages[m].session
        /\ inputs'[messages'[m].input] = inputs[messages[m].input]
    BY MessagesStay
  <2> QED BY <1>1, <2>1, <2>2
<1>2. CASE CountTurn /\ memory'.session[q] # memory.session[q]
  <2> DEFINE m == Len(messages)
  <2>1. q = inputs[exec.input].user /\ memory'.session[q] = exec.session
    BY <1>2, Counting
  <2>2. /\ m \in 1..Len(messages) /\ messages[m].input = exec.input
        /\ messages[m].session = exec.session
    <3>1. exec.pc = "count" BY <1>2 DEF CountTurn
    <3> QED BY <3>1, Lengths DEF TypeInv, FrameTypes
  <2> HIDE DEF m
  <2>3. /\ m \in 1..Len(messages') /\ messages'[m].session = messages[m].session
        /\ inputs'[messages'[m].input] = inputs[messages[m].input]
    BY <2>2, MessagesStay
  <2> QED BY <2>1, <2>2, <2>3
<1> QED BY <1>1, <1>2, SessionCaches

LEMMA NextNumbers == ASSUME TypeInv, NumbersAgree, [Next]_vars PROVE NumbersAgree'
<1>1. ASSUME NEW s \in 1..Len(sessions'), Own(s)'
      PROVE  /\ \A t \in 1..Len(turns') : turns'[t].session = s =>
                  \/ turns'[t].number <= sessions'[s].turns
                  \/ /\ turns'[t].number = sessions'[s].turns + 1
                     /\ \/ turns'[t].life < life'
                        \/ exec'.pc \in {"link", "count"} /\ exec'.session = s
             /\ exec'.session = s => exec'.number = sessions'[s].turns + 1
             /\ \A q \in Senders : memory'.session[q] = s =>
                  memory'.number[q] = sessions'[s].turns
  <2>1. CASE s \in 1..Len(sessions)
    <3>1. Own(s) BY <1>1, <2>1, OwnBefore
    <3> QED BY <2>1, <3>1, NextTurnNumbers, NextFrameNumber, NextCachedNumber
  <2>2. CASE s \notin 1..Len(sessions)
    <3>1. s = Len(sessions) + 1 /\ Len(sessions') = s
      <4>1. Len(sessions') \in {Len(sessions), Len(sessions) + 1} BY NextSessions
      <4> QED BY <1>1, <2>2, <4>1, Lengths
    <3>2. ChatIngester /\ Resume(Ref).session = 0 /\ sessions'[s].turns = 0
      BY <3>1, NextSessions, Lengths
    <3>3. UNCHANGED <<turns, memory>> BY <3>2 DEF ChatIngester
    <3>4. \A t \in 1..Len(turns) : turns[t].session # s BY <3>1, Counts, Lengths
    <3>5. \A q \in Senders : memory.session[q] # s BY <3>1, Counts, Lengths
    <3>6. exec'.number = Resume(Ref).number BY <3>2 DEF ChatIngester
    <3>7. Resume(Ref).number = 1
      <4>1. Ref \in 1..Len(inputs) BY <3>2, Firing DEF ChatIngester
      <4> QED BY <3>2 DEF Resume
    <3> QED BY <3>2, <3>3, <3>4, <3>5, <3>6, <3>7
  <2> QED BY <2>1, <2>2
<1>2. \A s \in 1..Len(sessions') : Own(s)' => Numbered(s)' BY <1>1 DEF Numbered
<1>3. \A q \in Senders : memory'.session[q] # 0 => Written(q, memory.session[q])'
  BY NextWritten DEF Written
<1> QED BY <1>2, <1>3 DEF NumbersAgree

\* The turns of a session in order, a number twice only across a crash.
TurnsInOrder(s) ==
  \A t, u \in 1..Len(turns) :
    (t < u /\ turns[t].session = s /\ turns[u].session = s) =>
      \/ turns[t].number < turns[u].number
      \/ turns[t].number = turns[u].number /\ turns[t].life < turns[u].life
ContextsInOrder(s) ==
  \A m \in 1..Len(messages) : messages[m].session = s =>
    /\ Len(messages[m].context) <= ContextLimit
    /\ \A k \in 1..Len(messages[m].context) :
         LET t == messages[m].context[k] IN
         /\ t \in 1..Len(turns) /\ turns[t].session = s /\ turns[t].linked
         /\ turns[t].message # m
         /\ k > 1 => messages[m].context[k - 1] < t
    /\ messages[m].context # <<>> => \A t \in Earlier(m) :
         \/ \E k \in 1..Len(messages[m].context) : messages[m].context[k] = t
         \/ Len(messages[m].context) = ContextLimit /\ t < messages[m].context[1]
\* A thread counts the messages that name it, and the one that is being put in it.
Named(t) == {m \in 1..Len(messages) : messages[m].thread = t}
ThreadsCount ==
  \A t \in 1..Len(threads) :
    /\ \/ threads[t].count = Cardinality(Named(t))
       \/ threads[t].count = Cardinality(Named(t)) + 1 /\ BeingCounted(t)
    /\ exec.pc = "thread" /\ exec.thread = t =>
         threads[t].count = Cardinality(Named(t)) + 1
SessionsInOrder ==
  \A s \in 1..Len(sessions) : Own(s) => TurnsInOrder(s) /\ ContextsInOrder(s)

LEMMA NextTurnsInOrder ==
  ASSUME TypeInv, NumbersAgree, [Next]_vars, NEW s \in 1..Len(sessions), Own(s),
         TurnsInOrder(s)
  PROVE  TurnsInOrder(s)'
<1> SUFFICES ASSUME NEW t \in 1..Len(turns'), NEW u \in 1..Len(turns'), t < u,
                    turns'[t].session = s, turns'[u].session = s
             PROVE  \/ turns'[t].number < turns'[u].number
                    \/ turns'[t].number = turns'[u].number /\ turns'[t].life < turns'[u].life
  BY DEF TurnsInOrder
<1>1. \A v \in 1..Len(turns) :
        /\ turns'[v].session = turns[v].session /\ turns'[v].number = turns[v].number
        /\ turns'[v].life = turns[v].life
  BY NextTurns DEF TurnsKept
<1>2. Len(turns') \in {Len(turns), Len(turns) + 1} BY NextTurns
<1>3. CASE u \in 1..Len(turns)
  <2>1. t \in 1..Len(turns) BY <1>2, <1>3, Lengths
  <2> QED BY <1>1, <1>3, <2>1 DEF TurnsInOrder
<1>4. CASE u \notin 1..Len(turns)
  <2>1. u = Len(turns) + 1 /\ Len(turns') # Len(turns) /\ t \in 1..Len(turns)
    BY <1>2, <1>4, Lengths
  <2>2. /\ AddTurn /\ turns'[u].session = exec.session
        /\ turns'[u].number = exec.number /\ turns'[u].life = life
    BY <2>1, NextTurns
  <2>3. exec.pc = "turn" BY <2>2, FrameMoves
  <2>4. Numbered(s) BY DEF NumbersAgree
  <2>5. exec.number = sessions[s].turns + 1 BY <2>2, <2>3, <2>4 DEF Numbered
  <2>6. \/ turns[t].number <= sessions[s].turns
        \/ turns[t].number = sessions[s].turns + 1 /\ turns[t].life < life
    BY <1>1, <2>1, <2>3, <2>4 DEF Numbered
  <2>7. turns[t].number \in Nat /\ sessions[s].turns \in Nat BY <2>1, Counts
  <2>8. turns'[t].number = turns[t].number /\ turns'[t].life = turns[t].life
    BY <1>1, <2>1
  <2>9. CASE turns[t].number <= sessions[s].turns
    <3>1. turns[t].number < exec.number BY <2>5, <2>7, <2>9
    <3> QED BY <2>2, <2>8, <3>1
  <2>10. CASE turns[t].number = sessions[s].turns + 1 /\ turns[t].life < life
    <3>1. turns[t].number = exec.number BY <2>5, <2>10
    <3> QED BY <2>2, <2>8, <2>10, <3>1
  <2> QED BY <2>6, <2>9, <2>10
<1> QED BY <1>3, <1>4

\* In such a session the order of the numbers is that of creation.
LEMMA NextContextsInOrder ==
  ASSUME TypeInv, [Next]_vars, NEW s \in 1..Len(sessions), TurnsInOrder(s),
         ContextsInOrder(s)
  PROVE  ContextsInOrder(s)'
<1>1. ASSUME NEW t \in 1..Len(turns), NEW u \in 1..Len(turns), SpokenBefore(t, u),
             turns[t].session = s, turns[u].session = s
      PROVE  t < u
  <2>1. turns[t].number \in Nat /\ turns[u].number \in Nat BY Counts
  <2>2. CASE turns[t].number = turns[u].number /\ t < u BY <2>2
  <2>3. CASE turns[t].number < turns[u].number
    <3>1. t # u BY <2>1, <2>3
    <3>2. ~ (u < t)
      <4> SUFFICES ASSUME u < t PROVE FALSE OBVIOUS
      <4>1. turns[u].number < turns[t].number \/ turns[u].number = turns[t].number
        BY <1>1 DEF TurnsInOrder
      <4> QED BY <2>1, <2>3, <4>1
    <3> QED BY <3>1, <3>2, Lengths
  <2> QED BY <1>1, <2>2, <2>3 DEF SpokenBefore
<1>2. ASSUME NEW m \in 1..Len(messages')
      PROVE  \A t \in Earlier(m)' :
               m \in 1..Len(messages) => t \in Earlier(m) /\ t \in 1..Len(turns)
  <2> SUFFICES ASSUME NEW t \in Earlier(m)', m \in 1..Len(messages)
               PROVE  t \in Earlier(m) /\ t \in 1..Len(turns)
    OBVIOUS
  <2>1. /\ t \in 1..Len(turns') /\ turns'[t].session = messages'[m].session
        /\ turns'[t].linked /\ turns'[t].message < m
    BY DEF Earlier
  <2>2. t \in 1..Len(turns)
    <3> SUFFICES ASSUME t \notin 1..Len(turns) PROVE FALSE OBVIOUS
    <3>1. Len(turns') \in {Len(turns), Len(turns) + 1} BY NextTurns
    <3>2. t = Len(turns) + 1 /\ Len(turns') # Len(turns) BY <2>1, <3>1, Lengths
    <3> QED BY <2>1, <3>2, NextTurns
  <2>3. /\ turns'[t].session = turns[t].session /\ turns'[t].message = turns[t].message
        /\ turns[t].linked \/ (LinkTurn /\ t = Len(turns))
    BY <2>1, <2>2, NextTurns DEF TurnsKept
  <2>4. messages'[m].session = messages[m].session BY NextMessages DEF MessagesKept
  <2>5. turns[t].linked
    <3>1. LinkTurn => turns[Len(turns)].message = Len(messages)
      BY DEF LinkTurn, TypeInv, FrameTypes
    <3> QED BY <2>1, <2>3, <3>1, Lengths
  <2> QED BY <2>1, <2>2, <2>3, <2>4, <2>5 DEF Earlier
<1> SUFFICES ASSUME NEW m \in 1..Len(messages'), messages'[m].session = s
             PROVE  LET context == messages'[m].context IN
                    /\ Len(context) <= ContextLimit
                    /\ \A k \in 1..Len(context) :
                         /\ context[k] \in 1..Len(turns')
                         /\ turns'[context[k]].session = s
                         /\ turns'[context[k]].linked
                         /\ turns'[context[k]].message # m
                         /\ k > 1 => context[k - 1] < context[k]
                    /\ context # <<>> => \A t \in Earlier(m)' :
                         \/ \E k \in 1..Len(context) : context[k] = t
                         \/ Len(context) = ContextLimit /\ t < context[1]
  BY DEF ContextsInOrder
<1>3. \A t \in 1..Len(turns) :
        /\ t \in 1..Len(turns') /\ turns'[t].session = turns[t].session
        /\ turns[t].linked => turns'[t].linked
        /\ turns'[t].message = turns[t].message
  <2>1. Len(turns') \in {Len(turns), Len(turns) + 1} BY NextTurns
  <2>2. \A t \in 1..Len(turns) : t \in 1..Len(turns') BY <2>1, Lengths
  <2> QED BY <2>2, NextTurns DEF TurnsKept
<1>4. CASE m \in 1..Len(messages)
  <2>1. messages[m].session = s BY <1>4, NextMessages DEF MessagesKept
  <2>2. CASE messages'[m].context = messages[m].context
    <3> DEFINE context == messages[m].context
    <3>1. /\ Len(context) <= ContextLimit
          /\ \A k \in 1..Len(context) :
               /\ context[k] \in 1..Len(turns) /\ turns[context[k]].session = s
               /\ turns[context[k]].linked /\ turns[context[k]].message # m
               /\ k > 1 => context[k - 1] < context[k]
          /\ context # <<>> => \A t \in Earlier(m) :
               \/ \E k \in 1..Len(context) : context[k] = t
               \/ Len(context) = ContextLimit /\ t < context[1]
      BY <1>4, <2>1 DEF ContextsInOrder
    <3> HIDE DEF context
    <3>2. messages'[m].context = context BY <2>2 DEF context
    <3>3. \A k \in 1..Len(context) :
            /\ context[k] \in 1..Len(turns') /\ turns'[context[k]].session = s
            /\ turns'[context[k]].linked /\ turns'[context[k]].message # m
      BY <1>3, <3>1
    <3> QED BY <1>2, <1>4, <3>1, <3>2, <3>3
  <2>3. CASE messages'[m].context # messages[m].context
    <3> DEFINE T == Transcript(m)
    <3>1. messages'[m].context = T BY <1>4, <2>3, NextMessages
    <3>2. /\ T \in Seq(Nat) /\ \A j \in 1..Len(T) : T[j] \in Prior(m)
          /\ \A j \in 2..Len(T) : SpokenBefore(T[j - 1], T[j])
          /\ Len(T) <= ContextLimit
          /\ \A t \in Prior(m) :
               \/ \E k \in 1..Len(T) : T[k] = t
               \/ Len(T) = ContextLimit /\ SpokenBefore(t, T[1])
      BY TranscriptIsOrdered
    <3> HIDE DEF T
    <3>3. Len(T) \in Nat BY <3>2, LenProperties
    <3>4. ASSUME NEW k \in 1..Len(T)
          PROVE  /\ T[k] \in 1..Len(turns) /\ turns[T[k]].session = s
                 /\ turns[T[k]].linked /\ turns[T[k]].message # m
      BY <2>1, <3>2 DEF Prior
    <3>5. ASSUME NEW k \in 1..Len(T), k > 1 PROVE T[k - 1] < T[k]
      <4>1. k - 1 \in 1..Len(T) /\ k \in 2..Len(T) BY <3>3, <3>5
      <4>2. SpokenBefore(T[k - 1], T[k]) BY <3>2, <4>1
      <4> QED BY <1>1, <3>4, <4>1, <4>2
    <3>6. ASSUME NEW t \in Earlier(m)'
          PROVE  \/ \E k \in 1..Len(T) : T[k] = t
                 \/ Len(T) = ContextLimit /\ t < T[1]
      <4>1. t \in Earlier(m) /\ t \in 1..Len(turns) BY <1>2, <1>4
      <4>2. t \in Prior(m) /\ turns[t].session = s
        <5>1. /\ turns[t].session = messages[m].session /\ turns[t].linked
              /\ turns[t].message < m /\ turns[t].message \in Nat
          <6>1. turns[t] \in Turns BY <4>1, ElementOfSeq DEF TypeInv, Tables
          <6> QED BY <4>1, <6>1 DEF Earlier, Turns
        <5>2. turns[t].message # m BY <5>1
        <5> QED BY <2>1, <4>1, <5>1, <5>2 DEF Prior
      <4>3. CASE Len(T) = ContextLimit /\ SpokenBefore(t, T[1])
        <5>1. 1 \in 1..Len(T) BY <3>3, <4>3, ConversationAssumption
        <5> QED BY <1>1, <3>4, <4>1, <4>2, <4>3, <5>1
      <4> QED BY <3>2, <4>2, <4>3
    <3> QED BY <1>3, <3>1, <3>2, <3>4, <3>5, <3>6
  <2> QED BY <2>2, <2>3
<1>5. CASE m \notin 1..Len(messages)
  <2>1. AddMessage /\ m = Len(messages) + 1
    <3>1. Len(messages') \in {Len(messages), Len(messages) + 1} BY NextMessages
    <3>2. m = Len(messages) + 1 /\ Len(messages') # Len(messages)
      BY <1>5, <3>1, Lengths
    <3> QED BY <3>2, NextMessages
  <2>2. messages'[m].context = <<>> BY <2>1, AddingMessage
  <2>3. Len(messages'[m].context) = 0 BY <2>2
  <2> QED BY <2>2, <2>3, ConversationAssumption
<1> QED BY <1>4, <1>5

LEMMA NextInOrder ==
  ASSUME TypeInv, NumbersAgree, SessionsInOrder, [Next]_vars
  PROVE  SessionsInOrder'
<1>1. ASSUME NEW s \in 1..Len(sessions'), Own(s)'
      PROVE  TurnsInOrder(s)' /\ ContextsInOrder(s)'
  <2>1. CASE s \in 1..Len(sessions)
    <3>1. Own(s) BY <1>1, <2>1, OwnBefore
    <3>2. TurnsInOrder(s) /\ ContextsInOrder(s) BY <2>1, <3>1 DEF SessionsInOrder
    <3> QED BY <2>1, <3>1, <3>2, NextTurnsInOrder, NextContextsInOrder
  <2>2. CASE s \notin 1..Len(sessions)
    <3>1. s = Len(sessions) + 1 /\ Len(sessions') # Len(sessions)
      <4>1. Len(sessions') \in {Len(sessions), Len(sessions) + 1} BY NextSessions
      <4> QED BY <1>1, <2>2, <4>1, Lengths
    <3>2. ChatIngester BY <3>1, NextSessions
    <3>3. UNCHANGED <<turns, messages>> BY <3>2 DEF ChatIngester
    <3>4. /\ \A t \in 1..Len(turns) : turns[t].session \in 1..Len(sessions)
          /\ \A m \in 1..Len(messages) : messages[m].session \in 1..Len(sessions)
      BY Counts DEF TypeInv, References
    <3>5. /\ \A t \in 1..Len(turns) : turns[t].session # s
          /\ \A m \in 1..Len(messages) : messages[m].session # s
      BY <3>1, <3>4, Lengths
    <3> QED BY <3>3, <3>5 DEF TurnsInOrder, ContextsInOrder
  <2> QED BY <2>1, <2>2
<1> QED BY <1>1 DEF SessionsInOrder

\* The registry of threads is added to, or lost with the process.
LEMMA ThreadCaches ==
  ASSUME TypeInv, [Next]_vars, ~ ThreadTracker
  PROVE  /\ memory'.thread \subseteq memory.thread
         /\ CrashRestart => memory'.thread = {}
<1>1. memory \in Caches(Len(sessions), Len(principals), Len(threads)) BY DEF TypeInv
<1>2. CrashRestart => memory'.thread = {} BY Restarting DEF Fresh
<1>3. CASE TelegramIngester
  <2>1. memory' = [memory EXCEPT !.seen = @ \cup {Ref}] BY <1>3 DEF TelegramIngester
  <2> QED BY <1>1, <1>2, <2>1 DEF Caches
<1>4. CASE CountTurn BY <1>2, <1>4, Counting
<1>5. CASE \E r \in Senders, role \in Roles : Indexes(r, role) BY <1>2, <1>5, Indexing
<1>6. CASE memory' = memory BY <1>2, <1>6
<1>7. CASE CrashRestart BY <1>2, <1>7
<1>8. "external" \in Roles /\ "owner" \in Roles /\ Owners \subseteq Senders
  BY ConversationAssumption DEF Roles
<1> QED BY <1>3, <1>4, <1>5, <1>6, <1>7, <1>8, NextPrincipals

\* A message is put in a thread once, after the thread has counted it.
LEMMA NextThreadsCount ==
  ASSUME TypeInv, NamingAhead, ThreadsCount, [Next]_vars
  PROVE  ThreadsCount'
<1> SUFFICES ASSUME NEW t \in 1..Len(threads')
             PROVE  LET n == Cardinality(Named(t)') IN
                    /\ \/ threads'[t].count = n
                       \/ threads'[t].count = n + 1 /\ BeingCounted(t)'
                    /\ exec'.pc = "thread" /\ exec'.thread = t => threads'[t].count = n + 1
  BY DEF ThreadsCount
<1>1. t # 0 /\ Len(messages') \in {Len(messages), Len(messages) + 1}
  BY NextMessages
<1>2. \A m \in 1..Len(messages') : m \notin 1..Len(messages) => messages'[m].thread = 0
  <2> SUFFICES ASSUME NEW m \in 1..Len(messages'), m \notin 1..Len(messages)
               PROVE  messages'[m].thread = 0
    OBVIOUS
  <2>1. m = Len(messages) + 1 /\ Len(messages') # Len(messages) BY <1>1, Lengths
  <2> QED BY <2>1, NextMessages, AddingMessage
<1>3. 1..Len(messages) \subseteq 1..Len(messages') BY <1>1, Lengths
<1>4. ASSUME ~ NameThread PROVE Named(t)' = Named(t)
  <2>1. \A m \in 1..Len(messages) : messages'[m].thread = messages[m].thread
    BY <1>4, NextMessages
  <2> QED BY <1>1, <1>2, <1>3, <2>1 DEF Named
<1>5. CASE ThreadTracker
  <2>1. PICK k \in 1..(Len(threads) + 1) :
          /\ \/ /\ k = Len(threads) + 1
                /\ Len(threads') = Len(threads) + 1 /\ threads'[k].count = 1
                /\ \A j \in 1..Len(threads) : threads'[j] = threads[j]
                /\ memory' = [memory EXCEPT !.thread = @ \cup {k}]
             \/ /\ k \in 1..Len(threads)
                /\ Len(threads') = Len(threads)
                /\ \A j \in 1..Len(threads) : threads'[j].count =
                     IF j = k THEN threads[j].count + 1 ELSE threads[j].count
                /\ memory' = memory /\ k \in memory.thread
          /\ exec' = [Idle EXCEPT !.pc = "thread", !.message = Ref, !.thread = k]
    BY <1>5, Tracking
  <2>2. exec.pc = "idle" BY <1>5 DEF ThreadTracker, Fires, Idle
  <2>3. exec'.pc = "thread" /\ exec'.thread = k BY <2>1 DEF Idle
  <2>4. Named(t)' = Named(t) BY <1>4, <2>2 DEF NameThread
  <2>5. CASE t = k
    <3>1. threads'[t].count = Cardinality(Named(t)) + 1
      <4>1. CASE k = Len(threads) + 1 /\ threads'[k].count = 1
        <5>1. \A m \in 1..Len(messages) : messages[m].thread # t
          BY <2>5, <4>1, Lengths DEF TypeInv, References
        <5>2. Named(t) = {} BY <5>1 DEF Named
        <5>3. Cardinality(Named(t)) = 0 BY <5>2, FS_EmptySet
        <5> QED BY <2>5, <4>1, <5>3
      <4>2. CASE /\ k \in 1..Len(threads) /\ k \in memory.thread
                 /\ threads'[k].count = threads[k].count + 1
        <5>1. threads[t].count = Cardinality(Named(t))
          BY <2>2, <2>5, <4>2 DEF ThreadsCount, BeingCounted
        <5> QED BY <2>5, <4>2, <5>1
      <4> QED BY <2>1, <4>1, <4>2
    <3> QED BY <2>3, <2>4, <2>5, <3>1 DEF BeingCounted
  <2>6. CASE t # k
    <3>1. t \in 1..Len(threads) /\ threads'[t].count = threads[t].count
      <4>1. CASE /\ k = Len(threads) + 1 /\ Len(threads') = Len(threads) + 1
                 /\ \A j \in 1..Len(threads) : threads'[j] = threads[j]
        <5>1. t \in 1..Len(threads) BY <2>6, <4>1, Lengths
        <5> QED BY <4>1, <5>1
      <4>2. CASE /\ Len(threads') = Len(threads)
                 /\ \A j \in 1..Len(threads) : threads'[j].count =
                      IF j = k THEN threads[j].count + 1 ELSE threads[j].count
        <5>1. t \in 1..Len(threads) BY <4>2
        <5> QED BY <2>6, <4>2, <5>1
      <4> QED BY <2>1, <4>1, <4>2
    <3>2. t \notin memory.thread => t \notin memory'.thread
      <4>1. memory \in Caches(Len(sessions), Len(principals), Len(threads)) BY DEF TypeInv
      <4>2. memory' = [memory EXCEPT !.thread = @ \cup {k}] \/ memory' = memory BY <2>1
      <4> QED BY <2>6, <4>1, <4>2 DEF Caches
    <3>3. \/ threads[t].count = Cardinality(Named(t))
          \/ threads[t].count = Cardinality(Named(t)) + 1 /\ t \notin memory.thread
      BY <2>2, <3>1 DEF ThreadsCount, BeingCounted
    <3> QED BY <2>3, <2>4, <2>6, <3>1, <3>2, <3>3 DEF BeingCounted
  <2> QED BY <2>5, <2>6
<1>6. CASE NameThread
  <2> DEFINE m == exec.message
             new == [messages[m] EXCEPT !.thread = exec.thread]
  <2>1. /\ m \in 1..Len(messages) /\ MessageSet(m, new) /\ new.thread = exec.thread
        /\ exec.pc = "thread"
    BY <1>6, Naming DEF NameThread
  <2> HIDE DEF new
  <2>2. /\ Len(messages') = Len(messages) /\ messages'[m].thread = exec.thread
        /\ \A k \in 1..Len(messages) : k # m => messages'[k].thread = messages[k].thread
    BY <2>1, SettingMessage
  <2>3. messages[m].thread = 0 BY <2>1 DEF NamingAhead
  <2>4. threads' = threads /\ memory' = memory /\ exec'.pc = "idle"
    BY <1>6 DEF NameThread, Idle
  <2> HIDE DEF m
  <2>5. CASE t = exec.thread
    <3>1. threads[t].count = Cardinality(Named(t)) + 1
      BY <2>1, <2>4, <2>5 DEF ThreadsCount
    <3>2. IsFiniteSet(Named(t)) /\ Cardinality(Named(t)) \in Nat
      <4>1. Named(t) \in SUBSET (1..Len(messages)) BY DEF Named
      <4>2. IsFiniteSet(1..Len(messages)) BY Lengths, FS_Interval
      <4> QED BY <4>1, <4>2, FS_Subset, FS_CardinalityType
    <3>3. Named(t)' = Named(t) \cup {m} /\ m \notin Named(t)
      BY <1>1, <2>1, <2>2, <2>3, <2>5 DEF Named
    <3>4. Cardinality(Named(t) \cup {m}) = Cardinality(Named(t)) + 1
      BY <3>2, <3>3, FS_AddElement
    <3> QED BY <2>4, <3>1, <3>3, <3>4
  <2>6. CASE t # exec.thread
    <3>1. Named(t)' = Named(t) BY <1>1, <2>1, <2>2, <2>3, <2>6 DEF Named
    <3>2. \/ threads[t].count = Cardinality(Named(t))
          \/ threads[t].count = Cardinality(Named(t)) + 1 /\ t \notin memory.thread
      BY <2>4, <2>6 DEF ThreadsCount, BeingCounted
    <3> QED BY <2>4, <3>1, <3>2 DEF BeingCounted
  <2> QED BY <2>5, <2>6
<1>7. CASE ~ ThreadTracker /\ ~ NameThread
  <2>1. threads' = threads /\ Named(t)' = Named(t) BY <1>4, <1>7, NextThreads
  <2>2. exec'.pc = "thread" => exec' = exec
    <3>1. exec \in Frames BY DEF TypeInv, FrameTypes
    <3>2. ChatIngester => exec'.pc # "thread" BY DEF ChatIngester
    <3>3. (CountTurn \/ CrashRestart) => exec'.pc # "thread"
      BY DEF CountTurn, CrashRestart, Idle
    <3>4. CASE AddSource \/ AddMessage \/ AddTurn \/ LinkTurn
      <4>1. \E pc \in {"message", "turn", "link", "count"} : exec' = [exec EXCEPT !.pc = pc]
        BY <3>4 DEF AddSource, AddMessage, AddTurn, LinkTurn
      <4> QED BY <3>1, <4>1 DEF Frames
    <3> QED BY <1>7, <3>2, <3>3, <3>4, Changes
  <2>3. exec.pc = "thread" => exec' = exec \/ memory'.thread = {}
    <3>1. CASE exec' = exec BY <3>1
    <3>2. CASE CrashRestart BY <1>7, <3>2, ThreadCaches
    <3>3. CASE ChatIngester \/ AddSource \/ AddMessage \/ AddTurn \/ LinkTurn \/ CountTurn
      BY <3>3 DEF ChatIngester, Fires, Idle, AddSource, AddMessage, AddTurn, LinkTurn,
                  CountTurn
    <3> QED BY <1>7, <3>1, <3>2, <3>3, Changes
  <2>4. BeingCounted(t) => BeingCounted(t)'
    <3>1. memory'.thread \subseteq memory.thread BY <1>7, ThreadCaches
    <3> QED BY <2>3, <3>1 DEF BeingCounted
  <2> QED BY <2>1, <2>2, <2>4 DEF ThreadsCount
<1> QED BY <1>5, <1>6, <1>7

\* In a session of one user turns are numbered in order, whether it was resumed by its
\* object or from the cache, and a transcript lists the last turns linked to it, in that
\* order; a thread counts the messages that name it, but for the one it is counting or
\* was counting when the server crashed.
THEOREM TranscriptsInOrder == Spec => []TranscriptsFollowTheSession
<1> DEFINE Inv == NumbersAgree /\ SessionsInOrder /\ ThreadsCount
<1>1. Init => Inv
  <2> SUFFICES ASSUME Init PROVE Inv OBVIOUS
  <2>1. Len(sessions) = 0 /\ Len(threads) = 0 BY EmptySeq DEF Init
  <2>2. 1..0 = {} OBVIOUS
  <2>3. \A r \in Senders : memory.session[r] = 0 BY DEF Init, Fresh, Empty
  <2> QED BY <2>1, <2>2, <2>3 DEF NumbersAgree, SessionsInOrder, ThreadsCount
<1>2. TypeInv /\ ReplyInv /\ Inv /\ [Next]_vars => Inv'
  BY NextNumbers, NextInOrder, NextThreadsCount DEF ReplyInv
<1>3. Inv => TranscriptsFollowTheSession
  <2> SUFFICES ASSUME Inv PROVE TranscriptsFollowTheSession OBVIOUS
  <2>1. \A s \in 1..Len(sessions) : Own(s) =>
          \A t, u \in 1..Len(turns) :
            (t < u /\ turns[t].session = s /\ turns[u].session = s) =>
              \/ turns[t].number < turns[u].number
              \/ turns[t].number = turns[u].number /\ turns[t].life < turns[u].life
    BY DEF SessionsInOrder, TurnsInOrder
  <2>2. \A s \in 1..Len(sessions) : Own(s) =>
          \A m \in 1..Len(messages) :
            LET context == messages[m].context IN
            messages[m].session = s =>
              /\ Len(context) <= ContextLimit
              /\ \A k \in 1..Len(context) :
                   /\ turns[context[k]].session = s /\ turns[context[k]].linked
                   /\ turns[context[k]].message # m
                   /\ k > 1 => context[k - 1] < context[k]
              /\ context # <<>> => \A t \in Earlier(m) :
                   \/ \E k \in 1..Len(context) : context[k] = t
                   \/ Len(context) = ContextLimit /\ t < context[1]
    <3> SUFFICES ASSUME NEW s \in 1..Len(sessions), Own(s),
                        NEW m \in 1..Len(messages), messages[m].session = s
                 PROVE  LET context == messages[m].context IN
                        /\ Len(context) <= ContextLimit
                        /\ \A k \in 1..Len(context) :
                             /\ turns[context[k]].session = s /\ turns[context[k]].linked
                             /\ turns[context[k]].message # m
                             /\ k > 1 => context[k - 1] < context[k]
                        /\ context # <<>> => \A t \in Earlier(m) :
                             \/ \E k \in 1..Len(context) : context[k] = t
                             \/ Len(context) = ContextLimit /\ t < context[1]
      BY Zenon
    <3>1. ContextsInOrder(s) BY DEF SessionsInOrder
    <3> QED BY <3>1 DEF ContextsInOrder
  <2>3. \A t \in 1..Len(threads) :
          LET named == Cardinality({m \in 1..Len(messages) : messages[m].thread = t})
          IN  \/ threads[t].count = named
              \/ threads[t].count = named + 1 /\ BeingCounted(t)
    BY DEF ThreadsCount, Named
  <2> QED BY <2>1, <2>2, <2>3 DEF TranscriptsFollowTheSession
<1> HIDE DEF Inv
<1> QED BY <1>1, <1>2, <1>3, TypesHold, RepliesHold, PTL DEF Spec

================================================================================
