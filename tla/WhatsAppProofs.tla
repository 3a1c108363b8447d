---------------------------- MODULE WhatsAppProofs ----------------------------
(* Theorems about WhatsApp, for any customers, messages, tenants, webhooks   *)
(* and requests.                                                             *)
EXTENDS WhatsApp, FiniteSetTheorems, TLAPS

------------------------------------------------------------------------------
(* Events *)

\* The events of a webhook, and those it has still to handle.
BatchesTyped ==
    /\ body \in [Actors -> SUBSET Events]
    /\ rest \in [Actors -> Seq(Events)]

\* A message is told from a status by what it is a record of.
LEMMA EventKinds ==
    ASSUME NEW e \in Events
    PROVE  /\ IsMessage(e) => e.message \in Incoming /\ e = MessageEvent(e.message)
           /\ ~IsMessage(e) => /\ e.sent \in Outbound /\ e.status \in Range(Statuses)
                               /\ e = StatusEvent(e.sent, e.status)
<1>1. CASE \E m \in Incoming : e = MessageEvent(m)
  BY <1>1 DEF MessageEvent, IsMessage
<1>2. CASE \E o \in Outbound, s \in Range(Statuses) : e = StatusEvent(o, s)
  BY <1>2 DEF StatusEvent, IsMessage
<1> QED BY <1>1, <1>2 DEF Events

\* The status of a message that has just been stored is the first.
LEMMA SentIsStatus == "sent" \in Range(Statuses)
<1>1. 1 \in DOMAIN Statuses /\ Statuses[1] = "sent"
  BY DEF Statuses
<1> QED BY <1>1 DEF Range

\* The range of a batch is what it has been given.
LEMMA BatchRange ==
    ASSUME NEW S, NEW n \in Nat, NEW b \in [1..n -> S]
    PROVE  b \in Seq(S) /\ Range(b) \subseteq S
  BY DEF Range

\* The event at the head of a batch is the one, or among the others.
LEMMA HeadOrTail ==
    ASSUME NEW S, NEW s \in Seq(S), s # <<>>
    PROVE  /\ Head(s) \in S /\ Tail(s) \in Seq(S)
           /\ \A e \in Range(s) : e = Head(s) \/ e \in Range(Tail(s))
<1>1. Head(s) = s[1] /\ Len(s) \in Nat /\ Len(s) >= 1 /\ DOMAIN s = 1..Len(s)
  OBVIOUS
<1>2. Tail(s) \in Seq(S) /\ DOMAIN Tail(s) = 1..(Len(s) - 1)
      /\ \A i \in 1..(Len(s) - 1) : Tail(s)[i] = s[i + 1]
  OBVIOUS
<1>3. ASSUME NEW i \in 1..Len(s), i # 1 PROVE s[i] \in Range(Tail(s))
  <2>1. i - 1 \in 1..(Len(s) - 1) /\ Tail(s)[i - 1] = s[i]
    BY <1>1, <1>2, <1>3
  <2> QED BY <1>2, <2>1 DEF Range
<1> QED BY <1>1, <1>2, <1>3 DEF Range

------------------------------------------------------------------------------
(* Types *)

Sending == {"configOf", "post", "save"}

\* What is where while a webhook or a request is being handled.
Bot ==
    /\ \A w \in Workers : pc[w] \notin {"done", "findExisting", "create", "update"}
    /\ \A c \in Callers : pc[c] \notin {"event", "findConversation", "open"}
    /\ \A w \in Workers : pc[w] \in Sending =>
          /\ rest[w] # <<>> /\ IsMessage(Head(rest[w]))
          /\ saying[w].about = Current(w) /\ saying[w].kind \in {"welcome", "reply"}
    /\ \A c \in Callers : pc[c] \in Sending => saying[c].kind = "template"
    /\ \A a \in Actors : pc[a] \in Sending => tenant[a] \in Tenants /\ saying[a] \in Saying
    /\ \A c \in Callers : pc[c] \in {"findExisting", "create", "update"} => tenant[c] \in Tenants
    /\ \A a \in Actors : pc[a] = "save" => id[a] \in Outbound /\ out[id[a]] = saying[a]

TypeInv ==
    /\ TypeOK
    /\ BatchesTyped
    /\ reported \in [Outbound -> Seq(Range(Statuses))]
    /\ Bot

\* In the beginning nothing is being handled.
LEMMA InitTyped == Init => TypeInv
<1> SUFFICES ASSUME Init PROVE TypeInv
  OBVIOUS
<1>1. inbox \subseteq Events
  BY DEF Init, Events
<1>2. TypeOK
  BY <1>1, WhatsAppConstants DEF Init, TypeOK, Actors, At
<1>3. BatchesTyped /\ reported \in [Outbound -> Seq(Range(Statuses))]
  BY DEF Init, BatchesTyped
<1>4. Bot
  BY DEF Init, Bot, At, Actors, Sending
<1> QED BY <1>2, <1>3, <1>4 DEF TypeInv

\* A webhook that arrives is a sequence of events.
LEMMA DeliverTyped == ASSUME TypeInv, NEW w \in Workers, Deliver(w) PROVE TypeInv'
<1>1. PICK n \in 1..MaxBatch : \E b \in [1..n -> inbox] :
        body' = [body EXCEPT ![w] = Range(b)] /\ rest' = [rest EXCEPT ![w] = b]
  BY DEF Deliver
<1>2. PICK b \in [1..n -> inbox] :
        body' = [body EXCEPT ![w] = Range(b)] /\ rest' = [rest EXCEPT ![w] = b]
  BY <1>1
<1>3. n \in Nat /\ inbox \subseteq Events
  BY WhatsAppConstants DEF TypeInv, TypeOK
<1>4. b \in [1..n -> Events]
  BY <1>3
<1>5. b \in Seq(Events) /\ Range(b) \in SUBSET Events
  BY <1>3, <1>4, BatchRange
<1>6. BatchesTyped'
  BY <1>2, <1>5 DEF TypeInv, BatchesTyped
<1>7. pc' = [pc EXCEPT ![w] = "event"] /\ w \in Actors /\ w \notin Callers
  BY WhatsAppConstants DEF Deliver, Goto, Actors
<1>8. \A x \in Actors \ {w} : rest'[x] = rest[x]
  BY <1>2 DEF TypeInv, BatchesTyped
<1>9. TypeOK'
  BY <1>7, <1>8 DEF Deliver, TypeInv, TypeOK, Actors, tables, provider, locals, history
<1>10. Bot'
  BY <1>7, <1>8 DEF Deliver, TypeInv, TypeOK, Bot, Sending, Actors, tables, provider, locals,
                    history, Current
<1> QED BY <1>6, <1>9, <1>10 DEF Deliver, TypeInv, provider

\* What TypeOK says of those that are being handled.
ActorsTyped ==
    /\ pc \in [Actors -> {"idle", "done", "event", "findConversation", "open", "configOf", "post",
                          "save", "findExisting", "create", "update"}]
    /\ \A w \in Workers : pc[w] \in {"findConversation", "open"} =>
          rest[w] # <<>> /\ IsMessage(Head(rest[w])) /\ tenant[w] # None
    /\ tenant \in [Actors -> Tenants \cup {None}]
    /\ saying \in [Actors -> Saying \cup {None}]
    /\ id \in [Actors -> Outbound \cup {None}]
    /\ BatchesTyped
    /\ Bot

\* One that is answered, or has failed, leaves nothing behind.
LEMMA AnswerTyped ==
    ASSUME TypeInv, NEW a \in Actors, Answer(a), UNCHANGED out
    PROVE  ActorsTyped'
  BY WhatsAppConstants DEF Answer, Goto, SetLocals, TypeInv, TypeOK, BatchesTyped, Bot, Sending,
     Actors, Current, ActorsTyped

\* The next event of a webhook is one of its events.
LEMMA NextEventTyped ==
    ASSUME TypeInv, NEW w \in Workers, NextEvent(w), rest[w] # <<>>, UNCHANGED out
    PROVE  ActorsTyped'
<1>1. rest[w] \in Seq(Events) /\ w \in Actors /\ w \notin Callers
  BY WhatsAppConstants DEF TypeInv, BatchesTyped, Actors
<1>2. Tail(rest[w]) \in Seq(Events)
  BY <1>1, HeadOrTail
<1>3. /\ rest' = [rest EXCEPT ![w] = Tail(rest[w])] /\ rest' \in [Actors -> Seq(Events)]
      /\ pc' = [pc EXCEPT ![w] = "event"]
  BY <1>1, <1>2 DEF NextEvent, Goto, TypeInv, BatchesTyped
<1> QED BY <1>1, <1>3, WhatsAppConstants DEF NextEvent, SetLocals, TypeInv, TypeOK, BatchesTyped,
        Bot, Sending, Actors, Current, ActorsTyped

\* What a webhook says is about the message it handles.
LEMMA SayTyped ==
    ASSUME TypeInv, NEW w \in Workers, NEW kind \in {"welcome", "reply"},
           rest[w] # <<>>, IsMessage(Head(rest[w])), tenant[w] \in Tenants,
           Say(w, tenant[w], kind, Sender[Current(w)], Current(w)),
           UNCHANGED <<out, body, rest>>
    PROVE  ActorsTyped'
<1>1. rest[w] \in Seq(Events) /\ w \in Actors /\ w \notin Callers
  BY WhatsAppConstants DEF TypeInv, BatchesTyped, Actors
<1>2. Current(w) \in Incoming
  BY <1>1, HeadOrTail, EventKinds DEF Current
<1> DEFINE x == [kind |-> kind, to |-> Sender[Current(w)], about |-> Current(w)]
<1>3. x \in Saying /\ x.about = Current(w) /\ x.kind = kind
  BY <1>2, WhatsAppConstants DEF Saying
<1>4. saying' = [saying EXCEPT ![w] = x] /\ tenant' = [tenant EXCEPT ![w] = tenant[w]]
      /\ id' = [id EXCEPT ![w] = None] /\ pc' = [pc EXCEPT ![w] = "configOf"]
  BY DEF Say, SetLocals, Goto
<1> HIDE DEF x
<1>5. Current(w)' = Current(w)
  BY DEF Current
<1> QED BY <1>1, <1>3, <1>4, <1>5, WhatsAppConstants DEF TypeInv, TypeOK, BatchesTyped,
        Bot, Sending, Actors, Current, ActorsTyped

\* The reply, or what is next.
LEMMA ReplyTyped ==
    ASSUME TypeInv, NEW w \in Workers, Reply(w), UNCHANGED out,
           rest[w] # <<>>, IsMessage(Head(rest[w])), tenant[w] \in Tenants
    PROVE  ActorsTyped'
  BY NextEventTyped, SayTyped DEF Reply

\* What is given up is over.
LEMMA GiveUpTyped ==
    ASSUME TypeInv, NEW a \in Actors, GiveUp(a), UNCHANGED out,
           a \in Workers => rest[a] # <<>> /\ IsMessage(Head(rest[a]))
    PROVE  ActorsTyped' /\ dropped' \subseteq Incoming
<1>1. CASE a \in Workers
  <2>1. rest[a] \in Seq(Events)
    BY DEF TypeInv, BatchesTyped
  <2>2. Current(a) \in Incoming
    BY <1>1, <2>1, HeadOrTail, EventKinds DEF Current
  <2> QED BY <1>1, <2>2, NextEventTyped DEF GiveUp, TypeInv, TypeOK
<1>2. CASE a \notin Workers
  BY <1>2, AnswerTyped DEF GiveUp, TypeInv, TypeOK
<1> QED BY <1>1, <1>2
\* What handles a message.
LEMMA HandleTyped ==
    ASSUME TypeInv, NEW w \in Workers, Handle(w)
    PROVE  TypeInv'
<1> w \in Actors /\ w \notin Callers
  BY WhatsAppConstants DEF Actors
<1>1. CASE Deliver(w)
  BY <1>1, DeliverTyped
<1>2. CASE FindConfig(w)
  <2>1. ActorsTyped'
    <3>1. CASE Answer(w)
      BY <1>2, <3>1, AnswerTyped DEF FindConfig, provider
    <3>2. CASE ~Answer(w)
      <4>1. PICK t \in Tenants : SetLocals(w, t, None, None)
        BY <1>2, <3>2 DEF FindConfig
      <4>2. /\ pc' = [pc EXCEPT ![w] = "findConversation"] /\ UNCHANGED <<body, rest, out>>
            /\ rest[w] # <<>> /\ IsMessage(Head(rest[w]))
        BY <1>2, <3>2 DEF FindConfig, Goto, provider
      <4> QED BY <4>1, <4>2, WhatsAppConstants DEF SetLocals, TypeInv, TypeOK, BatchesTyped,
              Bot, Sending, Actors, Current, ActorsTyped
    <3> QED BY <3>1, <3>2
  <2> QED BY <1>2, <2>1 DEF FindConfig, ActorsTyped, TypeInv, TypeOK, tables, provider, history
<1>3. CASE FindConversation(w)
  <2>1. rest[w] # <<>> /\ IsMessage(Head(rest[w])) /\ tenant[w] \in Tenants
    BY <1>3 DEF FindConversation, At, TypeInv, TypeOK
  <2>2. ActorsTyped'
    <3>1. CASE Reply(w)
      BY <1>3, <2>1, <3>1, ReplyTyped DEF FindConversation, provider
    <3>2. CASE ~Reply(w)
      <4>1. pc' = [pc EXCEPT ![w] = "open"] /\ UNCHANGED <<body, rest, locals, out>>
        BY <1>3, <3>2 DEF FindConversation, Goto, provider
      <4> QED BY <2>1, <4>1, WhatsAppConstants DEF locals, TypeInv, TypeOK, BatchesTyped,
              Bot, Sending, Actors, Current, ActorsTyped
    <3> QED BY <3>1, <3>2
  <2> QED BY <1>3, <2>2 DEF FindConversation, ActorsTyped, TypeInv, TypeOK, tables, provider, history
<1>4. CASE OpenConversation(w)
  <2>1. rest[w] # <<>> /\ IsMessage(Head(rest[w])) /\ tenant[w] \in Tenants
    BY <1>4 DEF OpenConversation, At, TypeInv, TypeOK
  <2>2. rest[w] \in Seq(Events)
    BY DEF TypeInv, BatchesTyped
  <2>3. Current(w) \in Incoming
    BY <2>1, <2>2, HeadOrTail, EventKinds DEF Current
  <2>4. ActorsTyped' /\ opened' \in [Incoming -> Tenants \cup {None}] /\ dropped' \subseteq Incoming
    <3>1. CASE opened[Current(w)] # None
      BY <1>4, <2>1, <3>1, GiveUpTyped DEF OpenConversation, provider, TypeInv, TypeOK
    <3>2. CASE opened[Current(w)] = None
      <4>1. ActorsTyped'
        BY <1>4, <2>1, <3>2, SayTyped DEF OpenConversation, provider
      <4> QED BY <1>4, <2>1, <2>3, <3>2, <4>1 DEF OpenConversation, TypeInv, TypeOK
    <3> QED BY <3>1, <3>2
  <2> QED BY <1>4, <2>4 DEF OpenConversation, ActorsTyped, TypeInv, TypeOK, provider
<1>5. CASE UpdateStatus(w)
  <2> DEFINE e == Head(rest[w])
  <2>1. rest[w] \in Seq(Events) /\ rest[w] # <<>> /\ ~IsMessage(e)
    BY <1>5 DEF UpdateStatus, TypeInv, BatchesTyped
  <2>2. e \in Events /\ e.sent \in Outbound /\ e.status \in Range(Statuses)
        /\ e = StatusEvent(e.sent, e.status)
    BY <2>1, HeadOrTail, EventKinds
  <2>3. /\ row' \in [Outbound -> Range(Statuses) \cup {None}]
        /\ \A o \in Outbound : row'[o] # None => out[o] # None
        /\ recorded' \subseteq Events
    <3>1. CASE row[e.sent] = None
      BY <1>5, <3>1 DEF UpdateStatus, TypeInv, TypeOK
    <3>2. CASE row[e.sent] # None
      <4>1. row' = [row EXCEPT ![e.sent] = e.status] /\ recorded' = recorded \cup {e}
        BY <1>5, <2>2, <3>2 DEF UpdateStatus, Store
      <4> QED BY <2>2, <3>2, <4>1 DEF TypeInv, TypeOK
    <3> QED BY <3>1, <3>2
  <2>4. ActorsTyped'
    <3>1. CASE row[e.sent] = None
      BY <1>5, <3>1, AnswerTyped DEF UpdateStatus, provider
    <3>2. CASE row[e.sent] # None
      BY <1>5, <2>1, <3>2, NextEventTyped DEF UpdateStatus, provider
    <3> QED BY <3>1, <3>2
  <2> QED BY <1>5, <2>3, <2>4 DEF UpdateStatus, ActorsTyped, TypeInv, TypeOK, provider
<1>6. CASE Acknowledge(w)
  <2>1. ActorsTyped'
    BY <1>6, AnswerTyped DEF Acknowledge
  <2>2. answered' \subseteq Events /\ inbox' \subseteq Events
    BY <1>6 DEF Acknowledge, TypeInv, TypeOK, BatchesTyped
  <2> QED BY <1>6, <2>1, <2>2 DEF Acknowledge, ActorsTyped, TypeInv, TypeOK, tables
<1> QED BY <1>1, <1>2, <1>3, <1>4, <1>5, <1>6 DEF Handle

\* What sends a message.
LEMMA SendTyped ==
    ASSUME TypeInv, NEW a \in Actors, Send(a)
    PROVE  TypeInv'
<1>0. /\ a \in Workers => a \notin Callers
      /\ a \notin Workers => a \in Callers
      /\ rest[a] \in Seq(Events)
  BY WhatsAppConstants DEF Actors, TypeInv, BatchesTyped
<1>1. ASSUME pc[a] \in Sending
      PROVE  /\ tenant[a] \in Tenants /\ saying[a] \in Saying
             /\ a \in Workers => rest[a] # <<>> /\ IsMessage(Head(rest[a]))
  BY <1>1 DEF TypeInv, Bot
<1>2. CASE ConfigOf(a)
  <2>1. ActorsTyped' /\ dropped' \subseteq Incoming
    <3>1. CASE GiveUp(a)
      BY <1>1, <1>2, <3>1, GiveUpTyped DEF ConfigOf, At, Sending, provider
    <3>2. CASE ~GiveUp(a)
      <4>1. /\ pc[a] = "configOf" /\ pc' = [pc EXCEPT ![a] = "post"]
            /\ UNCHANGED <<body, rest, locals, out, dropped>>
        BY <1>2, <3>2 DEF ConfigOf, At, Goto, provider
      <4> QED BY <1>0, <4>1 DEF locals, TypeInv, TypeOK, BatchesTyped, Bot, Sending, Actors,
              Current, ActorsTyped
    <3> QED BY <3>1, <3>2
  <2> QED BY <1>2, <2>1 DEF ConfigOf, ActorsTyped, TypeInv, TypeOK, tables, provider
<1>3. CASE Post(a)
  <2>1. PICK o \in Outbound : /\ out[o] = None /\ out' = [out EXCEPT ![o] = saying[a]]
                              /\ id' = [id EXCEPT ![a] = o]
    BY <1>3 DEF Post
  <2>2. /\ pc[a] = "post" /\ pc' = [pc EXCEPT ![a] = "save"]
        /\ UNCHANGED <<tables, reported, inbox, body, rest, tenant, saying, calls, history>>
    BY <1>3 DEF Post, At, Goto
  <2>3. saying[a] \in Saying
    BY <1>1, <2>2 DEF Sending
  <2>4. \A x \in Actors : pc[x] = "save" => out'[id[x]] = saying[x]
    BY <2>1, NoneIsNotSaid DEF TypeInv, TypeOK, Bot, Sending
  <2>5. \A x \in Outbound : row[x] # None => out'[x] # None
    BY <2>1, <2>3, NoneIsNotSaid DEF TypeInv, TypeOK
  <2>6. out' \in [Outbound -> Saying \cup {None}]
    BY <2>1, <2>3 DEF TypeInv, TypeOK
  <2>7. id' \in [Actors -> Outbound \cup {None}] /\ out'[id'[a]] = saying[a] /\ id'[a] \in Outbound
    BY <2>1 DEF TypeInv, TypeOK
  <2>8. Bot'
    BY <1>0, <2>1, <2>2, <2>4, <2>7 DEF TypeInv, TypeOK, Bot, Sending, Actors, Current
  <2> QED BY <2>1, <2>2, <2>5, <2>6, <2>7, <2>8 DEF tables, history, TypeInv, TypeOK, BatchesTyped
<1>4. CASE SaveMessage(a)
  <2>1. pc[a] = "save" /\ row' = [row EXCEPT ![id[a]] = "sent"]
        /\ UNCHANGED <<feature, config, opened, provider, calls, history>>
    BY <1>4 DEF SaveMessage, At
  <2>2. id[a] \in Outbound /\ out[id[a]] # None
    BY <1>1, <2>1, NoneIsNotSaid DEF TypeInv, Bot, Sending
  <2>3. /\ row' \in [Outbound -> Range(Statuses) \cup {None}]
        /\ \A x \in Outbound : row'[x] # None => out[x] # None
    BY <2>1, <2>2, SentIsStatus DEF TypeInv, TypeOK
  <2>4. ActorsTyped'
    BY <1>0, <1>1, <1>4, <2>1, AnswerTyped, ReplyTyped, NextEventTyped
       DEF SaveMessage, provider, Sending
  <2> QED BY <2>1, <2>3, <2>4 DEF ActorsTyped, TypeInv, TypeOK, provider, history
<1>5. CASE Fail(a)
  <2>1. UNCHANGED <<tables, provider, calls, answered, recorded, crossed>>
    BY <1>5 DEF Fail
  <2>2. ActorsTyped' /\ dropped' \subseteq Incoming
    <3>1. CASE Answer(a) /\ UNCHANGED dropped
      BY <2>1, <3>1, AnswerTyped DEF provider, TypeInv, TypeOK
    <3>2. CASE GiveUp(a) /\ pc[a] \in {"findConversation", "open", "configOf", "post", "save"}
      <4>1. a \in Workers => rest[a] # <<>> /\ IsMessage(Head(rest[a]))
        BY <1>1, <3>2 DEF TypeInv, TypeOK, Sending
      <4> QED BY <2>1, <3>2, <4>1, GiveUpTyped DEF provider
    <3> QED BY <1>5, <3>1, <3>2 DEF Fail
  <2> QED BY <2>1, <2>2 DEF ActorsTyped, TypeInv, TypeOK, tables, provider
<1> QED BY <1>2, <1>3, <1>4, <1>5 DEF Send
\* The requests, which handle no message of a customer.
LEMMA ServeTyped ==
    ASSUME TypeInv, NEW c \in Callers, Serve(c)
    PROVE  TypeInv'
<1> c \in Actors /\ c \notin Workers
  BY WhatsAppConstants DEF Actors
<1>1. CASE SendTemplate(c)
  <2>1. PICK t \in Tenants, to \in Customers : Say(c, t, "template", to, None)
    BY <1>1 DEF SendTemplate
  <2> DEFINE x == [kind |-> "template", to |-> to, about |-> None]
  <2>2. x \in Saying /\ x.kind = "template"
    BY DEF Saying
  <2>3. /\ pc' = [pc EXCEPT ![c] = "configOf"] /\ tenant' = [tenant EXCEPT ![c] = t]
        /\ saying' = [saying EXCEPT ![c] = x] /\ id' = [id EXCEPT ![c] = None]
    BY <2>1 DEF Say, Goto, SetLocals
  <2>4. UNCHANGED <<tables, provider, body, rest, calls, history>>
    BY <1>1 DEF SendTemplate
  <2> HIDE DEF x
  <2>5. ActorsTyped'
    BY <2>2, <2>3, <2>4 DEF provider, TypeInv, TypeOK, BatchesTyped, Bot, Sending, Actors, Current,
       ActorsTyped
  <2> QED BY <2>4, <2>5 DEF ActorsTyped, TypeInv, TypeOK, tables, provider, history
<1>2. CASE StartConfigure(c)
  <2>1. PICK t \in Tenants : SetLocals(c, t, None, None)
    BY <1>2 DEF StartConfigure
  <2>2. ActorsTyped'
    BY <1>2, <2>1 DEF StartConfigure, SetLocals, Goto, provider, TypeInv, TypeOK, BatchesTyped, Bot,
       Sending, Actors, Current, ActorsTyped
  <2> QED BY <1>2, <2>2 DEF StartConfigure, ActorsTyped, TypeInv, TypeOK, tables, provider, history
<1>3. CASE FindExisting(c)
  <2>1. ActorsTyped'
    BY <1>3 DEF FindExisting, At, Goto, locals, provider, TypeInv, TypeOK, BatchesTyped, Bot,
       Sending, Actors, Current, ActorsTyped
  <2> QED BY <1>3, <2>1 DEF FindExisting, ActorsTyped, TypeInv, TypeOK, tables, provider, history
<1>4. CASE WriteConfig(c)
  <2>1. ActorsTyped'
    BY <1>4, AnswerTyped DEF WriteConfig, provider
  <2>2. config' \in [Tenants -> Config \cup {None}]
    BY <1>4 DEF WriteConfig, TypeInv, TypeOK, Bot
  <2> QED BY <1>4, <2>1, <2>2 DEF WriteConfig, ActorsTyped, TypeInv, TypeOK, provider, history
<1>5. CASE UpdateFeatures(c)
  <2>1. ActorsTyped'
    BY <1>5, AnswerTyped DEF UpdateFeatures, provider
  <2>2. feature' \subseteq Tenants
    BY <1>5 DEF UpdateFeatures, TypeInv, TypeOK
  <2> QED BY <1>5, <2>1, <2>2 DEF UpdateFeatures, ActorsTyped, TypeInv, TypeOK, provider, history
<1> QED BY <1>1, <1>2, <1>3, <1>4, <1>5 DEF Serve

\* There is a next status, if the provider reports one.
LEMMA ReportBound ==
    ASSUME TypeInv, NEW o \in Outbound, Report(o)
    PROVE  Len(reported[o]) < 3
<1> DEFINE m == Min({MaxReports, 3})
<1>1. Len(reported[o]) \in Nat
  BY DEF TypeInv
<1>2. m <= 3 /\ m \in Int
  <2>1. \E x \in {MaxReports, 3} : \A y \in {MaxReports, 3} : x <= y
    BY WhatsAppConstants
  <2> QED BY <2>1, WhatsAppConstants DEF Min
<1>3. Len(reported[o]) < m
  BY DEF Report, Statuses
<1> HIDE DEF m
<1> QED BY <1>1, <1>2, <1>3

\* The reports of the provider.
LEMMA ReportTyped ==
    ASSUME TypeInv, NEW o \in Outbound, Report(o)
    PROVE  TypeInv'
<1> DEFINE s == Statuses[Len(reported[o]) + 1]
<1>1. Len(reported[o]) \in Nat /\ reported[o] \in Seq(Range(Statuses))
  BY DEF TypeInv
<1>2. Len(reported[o]) < 3
  BY ReportBound
<1>3. s \in Range(Statuses)
  BY <1>1, <1>2 DEF Statuses, Range
<1>4. /\ reported' = [reported EXCEPT ![o] = Append(@, s)]
      /\ inbox' = inbox \cup {StatusEvent(o, s)}
      /\ UNCHANGED <<tables, out, pc, body, rest, locals, calls, history>>
  BY DEF Report
<1> HIDE DEF s
<1>5. Append(reported[o], s) \in Seq(Range(Statuses))
  BY <1>1, <1>3
<1>6. inbox' \subseteq Events
  BY <1>3, <1>4 DEF TypeInv, TypeOK, Events
<1> QED BY <1>4, <1>5, <1>6 DEF TypeInv, TypeOK, BatchesTyped, Bot, Sending, Current, tables,
        locals, history

\* A restart.
LEMMA RestartTyped == TypeInv /\ Restart => TypeInv'
  BY WhatsAppConstants DEF Restart, At, Actors, tables, provider, history, TypeInv, TypeOK,
     BatchesTyped, Bot, Sending

\* Every step keeps the types.
LEMMA NextTyped == TypeInv /\ [Next]_vars => TypeInv'
<1>1. TypeInv /\ UNCHANGED vars => TypeInv'
  BY DEF vars, tables, provider, locals, history, TypeInv, TypeOK, BatchesTyped, Bot, Sending,
     Current
<1> QED BY <1>1, HandleTyped, SendTyped, ServeTyped, ReportTyped, RestartTyped DEF Next

\* Whatever is delivered, fails or restarts, every variable keeps its type,
\* and only what the provider has accepted is stored as sent.
THEOREM WhatsAppTyped == Spec => []TypeOK
<1>1. TypeInv => TypeOK
  BY DEF TypeInv
<1> QED BY <1>1, InitTyped, NextTyped, PTL DEF Spec

------------------------------------------------------------------------------
(* What stays *)

\* What has been opened, sent, given up or recorded stays so.
Stays ==
    /\ \A m \in Incoming : opened[m] # None => opened'[m] = opened[m]
    /\ \A o \in Outbound : out[o] # None => out'[o] = out[o]
    /\ dropped \subseteq dropped'
    /\ recorded \subseteq recorded'

\* No step takes any of it back.
LEMMA NextStays == TypeInv /\ [Next]_vars => Stays
<1> SUFFICES ASSUME TypeInv, [Next]_vars PROVE Stays
  OBVIOUS
<1>1. ASSUME NEW w \in Workers, Handle(w) PROVE Stays
  <2>1. UNCHANGED out /\ dropped \subseteq dropped'
    BY <1>1 DEF Handle, Deliver, FindConfig, FindConversation, OpenConversation, UpdateStatus,
                Acknowledge, GiveUp, provider, history
  <2>2. recorded \subseteq recorded'
    BY <1>1 DEF Handle, Deliver, FindConfig, FindConversation, OpenConversation, UpdateStatus,
                Acknowledge, Store, history
  <2>3. \A m \in Incoming : opened[m] # None => opened'[m] = opened[m]
    BY <1>1 DEF Handle, Deliver, FindConfig, FindConversation, OpenConversation, UpdateStatus,
                Acknowledge, tables, TypeInv, TypeOK
  <2> QED BY <2>1, <2>2, <2>3 DEF Stays
<1>2. ASSUME NEW a \in Actors, Send(a) PROVE Stays
  <2>1. UNCHANGED opened /\ UNCHANGED recorded /\ dropped \subseteq dropped'
    BY <1>2 DEF Send, ConfigOf, Post, SaveMessage, Fail, GiveUp, tables, history
  <2>2. \A o \in Outbound : out[o] # None => out'[o] = out[o]
    BY <1>2 DEF Send, ConfigOf, Post, SaveMessage, Fail, provider, TypeInv, TypeOK
  <2> QED BY <2>1, <2>2 DEF Stays
<1>3. ASSUME NEW c \in Callers, Serve(c) PROVE Stays
  BY <1>3 DEF Serve, SendTemplate, StartConfigure, FindExisting, WriteConfig, UpdateFeatures,
              tables, provider, history, Stays
<1>4. ASSUME (\E o \in Outbound : Report(o)) \/ Restart \/ UNCHANGED vars PROVE Stays
  BY <1>4 DEF Report, Restart, vars, tables, provider, history, Stays
<1> QED BY <1>1, <1>2, <1>3, <1>4 DEF Next

\* What is done stays done.
LEMMA DoneStays ==
    ASSUME Stays, NEW e \in Events, Done(e)
    PROVE  Done(e)'
<1>1. CASE IsMessage(e)
  <2>1. e.message \in Incoming
    BY <1>1, EventKinds
  <2>2. \A t \in Tenants : HasConversation(t, Sender[e.message])
                              => HasConversation(t, Sender[e.message])'
    BY WhatsAppConstants DEF HasConversation, Stays
  <2>3. \A o \in Outbound : out[o] # None => out'[o] = out[o]
    BY DEF Stays
  <2> QED BY <1>1, <2>2, <2>3 DEF Done, Stays
<1>2. CASE ~IsMessage(e)
  BY <1>2 DEF Done, Stays
<1> QED BY <1>1, <1>2

------------------------------------------------------------------------------
(* Welcomes *)

Welcomed(o, m) == out[o] # None /\ out[o].kind = "welcome" /\ out[o].about = m
Welcoming(a, m) == /\ pc[a] \in {"configOf", "post"}
                   /\ saying[a].kind = "welcome" /\ saying[a].about = m

\* A welcome that was sent, or will be, is for a conversation that the message
\* has opened, and is the only one.
WelcomeInv ==
    /\ \A o \in Outbound : out[o] # None /\ out[o].kind = "welcome" => out[o].about \in Incoming
    /\ \A m \in Incoming :
        /\ \A o \in Outbound : Welcomed(o, m) => opened[m] # None
        /\ \A a \in Workers : Welcoming(a, m) => opened[m] # None
        /\ \A o, x \in Outbound : Welcomed(o, m) /\ Welcomed(x, m) => o = x
        /\ \A a \in Workers, o \in Outbound : ~(Welcoming(a, m) /\ Welcomed(o, m))
        /\ \A a, b \in Workers : Welcoming(a, m) /\ Welcoming(b, m) => a = b

\* A step that neither sends nor is about to send another welcome.
LEMMA QuietKeepsWelcomes ==
    ASSUME WelcomeInv, Stays, UNCHANGED out,
           \A b \in Workers, m \in Incoming : Welcoming(b, m)' => Welcoming(b, m)
    PROVE  WelcomeInv'
<1>1. \A o \in Outbound, m \in Incoming : Welcomed(o, m)' <=> Welcomed(o, m)
  BY DEF Welcomed
<1>2. \A m \in Incoming : opened[m] # None => opened'[m] # None
  BY DEF Stays
<1> QED BY <1>1, <1>2 DEF WelcomeInv

\* A conversation that is opened was not there before.
LEMMA OpenKeepsWelcomes ==
    ASSUME TypeInv, WelcomeInv, Stays, NEW w \in Workers, OpenConversation(w)
    PROVE  WelcomeInv'
<1>1. UNCHANGED out /\ pc[w] = "open" /\ w \in Actors
  BY DEF OpenConversation, At, provider, Actors
<1>2. \A b \in Workers \ {w} : pc'[b] = pc[b] /\ saying'[b] = saying[b]
  BY DEF OpenConversation, GiveUp, NextEvent, Say, SetLocals, Goto, TypeInv, TypeOK, Actors
<1>3. CASE opened[Current(w)] # None
  <2>1. pc'[w] = "event"
    BY <1>1, <1>3 DEF OpenConversation, GiveUp, NextEvent, Goto, TypeInv, TypeOK
  <2> QED BY <1>1, <1>2, <2>1, QuietKeepsWelcomes DEF Welcoming
<1>4. CASE opened[Current(w)] = None
  <2> DEFINE n == Current(w)
  <2>1. n \in Incoming /\ tenant[w] # None
    <3>1. rest[w] \in Seq(Events) /\ rest[w] # <<>> /\ IsMessage(Head(rest[w])) /\ tenant[w] # None
      BY <1>1 DEF TypeInv, TypeOK, BatchesTyped
    <3> QED BY <3>1, HeadOrTail, EventKinds DEF Current
  <2>2. /\ opened' = [opened EXCEPT ![n] = tenant[w]]
        /\ saying'[w].about = n
    BY <1>1, <1>4 DEF OpenConversation, Say, SetLocals, TypeInv, TypeOK
  <2> HIDE DEF n
  <2>3. /\ \A b \in Workers : ~Welcoming(b, n)
        /\ \A o \in Outbound : ~Welcomed(o, n)
    BY <1>4, <2>1 DEF WelcomeInv, n
  <2>4. \A o \in Outbound, m \in Incoming : Welcomed(o, m)' <=> Welcomed(o, m)
    BY <1>1 DEF Welcomed
  <2>5. \A b \in Workers, m \in Incoming :
          Welcoming(b, m)' => (b # w /\ Welcoming(b, m)) \/ (b = w /\ m = n)
    BY <1>2, <2>2 DEF Welcoming
  <2>6. opened'[n] # None /\ \A m \in Incoming : opened[m] # None => opened'[m] # None
    BY <2>1, <2>2 DEF Stays, TypeInv, TypeOK
  <2>7. \A o \in Outbound : out'[o] # None /\ out'[o].kind = "welcome" => out'[o].about \in Incoming
    BY <1>1 DEF WelcomeInv
  <2>8. ASSUME NEW m \in Incoming
        PROVE  /\ \A o \in Outbound : Welcomed(o, m)' => opened'[m] # None
               /\ \A a \in Workers : Welcoming(a, m)' => opened'[m] # None
               /\ \A o, x \in Outbound : Welcomed(o, m)' /\ Welcomed(x, m)' => o = x
               /\ \A a \in Workers, o \in Outbound : ~(Welcoming(a, m)' /\ Welcomed(o, m)')
               /\ \A a, b \in Workers : Welcoming(a, m)' /\ Welcoming(b, m)' => a = b
    <3>1. /\ \A o \in Outbound : Welcomed(o, m) => opened[m] # None
          /\ \A a \in Workers : Welcoming(a, m) => opened[m] # None
          /\ \A o, x \in Outbound : Welcomed(o, m) /\ Welcomed(x, m) => o = x
          /\ \A a \in Workers, o \in Outbound : ~(Welcoming(a, m) /\ Welcomed(o, m))
          /\ \A a, b \in Workers : Welcoming(a, m) /\ Welcoming(b, m) => a = b
      BY DEF WelcomeInv
    <3> QED BY <2>3, <2>4, <2>5, <2>6, <3>1
  <2> QED BY <2>7, <2>8 DEF WelcomeInv
<1> QED BY <1>3, <1>4

\* A welcome that is sent is no longer about to be sent.
LEMMA PostKeepsWelcomes ==
    ASSUME TypeInv, WelcomeInv, Stays, NEW a \in Actors, Post(a)
    PROVE  WelcomeInv'
<1>1. PICK o \in Outbound : out[o] = None /\ out' = [out EXCEPT ![o] = saying[a]]
  BY DEF Post
<1>2. pc[a] = "post" /\ pc' = [pc EXCEPT ![a] = "save"] /\ UNCHANGED <<saying, opened>>
  BY DEF Post, At, Goto, tables
<1>3. \A b \in Workers, m \in Incoming :
        Welcoming(b, m)' => b # a /\ Welcoming(b, m)
  BY <1>2 DEF Welcoming, TypeInv, TypeOK
<1>4. saying[a] \in Saying /\ (a \notin Workers => saying[a].kind = "template")
  BY <1>2 DEF TypeInv, Bot, Sending, Actors
<1>5. \A x \in Outbound \ {o}, m \in Incoming : Welcomed(x, m)' <=> Welcomed(x, m)
  BY <1>1 DEF Welcomed, TypeInv, TypeOK
<1>6. \A m \in Incoming : Welcomed(o, m)' => a \in Workers /\ Welcoming(a, m)
  BY <1>1, <1>2, <1>4 DEF Welcomed, Welcoming, TypeInv, TypeOK
<1>7. \A m \in Incoming : ~Welcomed(o, m)
  BY <1>1 DEF Welcomed
<1>8. \A x \in Outbound : out'[x] # None /\ out'[x].kind = "welcome" => out'[x].about \in Incoming
  <2>1. ASSUME a \in Workers PROVE saying[a].about \in Incoming
    <3>1. rest[a] \in Seq(Events) /\ rest[a] # <<>> /\ IsMessage(Head(rest[a]))
          /\ saying[a].about = Current(a)
      BY <1>2, <2>1 DEF TypeInv, BatchesTyped, Bot, Sending
    <3> QED BY <3>1, HeadOrTail, EventKinds DEF Current
  <2> QED BY <1>1, <1>4, <2>1 DEF WelcomeInv, TypeInv, TypeOK
<1>9. ASSUME NEW m \in Incoming
      PROVE  /\ \A x \in Outbound : Welcomed(x, m)' => opened'[m] # None
             /\ \A b \in Workers : Welcoming(b, m)' => opened'[m] # None
             /\ \A x, y \in Outbound : Welcomed(x, m)' /\ Welcomed(y, m)' => x = y
             /\ \A b \in Workers, x \in Outbound : ~(Welcoming(b, m)' /\ Welcomed(x, m)')
             /\ \A b, c \in Workers : Welcoming(b, m)' /\ Welcoming(c, m)' => b = c
  <2>1. /\ \A x \in Outbound : Welcomed(x, m) => opened[m] # None
        /\ \A b \in Workers : Welcoming(b, m) => opened[m] # None
        /\ \A x, y \in Outbound : Welcomed(x, m) /\ Welcomed(y, m) => x = y
        /\ \A b \in Workers, x \in Outbound : ~(Welcoming(b, m) /\ Welcomed(x, m))
        /\ \A b, c \in Workers : Welcoming(b, m) /\ Welcoming(c, m) => b = c
    BY DEF WelcomeInv
  <2> QED BY <1>2, <1>3, <1>5, <1>6, <2>1
<1> QED BY <1>8, <1>9 DEF WelcomeInv

\* Every step keeps welcomes unique.
LEMMA NextKeepsWelcomes == TypeInv /\ WelcomeInv /\ [Next]_vars => WelcomeInv'
<1> SUFFICES ASSUME TypeInv, WelcomeInv, [Next]_vars PROVE WelcomeInv'
  OBVIOUS
<1>0. Stays
  BY NextStays
<1>1. ASSUME NEW w \in Workers, Handle(w) PROVE WelcomeInv'
  <2>1. CASE OpenConversation(w)
    BY <1>0, <2>1, OpenKeepsWelcomes
  <2>2. CASE Deliver(w) \/ FindConfig(w) \/ UpdateStatus(w) \/ Acknowledge(w)
    <3>1. UNCHANGED out /\ pc'[w] \notin {"configOf", "post"}
          /\ \A b \in Workers \ {w} : pc'[b] = pc[b] /\ saying'[b] = saying[b]
      BY <2>2 DEF Deliver, FindConfig, UpdateStatus, Acknowledge, Answer, NextEvent, Goto,
                  SetLocals, provider, locals, TypeInv, TypeOK, Actors
    <3> QED BY <1>0, <3>1, QuietKeepsWelcomes DEF Welcoming
  <2>3. CASE FindConversation(w)
    <3>1. /\ UNCHANGED out
          /\ pc'[w] \in {"configOf", "post"} => saying'[w].kind = "reply"
          /\ \A b \in Workers \ {w} : pc'[b] = pc[b] /\ saying'[b] = saying[b]
      BY <2>3 DEF FindConversation, Reply, Say, NextEvent, Goto, SetLocals, provider, locals,
                  TypeInv, TypeOK, Actors
    <3> QED BY <1>0, <3>1, QuietKeepsWelcomes DEF Welcoming
  <2> QED BY <1>1, <2>1, <2>2, <2>3 DEF Handle
<1>2. ASSUME NEW a \in Actors, Send(a) PROVE WelcomeInv'
  <2>1. CASE Post(a)
    BY <1>0, <2>1, PostKeepsWelcomes
  <2>2. CASE ConfigOf(a)
    <3>1. /\ UNCHANGED out /\ pc[a] = "configOf"
          /\ pc'[a] \in {"configOf", "post"} => saying'[a] = saying[a]
          /\ \A b \in Actors \ {a} : pc'[b] = pc[b] /\ saying'[b] = saying[b]
      BY <2>2 DEF ConfigOf, At, GiveUp, Answer, NextEvent, Goto, SetLocals, provider, locals,
                  TypeInv, TypeOK
    <3> QED BY <1>0, <3>1, QuietKeepsWelcomes DEF Welcoming, Actors
  <2>3. CASE SaveMessage(a)
    <3>1. /\ UNCHANGED out
          /\ pc'[a] \in {"configOf", "post"} => saying'[a].kind = "reply"
          /\ \A b \in Actors \ {a} : pc'[b] = pc[b] /\ saying'[b] = saying[b]
      BY <2>3 DEF SaveMessage, Reply, Say, Answer, NextEvent, Goto, SetLocals, provider, TypeInv,
                  TypeOK
    <3> QED BY <1>0, <3>1, QuietKeepsWelcomes DEF Welcoming, Actors
  <2>4. CASE Fail(a)
    <3>1. /\ UNCHANGED out /\ pc'[a] \notin {"configOf", "post"}
          /\ \A b \in Actors \ {a} : pc'[b] = pc[b] /\ saying'[b] = saying[b]
      BY <2>4 DEF Fail, GiveUp, Answer, NextEvent, Goto, SetLocals, provider, TypeInv, TypeOK
    <3> QED BY <1>0, <3>1, QuietKeepsWelcomes DEF Welcoming, Actors
  <2> QED BY <1>2, <2>1, <2>2, <2>3, <2>4 DEF Send
<1>3. ASSUME NEW c \in Callers, Serve(c) PROVE WelcomeInv'
  <2>1. /\ UNCHANGED out
        /\ \A b \in Workers : pc'[b] = pc[b] /\ saying'[b] = saying[b]
    BY <1>3, WhatsAppConstants
       DEF Serve, SendTemplate, StartConfigure, FindExisting, WriteConfig, UpdateFeatures,
           Say, Answer, Goto, SetLocals, provider, locals, TypeInv, TypeOK, Actors
  <2> QED BY <1>0, <2>1, QuietKeepsWelcomes DEF Welcoming
<1>4. ASSUME (\E o \in Outbound : Report(o)) \/ UNCHANGED vars PROVE WelcomeInv'
  <2>1. UNCHANGED <<out, pc, saying>>
    BY <1>4 DEF Report, vars, provider, locals
  <2> QED BY <1>0, <2>1, QuietKeepsWelcomes DEF Welcoming
<1>5. ASSUME Restart PROVE WelcomeInv'
  <2>1. UNCHANGED out /\ \A b \in Workers : pc'[b] = "idle"
    BY <1>5 DEF Restart, provider, Actors
  <2> QED BY <1>0, <2>1, QuietKeepsWelcomes DEF Welcoming
<1> QED BY <1>1, <1>2, <1>3, <1>4, <1>5 DEF Next

\* However often a message is delivered, by however many webhooks at once, and
\* whatever fails: its sender is welcomed for it at most once.
THEOREM WelcomesOnce == Spec => []WelcomesAreNotRepeated
<1>1. Init => WelcomeInv
  BY DEF Init, WelcomeInv, Welcomed, Welcoming, At
<1>2. WelcomeInv => WelcomesAreNotRepeated
  BY DEF WelcomeInv, WelcomesAreNotRepeated, Welcomed
<1> QED BY <1>1, <1>2, InitTyped, NextTyped, NextKeepsWelcomes, PTL DEF Spec

------------------------------------------------------------------------------
(* What is answered is done *)

\* The events of a webhook that are no longer to be handled have been.
BatchesDone ==
    \A w \in Workers : \A e \in body[w] : e \in Range(rest[w]) \/ Done(e)

\* What is sent to a customer belongs to a conversation.
InConversation ==
    \A w \in Workers : pc[w] \in Sending =>
        \E t \in Tenants : HasConversation(t, Sender[Current(w)])

DoneInv == AnsweredMeansDone /\ BatchesDone /\ InConversation

\* An event that was handled may go.
LEMMA PopKeepsBatches ==
    ASSUME TypeInv, BatchesDone, Stays, NEW w \in Workers, NextEvent(w),
           rest[w] # <<>>, NEW h \in Events, h = Head(rest[w]), Done(h)'
    PROVE  BatchesDone'
<1>1. rest[w] \in Seq(Events) /\ body \in [Actors -> SUBSET Events] /\ w \in Actors
  BY DEF TypeInv, BatchesTyped, Actors
<1>2. UNCHANGED body /\ rest' = [rest EXCEPT ![w] = Tail(rest[w])] /\ rest \in [Actors -> Seq(Events)]
  BY DEF NextEvent, TypeInv, BatchesTyped
<1>3. ASSUME NEW v \in Workers, NEW e \in body[v], e \notin Range(rest'[v]) PROVE Done(e)'
  <2>1. e \in Events /\ v \in Actors
    BY <1>1 DEF Actors
  <2>2. CASE e \notin Range(rest[v])
    BY <1>3, <2>1, <2>2, DoneStays DEF BatchesDone
  <2>3. CASE e \in Range(rest[v])
    <3>1. v = w
      BY <1>2, <1>3, <2>1, <2>3
    <3>2. rest'[w] = Tail(rest[w])
      BY <1>1, <1>2
    <3>3. e = Head(rest[w])
      BY <1>1, <1>3, <2>3, <3>1, <3>2, HeadOrTail
    <3> QED BY <3>3
  <2> QED BY <2>2, <2>3
<1> QED BY <1>2, <1>3 DEF BatchesDone
\* So may all events of a webhook, once it is answered or has failed.
LEMMA AnswerKeepsBatches ==
    ASSUME TypeInv, BatchesDone, Stays, NEW a \in Actors, Answer(a)
    PROVE  BatchesDone'
<1>1. body' = [body EXCEPT ![a] = {}] /\ rest' = [rest EXCEPT ![a] = <<>>]
  BY DEF Answer
<1>2. ASSUME NEW v \in Workers, NEW e \in body'[v], e \notin Range(rest'[v]) PROVE Done(e)'
  <2>1. v # a /\ body'[v] = body[v] /\ rest'[v] = rest[v]
    BY <1>1, <1>2 DEF TypeInv, BatchesTyped, Actors
  <2>2. e \in Events /\ Done(e)
    BY <1>2, <2>1 DEF BatchesDone, TypeInv, BatchesTyped, Actors
  <2> QED BY <2>2, DoneStays
<1> QED BY <1>2 DEF BatchesDone

\* Nothing else touches the batches.
LEMMA SameKeepsBatches ==
    ASSUME TypeInv, BatchesDone, Stays, UNCHANGED <<body, rest>>
    PROVE  BatchesDone'
<1>1. ASSUME NEW v \in Workers, NEW e \in body[v], e \notin Range(rest[v]) PROVE Done(e)'
  <2>1. e \in Events /\ Done(e)
    BY <1>1 DEF BatchesDone, TypeInv, BatchesTyped, Actors
  <2> QED BY <2>1, DoneStays
<1> QED BY <1>1 DEF BatchesDone

\* A message that has been given up is done with.
LEMMA GiveUpKeepsBatches ==
    ASSUME TypeInv, BatchesDone, Stays, NEW a \in Actors, GiveUp(a),
           a \in Workers => rest[a] # <<>> /\ IsMessage(Head(rest[a]))
    PROVE  BatchesDone'
<1>1. CASE a \in Workers
  <2>1. PICK h \in Events : h = Head(rest[a])
    BY <1>1, HeadOrTail DEF TypeInv, BatchesTyped
  <2>2. h.message \in dropped' /\ IsMessage(h)
    BY <1>1, <2>1 DEF GiveUp, Current
  <2>3. Done(h)'
    BY <2>2 DEF Done
  <2> QED BY <1>1, <2>1, <2>3, PopKeepsBatches DEF GiveUp
<1>2. CASE a \notin Workers
  BY <1>2, AnswerKeepsBatches DEF GiveUp
<1> QED BY <1>1, <1>2

\* So is one that does not greet, in a conversation.
LEMMA ReplyKeepsBatches ==
    ASSUME TypeInv, BatchesDone, Stays, NEW w \in Workers, Reply(w),
           rest[w] # <<>>, IsMessage(Head(rest[w])),
           NEW t \in Tenants, NEW c \in Customers, c = Sender[Current(w)], HasConversation(t, c)'
    PROVE  BatchesDone'
<1>1. CASE Current(w) \in Greets
  BY <1>1, SameKeepsBatches DEF Reply
<1>2. CASE Current(w) \notin Greets
  <2>1. PICK h \in Events : h = Head(rest[w])
    BY HeadOrTail DEF TypeInv, BatchesTyped, Actors
  <2>2. IsMessage(h) /\ h.message \notin Greets /\ c = Sender[h.message]
    BY <1>2, <2>1 DEF Current
  <2>3. Done(h)'
    BY <2>2 DEF Done
  <2> QED BY <1>2, <2>1, <2>3, PopKeepsBatches DEF Reply
<1> QED BY <1>1, <1>2

\* What has been answered stays done.
LEMMA SameKeepsAnswered ==
    ASSUME TypeInv, AnsweredMeansDone, Stays, UNCHANGED answered
    PROVE  AnsweredMeansDone'
<1>1. ASSUME NEW e \in answered PROVE Done(e)'
  BY <1>1, DoneStays DEF AnsweredMeansDone, TypeInv, TypeOK
<1> QED BY <1>1 DEF AnsweredMeansDone

\* Those who go on sending go on in the same conversation.
LEMMA SameConversation ==
    ASSUME TypeInv, InConversation, Stays,
           \A w \in Workers : pc'[w] \in Sending => rest'[w] = rest[w] /\ pc[w] \in Sending
    PROVE  InConversation'
<1>1. ASSUME NEW w \in Workers, pc'[w] \in Sending
      PROVE  \E t \in Tenants : HasConversation(t, Sender[Current(w)])'
  <2>1. PICK t \in Tenants : HasConversation(t, Sender[Current(w)])
    BY <1>1 DEF InConversation
  <2>2. PICK m \in Incoming : opened[m] = t /\ Sender[m] = Sender[Current(w)]
    BY <2>1 DEF HasConversation
  <2>3. opened'[m] = t /\ Current(w)' = Current(w)
    BY <1>1, <2>2, WhatsAppConstants DEF Stays, Current
  <2> QED BY <2>2, <2>3 DEF HasConversation
<1> QED BY <1>1 DEF InConversation
\* One webhook goes on, the others stay in their conversations.
LEMMA OneConversation ==
    ASSUME TypeInv, InConversation, Stays, NEW w \in Workers,
           \A v \in Workers \ {w} : pc'[v] = pc[v] /\ rest'[v] = rest[v],
           rest'[w] = rest[w], NEW t \in Tenants, NEW c \in Customers,
           c = Sender[Current(w)], HasConversation(t, c)'
    PROVE  InConversation'
<1>1. ASSUME NEW v \in Workers \ {w}, pc'[v] \in Sending
      PROVE  \E x \in Tenants : HasConversation(x, Sender[Current(v)])'
  <2>1. PICK x \in Tenants : HasConversation(x, Sender[Current(v)])
    BY <1>1 DEF InConversation
  <2>2. PICK m \in Incoming : opened[m] = x /\ Sender[m] = Sender[Current(v)]
    BY <2>1 DEF HasConversation
  <2>3. opened'[m] = x /\ Current(v)' = Current(v)
    BY <2>2, WhatsAppConstants DEF Stays, Current
  <2> QED BY <2>2, <2>3 DEF HasConversation
<1>2. Current(w)' = Current(w)
  BY DEF Current
<1>3. HasConversation(t, Sender[Current(w)])'
  BY <1>2 DEF HasConversation
<1> QED BY <1>1, <1>3 DEF InConversation

\* The handling of a message leaves behind what it should.
LEMMA HandleKeepsDone ==
    ASSUME TypeInv, DoneInv, Stays, NEW w \in Workers, Handle(w)
    PROVE  DoneInv'
<1>0. /\ w \in Actors /\ rest[w] \in Seq(Events)
      /\ AnsweredMeansDone /\ BatchesDone /\ InConversation
  BY DEF Actors, TypeInv, BatchesTyped, DoneInv
<1>1. CASE Deliver(w)
  <2>1. PICK n \in 1..MaxBatch : \E b \in [1..n -> inbox] :
          body' = [body EXCEPT ![w] = Range(b)] /\ rest' = [rest EXCEPT ![w] = b]
    BY <1>1 DEF Deliver
  <2>2. PICK b \in [1..n -> inbox] :
          body' = [body EXCEPT ![w] = Range(b)] /\ rest' = [rest EXCEPT ![w] = b]
    BY <2>1
  <2>3. ASSUME NEW v \in Workers, NEW e \in body'[v], e \notin Range(rest'[v]) PROVE Done(e)'
    <3>1. v # w /\ body'[v] = body[v] /\ rest'[v] = rest[v]
      BY <2>2, <2>3 DEF TypeInv, BatchesTyped, Actors
    <3>2. e \in Events /\ Done(e)
      BY <1>0, <2>3, <3>1 DEF BatchesDone, TypeInv, BatchesTyped, Actors
    <3> QED BY <3>2, DoneStays
  <2>4. BatchesDone'
    BY <2>3 DEF BatchesDone
  <2>5. \A v \in Workers : pc'[v] \in Sending => rest'[v] = rest[v] /\ pc[v] \in Sending
    BY <1>1, <2>2 DEF Deliver, Goto, Sending, TypeInv, TypeOK, BatchesTyped, Actors
  <2> QED BY <1>0, <1>1, <2>4, <2>5, SameKeepsAnswered, SameConversation DEF DoneInv, Deliver, history
<1>2. CASE FindConfig(w)
  <2>1. BatchesDone'
    BY <1>0, <1>2, AnswerKeepsBatches, SameKeepsBatches DEF FindConfig
  <2>2. \A v \in Workers : pc'[v] \in Sending => rest'[v] = rest[v] /\ pc[v] \in Sending
    BY <1>2 DEF FindConfig, Answer, Goto, Sending, TypeInv, TypeOK, BatchesTyped, Actors
  <2> QED BY <1>0, <1>2, <2>1, <2>2, SameKeepsAnswered, SameConversation
          DEF DoneInv, FindConfig, history
<1>3. CASE FindConversation(w)
  <2>1. pc[w] = "findConversation" /\ rest[w] # <<>> /\ IsMessage(Head(rest[w]))
        /\ tenant[w] \in Tenants
    BY <1>3 DEF FindConversation, At, TypeInv, TypeOK, Actors
  <2>2. Current(w) \in Incoming
    BY <1>0, <2>1, HeadOrTail, EventKinds DEF Current
  <2>3. PICK c \in Customers : c = Sender[Current(w)]
    BY <2>2, WhatsAppConstants
  <2>4. CASE HasConversation(tenant[w], c)
    <3>1. PICK t \in Tenants : t = tenant[w]
      BY <2>1
    <3>2. HasConversation(t, c)'
      BY <1>3, <2>4, <3>1 DEF FindConversation, HasConversation, tables
    <3>3. Reply(w)
      BY <1>3, <2>3, <2>4 DEF FindConversation
    <3>4. BatchesDone'
      BY <1>0, <2>1, <2>3, <3>2, <3>3, ReplyKeepsBatches
    <3>5. InConversation'
      <4>1. CASE Current(w) \in Greets
        <5>1. rest' = rest /\ pc' = [pc EXCEPT ![w] = "configOf"]
          BY <3>3, <4>1 DEF Reply, Say, Goto
        <5> QED BY <1>0, <2>3, <3>2, <5>1, OneConversation DEF TypeInv, TypeOK, Actors
      <4>2. CASE Current(w) \notin Greets
        <5>1. rest' = [rest EXCEPT ![w] = Tail(@)] /\ pc' = [pc EXCEPT ![w] = "event"]
          BY <3>3, <4>2 DEF Reply, NextEvent, Goto
        <5>2. \A v \in Workers : pc'[v] \in Sending => rest'[v] = rest[v] /\ pc[v] \in Sending
          BY <5>1 DEF Sending, TypeInv, TypeOK, BatchesTyped, Actors
        <5> QED BY <1>0, <5>2, SameConversation
      <4> QED BY <4>1, <4>2
    <3> QED BY <1>0, <1>3, <3>4, <3>5, SameKeepsAnswered DEF DoneInv, FindConversation, history
  <2>5. CASE ~HasConversation(tenant[w], c)
    <3>1. pc' = [pc EXCEPT ![w] = "open"] /\ UNCHANGED <<body, rest>> /\ UNCHANGED answered
      BY <1>3, <2>3, <2>5 DEF FindConversation, Goto, history
    <3>2. \A v \in Workers : pc'[v] \in Sending => rest'[v] = rest[v] /\ pc[v] \in Sending
      BY <3>1 DEF Sending, TypeInv, TypeOK, Actors
    <3> QED BY <1>0, <3>1, <3>2, SameKeepsAnswered, SameKeepsBatches, SameConversation DEF DoneInv
  <2> QED BY <2>4, <2>5
<1>4. CASE OpenConversation(w)
  <2>1. pc[w] = "open" /\ rest[w] # <<>> /\ IsMessage(Head(rest[w])) /\ tenant[w] \in Tenants
    BY <1>4 DEF OpenConversation, At, TypeInv, TypeOK, Actors
  <2>2. Current(w) \in Incoming
    BY <1>0, <2>1, HeadOrTail, EventKinds DEF Current
  <2>3. CASE opened[Current(w)] # None
    <3>1. GiveUp(w)
      BY <1>4, <2>3 DEF OpenConversation
    <3>2. \A v \in Workers : pc'[v] \in Sending => rest'[v] = rest[v] /\ pc[v] \in Sending
      BY <3>1 DEF GiveUp, NextEvent, Goto, Sending, TypeInv, TypeOK, BatchesTyped, Actors
    <3> QED BY <1>0, <1>4, <2>1, <3>1, <3>2, GiveUpKeepsBatches, SameKeepsAnswered,
            SameConversation DEF DoneInv, OpenConversation
  <2>4. CASE opened[Current(w)] = None
    <3>1. /\ opened' = [opened EXCEPT ![Current(w)] = tenant[w]]
          /\ UNCHANGED <<body, rest>> /\ UNCHANGED answered
          /\ pc' = [pc EXCEPT ![w] = "configOf"]
      BY <1>4, <2>4 DEF OpenConversation, Say, Goto
    <3>2. PICK c \in Customers : c = Sender[Current(w)]
      BY <2>2, WhatsAppConstants
    <3>3. PICK t \in Tenants : t = tenant[w]
      BY <2>1
    <3>4. PICK m \in Incoming : m = Current(w)
      BY <2>2
    <3>5. opened'[m] = t
      BY <3>1, <3>3, <3>4 DEF TypeInv, TypeOK
    <3>6. HasConversation(t, c)'
      BY <3>2, <3>4, <3>5 DEF HasConversation
    <3>7. InConversation'
      BY <1>0, <3>1, <3>2, <3>6, OneConversation DEF TypeInv, TypeOK, Actors
    <3> QED BY <1>0, <3>1, <3>7, SameKeepsBatches, SameKeepsAnswered DEF DoneInv
  <2> QED BY <2>3, <2>4
<1>5. CASE UpdateStatus(w)
  <2>1. PICK h \in Events : h = Head(rest[w])
    BY <1>0, <1>5, HeadOrTail DEF UpdateStatus
  <2>2. ~IsMessage(h) /\ h = StatusEvent(h.sent, h.status) /\ rest[w] # <<>>
    BY <1>5, <2>1, EventKinds DEF UpdateStatus
  <2>3. BatchesDone'
    <3>1. CASE row[h.sent] = None
      BY <1>0, <1>5, <2>1, <3>1, AnswerKeepsBatches DEF UpdateStatus
    <3>2. CASE row[h.sent] # None
      <4>1. h \in recorded' /\ NextEvent(w)
        BY <1>5, <2>1, <2>2, <3>2 DEF UpdateStatus, Store
      <4>2. Done(h)'
        BY <2>2, <4>1 DEF Done
      <4> QED BY <1>0, <2>1, <2>2, <4>1, <4>2, PopKeepsBatches
    <3> QED BY <3>1, <3>2
  <2>4. \A v \in Workers : pc'[v] \in Sending => rest'[v] = rest[v] /\ pc[v] \in Sending
    BY <1>5 DEF UpdateStatus, Answer, NextEvent, Goto, Sending, TypeInv, TypeOK, BatchesTyped, Actors
  <2> QED BY <1>0, <1>5, <2>3, <2>4, SameKeepsAnswered, SameConversation DEF DoneInv, UpdateStatus
<1>6. CASE Acknowledge(w)
  <2>1. \A v \in Workers : pc'[v] \in Sending => rest'[v] = rest[v] /\ pc[v] \in Sending
    BY <1>6 DEF Acknowledge, Answer, Goto, Sending, TypeInv, TypeOK, BatchesTyped, Actors
  <2>2. BatchesDone'
    BY <1>0, <1>6, AnswerKeepsBatches DEF Acknowledge
  <2>3. ASSUME NEW e \in answered' PROVE Done(e)'
    <3>1. CASE e \in answered
      BY <1>0, <3>1, DoneStays DEF AnsweredMeansDone, TypeInv, TypeOK
    <3>2. CASE e \in body[w]
      <4>1. Range(rest[w]) = {}
        BY <1>6 DEF Acknowledge, Range
      <4>2. Done(e) /\ e \in Events
        BY <1>0, <3>2, <4>1 DEF BatchesDone, TypeInv, BatchesTyped
      <4> QED BY <4>2, DoneStays
    <3> QED BY <1>6, <2>3, <3>1, <3>2 DEF Acknowledge
  <2>4. AnsweredMeansDone'
    BY <2>3 DEF AnsweredMeansDone
  <2> QED BY <1>0, <2>1, <2>2, <2>4, SameConversation DEF DoneInv
<1> QED BY <1>1, <1>2, <1>3, <1>4, <1>5, <1>6 DEF Handle
\* So does what sends, and saves what it has sent.
LEMMA SendKeepsDone ==
    ASSUME TypeInv, DoneInv, Stays, NEW a \in Actors, Send(a)
    PROVE  DoneInv'
<1>0. /\ a \notin Workers => a \in Callers
      /\ AnsweredMeansDone /\ BatchesDone /\ InConversation
  BY DEF Actors, DoneInv
<1>1. ASSUME a \in Workers, pc[a] \in Sending
      PROVE  /\ rest[a] # <<>> /\ IsMessage(Head(rest[a]))
             /\ saying[a].about = Current(a) /\ saying[a].kind \in {"welcome", "reply"}
  BY <1>1 DEF TypeInv, Bot
<1>2. AnsweredMeansDone'
  BY <1>0, SameKeepsAnswered DEF Send, ConfigOf, Post, SaveMessage, Fail, history
<1>3. CASE ConfigOf(a)
  <2>1. CASE GiveUp(a)
    <3>1. \A v \in Workers : pc'[v] \in Sending => rest'[v] = rest[v] /\ pc[v] \in Sending
      BY <2>1 DEF GiveUp, Answer, NextEvent, Goto, Sending, TypeInv, TypeOK, BatchesTyped, Actors
    <3> QED BY <1>0, <1>1, <1>2, <1>3, <2>1, <3>1, GiveUpKeepsBatches, SameConversation
            DEF DoneInv, ConfigOf, At, Sending
  <2>2. CASE ~GiveUp(a)
    <3>1. pc[a] = "configOf" /\ pc' = [pc EXCEPT ![a] = "post"] /\ UNCHANGED <<body, rest>>
      BY <1>3, <2>2 DEF ConfigOf, At, Goto
    <3>2. \A v \in Workers : pc'[v] \in Sending => rest'[v] = rest[v] /\ pc[v] \in Sending
      BY <3>1 DEF Sending, TypeInv, TypeOK, Actors
    <3> QED BY <1>0, <1>2, <3>1, <3>2, SameKeepsBatches, SameConversation DEF DoneInv
  <2> QED BY <2>1, <2>2
<1>4. CASE Post(a)
  <2>1. pc[a] = "post" /\ pc' = [pc EXCEPT ![a] = "save"] /\ UNCHANGED <<body, rest>>
    BY <1>4 DEF Post, At, Goto
  <2>2. \A v \in Workers : pc'[v] \in Sending => rest'[v] = rest[v] /\ pc[v] \in Sending
    BY <2>1 DEF Sending, TypeInv, TypeOK, Actors
  <2> QED BY <1>0, <1>2, <2>1, <2>2, SameKeepsBatches, SameConversation DEF DoneInv
<1>5. CASE SaveMessage(a)
  <2>0. pc[a] = "save"
    BY <1>5 DEF SaveMessage, At
  <2>1. \A v \in Workers : pc'[v] \in Sending => rest'[v] = rest[v] /\ pc[v] \in Sending
    BY <1>5, <2>0, WhatsAppConstants
       DEF SaveMessage, Answer, Reply, Say, NextEvent, Goto, Sending, TypeInv, TypeOK,
           BatchesTyped, Actors
  <2>2. BatchesDone'
    <3>1. CASE a \notin Workers
      BY <1>0, <1>5, <3>1, AnswerKeepsBatches DEF SaveMessage
    <3>2. CASE a \in Workers
      <4>1. /\ rest[a] # <<>> /\ IsMessage(Head(rest[a])) /\ rest[a] \in Seq(Events)
            /\ saying[a].about = Current(a) /\ saying[a].kind \in {"welcome", "reply"}
            /\ a \notin Callers
        BY <1>1, <2>0, <3>2, WhatsAppConstants DEF Sending, TypeInv, BatchesTyped
      <4>2. PICK h \in Events : h = Head(rest[a])
        BY <4>1, HeadOrTail
      <4>3. IsMessage(h) /\ h.message = Current(a) /\ Current(a) \in Incoming
        BY <4>1, <4>2, EventKinds DEF Current
      <4>4. PICK c \in Customers : c = Sender[Current(a)]
        BY <4>3, WhatsAppConstants
      <4>5. PICK t \in Tenants : HasConversation(t, c)
        BY <1>0, <2>0, <3>2, <4>4 DEF InConversation, Sending
      <4>6. HasConversation(t, c)'
        BY <1>5, <4>5 DEF SaveMessage, HasConversation
      <4>7. CASE saying[a].kind = "welcome"
        BY <1>0, <1>5, <3>2, <4>1, <4>4, <4>6, <4>7, ReplyKeepsBatches DEF SaveMessage
      <4>8. CASE saying[a].kind = "reply"
        <5>1. /\ id[a] \in Outbound /\ out[id[a]] = saying[a] /\ saying[a] \in Saying
              /\ UNCHANGED out
          BY <1>5, <2>0 DEF SaveMessage, TypeInv, Bot, Sending, provider
        <5>2. PICK o \in Outbound : out'[o] # None /\ out'[o].kind = "reply"
                                    /\ out'[o].about = h.message
          BY <4>1, <4>3, <4>8, <5>1, NoneIsNotSaid
        <5>3. Done(h)'
          BY <4>3, <4>4, <4>6, <5>2 DEF Done
        <5>4. NextEvent(a)
          BY <1>5, <4>1, <4>8 DEF SaveMessage
        <5> QED BY <1>0, <3>2, <4>1, <4>2, <5>3, <5>4, PopKeepsBatches
      <4> QED BY <4>1, <4>7, <4>8
    <3> QED BY <3>1, <3>2
  <2> QED BY <1>0, <1>2, <2>1, <2>2, SameConversation DEF DoneInv
<1>6. CASE Fail(a)
  <2>1. \A v \in Workers : pc'[v] \in Sending => rest'[v] = rest[v] /\ pc[v] \in Sending
    BY <1>6 DEF Fail, GiveUp, Answer, NextEvent, Goto, Sending, TypeInv, TypeOK, BatchesTyped,
                Actors
  <2>2. BatchesDone'
    <3>1. CASE Answer(a)
      BY <1>0, <3>1, AnswerKeepsBatches
    <3>2. CASE GiveUp(a) /\ pc[a] \in {"findConversation", "open", "configOf", "post", "save"}
      <4>1. a \in Workers => rest[a] # <<>> /\ IsMessage(Head(rest[a]))
        BY <1>1, <3>2 DEF TypeInv, TypeOK, Sending
      <4> QED BY <1>0, <3>2, <4>1, GiveUpKeepsBatches
    <3> QED BY <1>6, <3>1, <3>2 DEF Fail
  <2> QED BY <1>0, <1>2, <2>1, <2>2, SameConversation DEF DoneInv
<1> QED BY <1>3, <1>4, <1>5, <1>6 DEF Send

\* Every step does.
LEMMA NextKeepsDone == TypeInv /\ DoneInv /\ [Next]_vars => DoneInv'
<1> SUFFICES ASSUME TypeInv, DoneInv, [Next]_vars PROVE DoneInv'
  OBVIOUS
<1>0. Stays /\ AnsweredMeansDone /\ BatchesDone /\ InConversation
  BY NextStays DEF DoneInv
<1>1. ASSUME NEW c \in Callers, Serve(c) PROVE DoneInv'
  <2>1. UNCHANGED answered
    BY <1>1 DEF Serve, SendTemplate, StartConfigure, FindExisting, WriteConfig, UpdateFeatures,
                history
  <2>2. c \in Actors /\ c \notin Workers
    BY WhatsAppConstants DEF Actors
  <2>3. \A v \in Workers : pc'[v] = pc[v] /\ rest'[v] = rest[v]
    BY <1>1, <2>2 DEF Serve, SendTemplate, StartConfigure, FindExisting, WriteConfig,
                      UpdateFeatures, Say, Answer, Goto, TypeInv, TypeOK, BatchesTyped, Actors
  <2>4. BatchesDone'
    BY <1>0, <1>1, <2>2, AnswerKeepsBatches, SameKeepsBatches
       DEF Serve, SendTemplate, StartConfigure, FindExisting, WriteConfig, UpdateFeatures
  <2> QED BY <1>0, <2>1, <2>3, <2>4, SameKeepsAnswered, SameConversation DEF DoneInv
<1>2. ASSUME (\E o \in Outbound : Report(o)) \/ UNCHANGED vars PROVE DoneInv'
  <2>1. UNCHANGED <<answered, pc, body, rest>>
    BY <1>2 DEF Report, vars, history
  <2> QED BY <1>0, <2>1, SameKeepsAnswered, SameKeepsBatches, SameConversation DEF DoneInv
<1>3. ASSUME Restart PROVE DoneInv'
  <2>1. UNCHANGED answered /\ \A v \in Workers : pc'[v] = "idle" /\ body'[v] = {}
    BY <1>3 DEF Restart, history, Actors
  <2>2. BatchesDone'
    BY <2>1 DEF BatchesDone
  <2> QED BY <1>0, <2>1, <2>2, SameKeepsAnswered, SameConversation DEF DoneInv, Sending
<1> QED BY <1>0, <1>1, <1>2, <1>3, HandleKeepsDone, SendKeepsDone DEF Next

\* Whatever fails or restarts, and however webhooks are interleaved: what the
\* provider was told is done is done, and need not be delivered again.
THEOREM AnsweredIsDone == Spec => []AnsweredMeansDone
<1>1. Init => DoneInv
  BY DEF Init, DoneInv, AnsweredMeansDone, BatchesDone, InConversation, Sending, At, Actors
<1>2. DoneInv => AnsweredMeansDone
  BY DEF DoneInv
<1> QED BY <1>1, <1>2, InitTyped, NextTyped, NextKeepsDone, PTL DEF Spec

------------------------------------------------------------------------------
(* Conversations.  A webhook decides to open one when its customer has none, *)
(* so those of a customer, and those about to be opened beside the first,    *)
(* are together never more than there are webhooks.                          *)

Conversations(t, c) == {m \in Incoming : opened[m] = t /\ Sender[m] = c}
Openers(t, c) ==
    {w \in Workers : pc[w] = "open" /\ tenant[w] = t /\ Sender[Current(w)] = c}

FewInv ==
    \A t \in Tenants, c \in Customers :
        Cardinality(Conversations(t, c)) + Cardinality(Openers(t, c)) <= Cardinality(Workers)

\* Both are finite, and so are they after a step.
LEMMA FiniteConversations ==
    ASSUME NEW t, NEW c
    PROVE  /\ IsFiniteSet(Conversations(t, c)) /\ IsFiniteSet(Openers(t, c))
           /\ Cardinality(Conversations(t, c)) \in Nat /\ Cardinality(Openers(t, c)) \in Nat
           /\ Cardinality(Openers(t, c)) <= Cardinality(Workers)
           /\ Cardinality(Workers) \in Nat
<1>1. Conversations(t, c) \subseteq Incoming /\ Openers(t, c) \subseteq Workers
  BY DEF Conversations, Openers
<1> QED BY <1>1, WhatsAppConstants, FS_Subset, FS_CardinalityType

\* The same of the step's outcome.
LEMMA FiniteConversationsNext ==
    ASSUME NEW t, NEW c
    PROVE  /\ IsFiniteSet(Conversations(t, c)') /\ IsFiniteSet(Openers(t, c)')
           /\ Cardinality(Conversations(t, c)') \in Nat /\ Cardinality(Openers(t, c)') \in Nat
           /\ Cardinality(Openers(t, c)') <= Cardinality(Workers)
<1>1. Conversations(t, c)' \subseteq Incoming /\ Openers(t, c)' \subseteq Workers
  BY DEF Conversations, Openers
<1> QED BY <1>1, WhatsAppConstants, FS_Subset, FS_CardinalityType

\* A step that opens nothing and decides to open nothing.
LEMMA NoNewOpener ==
    ASSUME FewInv, UNCHANGED opened,
           \A w \in Workers : pc'[w] = "open" =>
               pc[w] = "open" /\ tenant'[w] = tenant[w] /\ rest'[w] = rest[w]
    PROVE  FewInv'
<1> SUFFICES ASSUME NEW t \in Tenants, NEW c \in Customers
             PROVE  Cardinality(Conversations(t, c)') + Cardinality(Openers(t, c)')
                        <= Cardinality(Workers)
  BY DEF FewInv
<1>1. Conversations(t, c)' = Conversations(t, c)
  BY DEF Conversations
<1>2. Openers(t, c)' \subseteq Openers(t, c)
  BY DEF Openers, Current
<1>3. Cardinality(Openers(t, c)') <= Cardinality(Openers(t, c))
  BY <1>2, FiniteConversations, FS_Subset
<1> QED BY <1>1, <1>3, FiniteConversations, FiniteConversationsNext DEF FewInv

\* What one actor does leaves the others where they are.
LEMMA OneActs ==
    ASSUME TypeInv, NEW a \in Actors, (a \in Workers /\ Handle(a)) \/ Send(a)
    PROVE  \A b \in Actors \ {a} :
               pc'[b] = pc[b] /\ tenant'[b] = tenant[b] /\ rest'[b] = rest[b] /\ id'[b] = id[b]
<1> USE DEF Goto, SetLocals, TypeInv, TypeOK, BatchesTyped, locals
<1>1. CASE Answer(a)
  BY <1>1 DEF Answer
<1>2. CASE NextEvent(a)
  BY <1>2 DEF NextEvent
<1>3. CASE Reply(a)
  BY <1>2, <1>3 DEF Reply, Say
<1>4. CASE GiveUp(a)
  BY <1>1, <1>2, <1>4 DEF GiveUp
<1>5. CASE Deliver(a) \/ FindConfig(a) \/ UpdateStatus(a) \/ Acknowledge(a)
  BY <1>1, <1>2, <1>5 DEF Deliver, FindConfig, UpdateStatus, Acknowledge
<1>6. CASE FindConversation(a) \/ OpenConversation(a)
  BY <1>3, <1>4, <1>6 DEF FindConversation, OpenConversation, Say
<1>7. CASE ConfigOf(a) \/ Post(a) \/ SaveMessage(a) \/ Fail(a)
  BY <1>1, <1>2, <1>3, <1>4, <1>7 DEF ConfigOf, Post, SaveMessage, Fail
<1> QED BY <1>5, <1>6, <1>7 DEF Handle, Send

\* Whoever decides to open a conversation has found none.
LEMMA FindKeepsFew ==
    ASSUME TypeInv, FewInv, NEW w \in Workers, FindConversation(w)
    PROVE  FewInv'
<1>1. w \in Actors /\ UNCHANGED opened /\ pc[w] = "findConversation"
  BY DEF FindConversation, At, tables, Actors
<1>2. \A v \in Workers \ {w} : pc'[v] = pc[v] /\ tenant'[v] = tenant[v] /\ rest'[v] = rest[v]
  BY <1>1, OneActs DEF Handle, Actors
<1>3. CASE HasConversation(tenant[w], Sender[Current(w)])
  <2>1. pc'[w] # "open"
    BY <1>1, <1>3 DEF FindConversation, Reply, Say, NextEvent, Goto, TypeInv, TypeOK
  <2> QED BY <1>1, <1>2, <2>1, NoNewOpener
<1>4. CASE ~HasConversation(tenant[w], Sender[Current(w)])
  <2>1. UNCHANGED <<rest, tenant>>
    BY <1>4 DEF FindConversation, locals
  <2> SUFFICES ASSUME NEW t \in Tenants, NEW c \in Customers
               PROVE  Cardinality(Conversations(t, c)') + Cardinality(Openers(t, c)')
                          <= Cardinality(Workers)
    BY DEF FewInv
  <2>2. Conversations(t, c)' = Conversations(t, c)
    BY <1>1 DEF Conversations
  <2>3. CASE tenant[w] = t /\ Sender[Current(w)] = c
    <3>1. Conversations(t, c) = {}
      BY <1>4, <2>3 DEF HasConversation, Conversations
    <3> QED BY <2>2, <3>1, FS_EmptySet, FiniteConversationsNext, FiniteConversations
  <2>4. CASE ~(tenant[w] = t /\ Sender[Current(w)] = c)
    <3>1. Openers(t, c)' \subseteq Openers(t, c)
      BY <1>2, <2>1, <2>4 DEF Openers, Current
    <3>2. Cardinality(Openers(t, c)') <= Cardinality(Openers(t, c))
      BY <3>1, FiniteConversations, FS_Subset
    <3> QED BY <2>2, <3>2, FiniteConversations, FiniteConversationsNext DEF FewInv
  <2> QED BY <2>3, <2>4
<1> QED BY <1>3, <1>4

\* A conversation that is opened is no longer to be opened.
LEMMA OpenKeepsFew ==
    ASSUME TypeInv, FewInv, NEW w \in Workers, OpenConversation(w)
    PROVE  FewInv'
<1>1. w \in Actors /\ pc[w] = "open"
  BY DEF OpenConversation, At, Actors
<1>2. \A v \in Workers \ {w} : pc'[v] = pc[v] /\ tenant'[v] = tenant[v] /\ rest'[v] = rest[v]
  BY <1>1, OneActs DEF Handle, Actors
<1>3. pc'[w] # "open"
  BY <1>1 DEF OpenConversation, GiveUp, NextEvent, Say, Goto, TypeInv, TypeOK
<1>4. CASE opened[Current(w)] # None
  BY <1>2, <1>3, <1>4, NoNewOpener DEF OpenConversation
<1>5. CASE opened[Current(w)] = None
  <2>1. PICK m \in Incoming : m = Current(w)
    <3>1. rest[w] \in Seq(Events) /\ rest[w] # <<>> /\ IsMessage(Head(rest[w]))
      BY <1>1 DEF TypeInv, TypeOK, BatchesTyped
    <3> QED BY <3>1, HeadOrTail, EventKinds DEF Current
  <2>2. opened' = [opened EXCEPT ![m] = tenant[w]]
    BY <1>5, <2>1 DEF OpenConversation
  <2> SUFFICES ASSUME NEW t \in Tenants, NEW c \in Customers
               PROVE  Cardinality(Conversations(t, c)') + Cardinality(Openers(t, c)')
                          <= Cardinality(Workers)
    BY DEF FewInv
  <2>3. Openers(t, c)' \subseteq Openers(t, c) \ {w}
    BY <1>2, <1>3 DEF Openers, Current
  <2>4. CASE tenant[w] = t /\ Sender[m] = c
    <3>1. Conversations(t, c)' \subseteq Conversations(t, c) \cup {m}
      BY <2>1, <2>2 DEF Conversations, TypeInv, TypeOK
    <3>2. Cardinality(Conversations(t, c)') <= Cardinality(Conversations(t, c)) + 1
      <4>1. m \notin Conversations(t, c)
        BY <1>5, <2>1, WhatsAppConstants DEF Conversations
      <4>2. /\ IsFiniteSet(Conversations(t, c) \cup {m})
            /\ Cardinality(Conversations(t, c) \cup {m}) = Cardinality(Conversations(t, c)) + 1
        BY <4>1, FiniteConversations, FS_AddElement
      <4> QED BY <3>1, <4>2, FS_Subset
    <3>3. w \in Openers(t, c)
      BY <1>1, <2>1, <2>4 DEF Openers
    <3>4. /\ IsFiniteSet(Openers(t, c) \ {w})
          /\ Cardinality(Openers(t, c) \ {w}) = Cardinality(Openers(t, c)) - 1
      BY <3>3, FiniteConversations, FS_RemoveElement
    <3>5. Cardinality(Openers(t, c)') <= Cardinality(Openers(t, c)) - 1
      BY <2>3, <3>4, FS_Subset
    <3> QED BY <3>2, <3>5, FiniteConversations, FiniteConversationsNext DEF FewInv
  <2>5. CASE ~(tenant[w] = t /\ Sender[m] = c)
    <3>1. Conversations(t, c)' \subseteq Conversations(t, c)
      BY <2>1, <2>2, <2>5 DEF Conversations, TypeInv, TypeOK
    <3>2. Openers(t, c)' \subseteq Openers(t, c)
      BY <2>3
    <3>3. /\ Cardinality(Conversations(t, c)') <= Cardinality(Conversations(t, c))
          /\ Cardinality(Openers(t, c)') <= Cardinality(Openers(t, c))
      BY <3>1, <3>2, FiniteConversations, FS_Subset
    <3> QED BY <3>3, FiniteConversations, FiniteConversationsNext DEF FewInv
  <2> QED BY <2>4, <2>5
<1> QED BY <1>4, <1>5

\* Every step keeps the conversations few.
LEMMA NextKeepsFew == TypeInv /\ FewInv /\ [Next]_vars => FewInv'
<1> SUFFICES ASSUME TypeInv, FewInv, [Next]_vars PROVE FewInv'
  OBVIOUS
<1>1. ASSUME NEW a \in Actors, UNCHANGED opened, pc'[a] # "open",
             (a \in Workers /\ Handle(a)) \/ Send(a)
      PROVE  FewInv'
  BY <1>1, OneActs, NoNewOpener DEF Actors
<1>2. ASSUME NEW w \in Workers, Handle(w) PROVE FewInv'
  <2>1. CASE Deliver(w) \/ FindConfig(w) \/ UpdateStatus(w) \/ Acknowledge(w)
    <3>1. UNCHANGED opened /\ pc'[w] # "open"
      BY <2>1 DEF Deliver, FindConfig, UpdateStatus, Acknowledge, Answer, NextEvent, Goto,
                  tables, TypeInv, TypeOK, Actors
    <3> QED BY <1>1, <1>2, <3>1 DEF Actors
  <2> QED BY <1>2, <2>1, FindKeepsFew, OpenKeepsFew DEF Handle
<1>3. ASSUME NEW a \in Actors, Send(a) PROVE FewInv'
  <2>1. UNCHANGED opened /\ pc'[a] # "open"
    BY <1>3 DEF Send, ConfigOf, Post, SaveMessage, Fail, GiveUp, Answer, NextEvent, Reply, Say,
                Goto, At, tables, TypeInv, TypeOK
  <2> QED BY <1>1, <1>3, <2>1
<1>4. ASSUME NEW c \in Callers, Serve(c) PROVE FewInv'
  <2>1. c \in Actors /\ c \notin Workers
    BY WhatsAppConstants DEF Actors
  <2>2. /\ UNCHANGED opened
        /\ \A v \in Workers : pc'[v] = pc[v] /\ tenant'[v] = tenant[v] /\ rest'[v] = rest[v]
    BY <1>4, <2>1 DEF Serve, SendTemplate, StartConfigure, FindExisting, WriteConfig,
                      UpdateFeatures, Say, Answer, Goto, SetLocals, tables, locals, TypeInv,
                      TypeOK, BatchesTyped, Actors
  <2> QED BY <2>2, NoNewOpener
<1>5. ASSUME (\E o \in Outbound : Report(o)) \/ UNCHANGED vars PROVE FewInv'
  <2>1. UNCHANGED <<opened, pc, tenant, rest>>
    BY <1>5 DEF Report, vars, tables, locals
  <2> QED BY <2>1, NoNewOpener
<1>6. ASSUME Restart PROVE FewInv'
  BY <1>6, NoNewOpener DEF Restart, tables, Actors
<1> QED BY <1>2, <1>3, <1>4, <1>5, <1>6 DEF Next

\* Nothing in the tables makes the conversations of a customer unique, and yet
\* a customer never has more of them than webhooks are handled at once, however
\* many messages arrive, and however often one is delivered again.
THEOREM CustomersHaveFewConversations == Spec => []ConversationsAreFew
<1>1. Init => FewInv
  <2> SUFFICES ASSUME Init, NEW t \in Tenants, NEW c \in Customers
               PROVE  Cardinality(Conversations(t, c)) + Cardinality(Openers(t, c))
                          <= Cardinality(Workers)
    BY DEF FewInv
  <2>1. Conversations(t, c) = {}
    BY WhatsAppConstants DEF Init, Conversations
  <2> QED BY <2>1, FS_EmptySet, FiniteConversations
<1>2. FewInv => ConversationsAreFew
  <2> SUFFICES ASSUME FewInv, NEW t \in Tenants, NEW c \in Customers
               PROVE  Cardinality(Conversations(t, c)) <= Cardinality(Workers)
    BY DEF ConversationsAreFew, Conversations
  <2>1. Cardinality(Conversations(t, c)) + Cardinality(Openers(t, c)) <= Cardinality(Workers)
    BY DEF FewInv
  <2> QED BY <2>1, FiniteConversations
<1> QED BY <1>1, <1>2, InitTyped, NextTyped, NextKeepsFew, PTL DEF Spec


------------------------------------------------------------------------------
(* Statuses.  Every status the provider has reported is either still to be   *)
(* handed over or stored, since a webhook is only acknowledged once all of   *)
(* it is stored; and a row goes from one status to an earlier one only when  *)
(* they came in a wrong order.                                               *)

\* Statuses and their ranks are two ways to say the same.
LEMMA Ranks ==
    /\ \A i \in 1..3 : Statuses[i] \in Range(Statuses) /\ Rank(Statuses[i]) = i
    /\ \A s \in Range(Statuses) : Rank(s) \in 1..3 /\ Statuses[Rank(s)] = s
    /\ Statuses[1] = "sent"
<1>1. /\ DOMAIN Statuses = 1..3
      /\ Statuses[1] = "sent" /\ Statuses[2] = "delivered" /\ Statuses[3] = "read"
  BY DEF Statuses
<1> HIDE DEF Statuses
<1>2. ASSUME NEW i \in 1..3 PROVE Rank(Statuses[i]) = i
  <2>1. \A j \in 1..3 : Statuses[j] = Statuses[i] => j = i
    BY <1>1
  <2> QED BY <1>1, <2>1 DEF Rank
<1> QED BY <1>1, <1>2 DEF Range

\* A status event is of one message and one status.
LEMMA StatusEvents ==
    ASSUME NEW o, NEW s, NEW x, NEW y
    PROVE  /\ StatusEvent(o, s) = StatusEvent(x, y) => o = x /\ s = y
           /\ ~IsMessage(StatusEvent(o, s))
<1>1. StatusEvent(o, s).sent = o /\ StatusEvent(o, s).status = s
      /\ StatusEvent(x, y).sent = x /\ StatusEvent(x, y).status = y
  BY DEF StatusEvent
<1>2. DOMAIN StatusEvent(o, s) = {"sent", "status"}
  BY DEF StatusEvent
<1> QED BY <1>1, <1>2 DEF IsMessage

\* Statuses are reported in their order.
ReportsInOrder ==
    \A o \in Outbound : /\ Len(reported[o]) <= 3
                        /\ \A i \in 1..Len(reported[o]) : reported[o][i] = Statuses[i]

\* What is left of a webhook is of that webhook.
RestOfBody == \A w \in Workers : Range(rest[w]) \subseteq body[w]

\* Nothing is handed over, or stored, that was not reported.
Told(e) == e \in inbox \/ e \in recorded \/ \E w \in Workers : e \in body[w]
ToldIsReported ==
    \A o \in Outbound, s \in Range(Statuses) :
        Told(StatusEvent(o, s)) => Rank(s) <= Len(reported[o])

\* What was reported and is no longer handed over has been stored.
ReportedIsKept ==
    \A o \in Outbound : \A i \in 1..Len(reported[o]) :
        StatusEvent(o, Statuses[i]) \in inbox \/ StatusEvent(o, Statuses[i]) \in recorded

\* One that is about to store a message is the first, and the only one.
SavesOnce ==
    \A a \in Actors : pc[a] = "save" =>
        /\ row[id[a]] = None
        /\ \A b \in Actors : pc[b] = "save" /\ id[b] = id[a] => a = b

\* No stored status is later than the row, unless they crossed.
RowsAreLatest ==
    \A o \in Outbound, s \in Range(Statuses) :
        StatusEvent(o, s) \in recorded =>
            row[o] # None /\ (o \in crossed \/ Rank(s) <= Rank(row[o]))

\* A row is as it was first stored, or says what was stored.
RowsAreStored ==
    \A o \in Outbound :
        row[o] # None => row[o] = "sent" \/ StatusEvent(o, row[o]) \in recorded

CurInv ==
    /\ ReportsInOrder /\ RestOfBody /\ ToldIsReported /\ ReportedIsKept
    /\ SavesOnce /\ RowsAreLatest /\ RowsAreStored


\* What most steps are to the statuses: nothing is stored, reported or handed
\* over, webhooks only lose events, and nobody comes to store a message.
Quiet ==
    /\ UNCHANGED <<row, reported, inbox, recorded, crossed>>
    /\ \A w \in Workers : Range(rest'[w]) \subseteq body'[w] /\ body'[w] \subseteq body[w]
    /\ \A a \in Actors : pc'[a] = "save" => pc[a] = "save" /\ id'[a] = id[a]

\* They keep the invariant.
LEMMA QuietKeepsCurrent == ASSUME CurInv, Quiet PROVE CurInv'
<1> USE DEF CurInv, Quiet
<1>1. ReportsInOrder' /\ RestOfBody'
  BY DEF ReportsInOrder, RestOfBody
<1>2. ASSUME NEW e, Told(e)' PROVE Told(e)
  BY <1>2 DEF Told
<1>3. ToldIsReported'
  <2> SUFFICES ASSUME NEW o \in Outbound, NEW s \in Range(Statuses), Told(StatusEvent(o, s))'
               PROVE  Rank(s) <= Len(reported[o])
    BY DEF ToldIsReported
  <2> QED BY <1>2 DEF ToldIsReported
<1>4. ReportedIsKept' /\ SavesOnce' /\ RowsAreLatest' /\ RowsAreStored'
  BY DEF ReportedIsKept, SavesOnce, RowsAreLatest, RowsAreStored
<1> QED BY <1>1, <1>3, <1>4

\* What an actor has left of its webhook, and that it does not store next.
Shrinks(a) ==
    /\ \A w \in Workers : Range(rest'[w]) \subseteq body'[w] /\ body'[w] \subseteq body[w]
    /\ \A b \in Actors : pc'[b] = "save" => pc[b] = "save" /\ b # a /\ id'[b] = id[b]

\* An actor that is done with an event, or with its request.
LEMMA DoneWith ==
    ASSUME TypeInv, RestOfBody, NEW a \in Actors,
           \/ Answer(a)
           \/ NextEvent(a) /\ rest[a] # <<>>
           \/ Reply(a) /\ rest[a] # <<>>
           \/ GiveUp(a) /\ (a \in Workers => rest[a] # <<>>)
    PROVE  Shrinks(a)
<1> USE DEF TypeInv, TypeOK, BatchesTyped, Shrinks, RestOfBody
<1>0. \A w \in Workers : w \in Actors
  BY DEF Actors
<1>1. Range(<<>>) = {}
  BY DEF Range
<1>2. CASE Answer(a)
  BY <1>0, <1>1, <1>2 DEF Answer, Goto, SetLocals
<1>3. CASE NextEvent(a) /\ rest[a] # <<>>
  <2>1. /\ Tail(rest[a]) \in Seq(Events)
        /\ Range(Tail(rest[a])) \subseteq Range(rest[a])
    <3>1. rest[a] \in Seq(Events) /\ rest[a] # <<>>
      BY <1>3
    <3>2. /\ Tail(rest[a]) \in Seq(Events)
          /\ DOMAIN Tail(rest[a]) = 1..(Len(rest[a]) - 1) /\ DOMAIN rest[a] = 1..Len(rest[a])
          /\ \A i \in 1..(Len(rest[a]) - 1) : Tail(rest[a])[i] = rest[a][i + 1]
      BY <3>1
    <3>3. Len(rest[a]) \in Nat
      BY <3>1
    <3>4. \A i \in 1..(Len(rest[a]) - 1) : i + 1 \in 1..Len(rest[a])
      BY <3>3
    <3> QED BY <3>2, <3>4 DEF Range
  <2> QED BY <1>0, <1>3, <2>1 DEF NextEvent, Goto, SetLocals
<1>4. CASE Reply(a) /\ rest[a] # <<>>
  <2>1. CASE NextEvent(a)
    BY <1>3, <1>4, <2>1
  <2>2. CASE ~NextEvent(a)
    BY <1>0, <1>4, <2>2 DEF Reply, Say, Goto, SetLocals
  <2> QED BY <2>1, <2>2
<1>5. CASE GiveUp(a) /\ (a \in Workers => rest[a] # <<>>)
  BY <1>2, <1>3, <1>5 DEF GiveUp
<1> QED BY <1>2, <1>3, <1>4, <1>5


\* A webhook that arrives holds what was still to be handed over.
LEMMA DeliverKeepsCurrent ==
    ASSUME TypeInv, CurInv, NEW w \in Workers, Deliver(w)
    PROVE  CurInv'
<1>1. PICK n \in 1..MaxBatch : \E b \in [1..n -> inbox] :
        body' = [body EXCEPT ![w] = Range(b)] /\ rest' = [rest EXCEPT ![w] = b]
  BY DEF Deliver
<1>2. PICK b \in [1..n -> inbox] :
        body' = [body EXCEPT ![w] = Range(b)] /\ rest' = [rest EXCEPT ![w] = b]
  BY <1>1
<1>3. Range(b) \subseteq inbox
  BY DEF Range
<1>4. /\ \A v \in Workers \ {w} : body'[v] = body[v] /\ rest'[v] = rest[v]
      /\ body'[w] = Range(b) /\ rest'[w] = b
  BY <1>2 DEF TypeInv, BatchesTyped, Actors
<1>5. /\ UNCHANGED <<row, reported, inbox, recorded, crossed, id>>
      /\ \A a \in Actors : pc'[a] = "save" => pc[a] = "save"
  BY DEF Deliver, Goto, tables, provider, locals, history, TypeInv, TypeOK
<1>6. ASSUME NEW e, Told(e)' PROVE Told(e)
  BY <1>3, <1>4, <1>5, <1>6 DEF Told
<1>7. ToldIsReported'
  <2> SUFFICES ASSUME NEW o \in Outbound, NEW s \in Range(Statuses), Told(StatusEvent(o, s))'
               PROVE  Rank(s) <= Len(reported[o])
    BY <1>5 DEF ToldIsReported
  <2> QED BY <1>6 DEF ToldIsReported, CurInv
<1>8. RestOfBody'
  BY <1>4 DEF RestOfBody, CurInv
<1> QED BY <1>5, <1>7, <1>8
        DEF CurInv, ReportsInOrder, ReportedIsKept, SavesOnce, RowsAreLatest, RowsAreStored

\* A webhook is acknowledged when everything in it has been stored.
LEMMA AcknowledgeKeepsCurrent ==
    ASSUME TypeInv, CurInv, BatchesDone, NEW w \in Workers, Acknowledge(w)
    PROVE  CurInv'
<1>1. w \in Actors /\ Answer(w) /\ Range(rest[w]) = {}
  BY DEF Acknowledge, Actors, Range
<1>2. Shrinks(w)
  BY <1>1, DoneWith DEF CurInv
<1>3. UNCHANGED <<row, reported, recorded, crossed>> /\ inbox' \subseteq inbox
      /\ \A e \in inbox : e \notin inbox' => e \in body[w]
  BY DEF Acknowledge, tables
<1>4. ASSUME NEW o \in Outbound, NEW i \in 1..Len(reported[o]),
             StatusEvent(o, Statuses[i]) \in body[w]
      PROVE  StatusEvent(o, Statuses[i]) \in recorded
  <2>1. Done(StatusEvent(o, Statuses[i]))
    BY <1>1, <1>4 DEF BatchesDone
  <2> QED BY <2>1, StatusEvents DEF Done
<1>5. ReportedIsKept'
  BY <1>3, <1>4 DEF ReportedIsKept, CurInv
<1>6. ASSUME NEW e, Told(e)' PROVE Told(e)
  BY <1>2, <1>3, <1>6 DEF Told, Shrinks
<1>7. ToldIsReported'
  <2> SUFFICES ASSUME NEW o \in Outbound, NEW s \in Range(Statuses), Told(StatusEvent(o, s))'
               PROVE  Rank(s) <= Len(reported[o])
    BY <1>3 DEF ToldIsReported
  <2> QED BY <1>6 DEF ToldIsReported, CurInv
<1>8. SavesOnce'
  BY <1>2, <1>3 DEF SavesOnce, Shrinks, CurInv
<1> QED BY <1>2, <1>3, <1>5, <1>7, <1>8
        DEF CurInv, Shrinks, ReportsInOrder, RestOfBody, RowsAreLatest, RowsAreStored

\* A status that is stored was reported, and the row is the latest of those
\* stored, unless this one is earlier than the row was.
LEMMA StoreKeepsCurrent ==
    ASSUME TypeInv, CurInv, NEW w \in Workers, UpdateStatus(w), row[Head(rest[w]).sent] # None
    PROVE  CurInv'
<1>1. /\ w \in Actors /\ rest[w] \in Seq(Events) /\ rest[w] # <<>>
  BY DEF UpdateStatus, TypeInv, BatchesTyped, Actors
<1>2. PICK e \in Events : e = Head(rest[w])
  BY <1>1, HeadOrTail
<1>3. ~IsMessage(e) /\ row[e.sent] # None /\ Store(e.sent, e.status) /\ NextEvent(w)
      /\ UNCHANGED <<reported, inbox>>
  BY <1>2 DEF UpdateStatus, provider
<1>4. PICK o \in Outbound, s \in Range(Statuses) : e = StatusEvent(o, s) /\ o = e.sent /\ s = e.status
  BY <1>3, EventKinds
<1>5. /\ row' = [row EXCEPT ![o] = s]
      /\ recorded' = recorded \cup {StatusEvent(o, s)}
      /\ crossed' = IF Rank(s) < Rank(row[o]) THEN crossed \cup {o} ELSE crossed
      /\ row[o] # None
  BY <1>3, <1>4 DEF Store
<1>6. e \in body[w]
  <2>1. e \in Range(rest[w])
    BY <1>1, <1>2 DEF Range
  <2> QED BY <2>1 DEF CurInv, RestOfBody
<1>7. Shrinks(w)
  BY <1>1, <1>3, DoneWith DEF CurInv
<1>8. row \in [Outbound -> Range(Statuses) \cup {None}]
  BY DEF TypeInv, TypeOK
<1>9. ToldIsReported'
  <2> SUFFICES ASSUME NEW x \in Outbound, NEW y \in Range(Statuses), Told(StatusEvent(x, y))'
               PROVE  Rank(y) <= Len(reported[x])
    BY <1>3 DEF ToldIsReported
  <2>1. Told(StatusEvent(x, y))
    BY <1>3, <1>4, <1>5, <1>6, <1>7 DEF Told, Shrinks
  <2> QED BY <2>1 DEF ToldIsReported, CurInv
<1>10. SavesOnce'
  <2>1. \A a \in Actors : pc'[a] = "save" => id[a] # o
    BY <1>5, <1>7 DEF Shrinks, CurInv, SavesOnce
  <2> QED BY <1>5, <1>7, <1>8, <2>1 DEF Shrinks, CurInv, SavesOnce, TypeInv, Bot
<1>11. RowsAreLatest'
  <2> SUFFICES ASSUME NEW x \in Outbound, NEW y \in Range(Statuses),
                      StatusEvent(x, y) \in recorded'
               PROVE  row'[x] # None /\ (x \in crossed' \/ Rank(y) <= Rank(row'[x]))
    BY DEF RowsAreLatest
  <2>1. CASE x # o
    BY <1>5, <1>8, <2>1, StatusEvents DEF CurInv, RowsAreLatest
  <2>2. CASE x = o
    <3>1. row'[o] = s /\ s # None
      BY <1>4, <1>5, <1>8, NoneIsNoStatus
    <3>2. CASE StatusEvent(x, y) \in recorded
      <4>1. o \in crossed \/ Rank(y) <= Rank(row[o])
        BY <2>2, <3>2 DEF CurInv, RowsAreLatest
      <4>2. row[o] \in Range(Statuses)
        BY <1>5, <1>8
      <4>3. Rank(y) \in Int /\ Rank(s) \in Int /\ Rank(row[o]) \in Int
        BY <4>2, Ranks
      <4> QED BY <1>5, <2>2, <3>1, <4>1, <4>3
    <3>3. CASE StatusEvent(x, y) \notin recorded
      <4>1. y = s
        BY <1>5, <3>3, StatusEvents
      <4> QED BY <2>2, <3>1, <4>1, Ranks
    <3> QED BY <3>2, <3>3
  <2> QED BY <2>1, <2>2
<1>12. RowsAreStored'
  BY <1>5, <1>8 DEF CurInv, RowsAreStored
<1> QED BY <1>3, <1>5, <1>7, <1>9, <1>10, <1>11, <1>12
        DEF CurInv, ReportsInOrder, RestOfBody, ReportedIsKept, Shrinks


\* The rest of a webhook's handling is quiet.
LEMMA HandleKeepsCurrent ==
    ASSUME TypeInv, CurInv, BatchesDone, NEW w \in Workers, Handle(w)
    PROVE  CurInv'
<1>0. w \in Actors /\ RestOfBody
  BY DEF Actors, CurInv
<1>1. CASE FindConfig(w) \/ FindConversation(w) \/ OpenConversation(w)
           \/ (UpdateStatus(w) /\ row[Head(rest[w]).sent] = None)
  <2>1. UNCHANGED <<row, reported, inbox, recorded, crossed>>
    BY <1>1 DEF FindConfig, FindConversation, OpenConversation, UpdateStatus, tables, provider,
                history
  <2>2. rest[w] # <<>>
    BY <1>1 DEF FindConfig, FindConversation, OpenConversation, UpdateStatus, At, TypeInv, TypeOK
  <2>3. \/ Answer(w) \/ Reply(w) \/ GiveUp(w)
        \/ /\ UNCHANGED <<body, rest>>
           /\ pc' = [pc EXCEPT ![w] = "findConversation"] \/ pc' = [pc EXCEPT ![w] = "open"]
              \/ pc' = [pc EXCEPT ![w] = "configOf"]
    BY <1>1 DEF FindConfig, FindConversation, OpenConversation, UpdateStatus, Say, Goto
  <2>4. CASE Answer(w) \/ Reply(w) \/ GiveUp(w)
    <3>1. Shrinks(w)
      BY <1>0, <2>2, <2>4, DoneWith
    <3> QED BY <2>1, <3>1, QuietKeepsCurrent DEF Quiet, Shrinks
  <2>5. CASE UNCHANGED <<body, rest>> /\ ~(Answer(w) \/ Reply(w) \/ GiveUp(w))
    <3>1. \A a \in Actors : pc'[a] = "save" => pc[a] = "save" /\ a # w
      BY <2>3, <2>5 DEF TypeInv, TypeOK
    <3>2. \A a \in Actors \ {w} : id'[a] = id[a]
      BY <1>0, OneActs
    <3> QED BY <1>0, <2>1, <2>5, <3>1, <3>2, QuietKeepsCurrent DEF Quiet, RestOfBody
  <2> QED BY <2>3, <2>4, <2>5
<1> QED BY <1>1, DeliverKeepsCurrent, AcknowledgeKeepsCurrent, StoreKeepsCurrent DEF Handle

\* A message is stored once it was accepted, by the one that sent it.
LEMMA SendKeepsCurrent ==
    ASSUME TypeInv, CurInv, NEW a \in Actors, Send(a)
    PROVE  CurInv'
<1>0. RestOfBody
  BY DEF CurInv
<1>1. a \in Workers /\ pc[a] \in {"findConversation", "open", "configOf", "post", "save"}
        => rest[a] # <<>>
  BY DEF TypeInv, TypeOK, Bot, Sending
<1>2. CASE ConfigOf(a) \/ Fail(a)
  <2>1. UNCHANGED <<row, reported, inbox, recorded, crossed>>
    BY <1>2 DEF ConfigOf, Fail, tables, provider
  <2>2. CASE Answer(a) \/ (GiveUp(a) /\ (a \in Workers => rest[a] # <<>>))
    <3>1. Shrinks(a)
      BY <1>0, <2>2, DoneWith
    <3> QED BY <2>1, <3>1, QuietKeepsCurrent DEF Quiet, Shrinks
  <2>3. CASE pc' = [pc EXCEPT ![a] = "post"] /\ UNCHANGED <<body, rest, locals>>
    BY <1>0, <2>1, <2>3, QuietKeepsCurrent DEF Quiet, RestOfBody, locals, TypeInv, TypeOK
  <2> QED BY <1>1, <1>2, <2>2, <2>3 DEF ConfigOf, Fail, At, Goto
<1>3. CASE Post(a)
  <2>1. PICK o \in Outbound : /\ out[o] = None
                              /\ id' = [id EXCEPT ![a] = o]
    BY <1>3 DEF Post
  <2>2. pc' = [pc EXCEPT ![a] = "save"]
        /\ UNCHANGED <<row, reported, inbox, recorded, crossed, body, rest>>
    BY <1>3 DEF Post, Goto, tables, history
  <2>3. row[o] = None
    BY <2>1 DEF TypeInv, TypeOK
  <2>4. \A b \in Actors : pc[b] = "save" => id[b] # o
    BY <2>1, NoneIsNotSaid DEF TypeInv, Bot, Sending
  <2>5. SavesOnce'
    <3>1. \A b \in Actors \ {a} : pc'[b] = pc[b] /\ id'[b] = id[b]
      BY <2>1, <2>2 DEF TypeInv, TypeOK
    <3>2. id'[a] = o
      BY <2>1 DEF TypeInv, TypeOK
    <3> QED BY <2>2, <2>3, <2>4, <3>1, <3>2 DEF SavesOnce, CurInv
  <2>6. \A e : Told(e)' <=> Told(e)
    BY <2>2 DEF Told
  <2> QED BY <2>2, <2>5, <2>6 DEF CurInv, ReportsInOrder, RestOfBody, ToldIsReported, ReportedIsKept,
          RowsAreLatest, RowsAreStored
<1>4. CASE SaveMessage(a)
  <2>1. pc[a] = "save" /\ row' = [row EXCEPT ![id[a]] = "sent"]
        /\ UNCHANGED <<reported, inbox, recorded, crossed>>
    BY <1>4 DEF SaveMessage, At, provider, history
  <2>2. Shrinks(a)
    BY <1>0, <1>1, <1>4, <2>1, DoneWith DEF SaveMessage, Actors
  <2>3. PICK o \in Outbound : o = id[a]
    BY <2>1 DEF TypeInv, Bot, Sending
  <2>4. row \in [Outbound -> Range(Statuses) \cup {None}] /\ row[o] = None
    BY <2>1, <2>3 DEF TypeInv, TypeOK, CurInv, SavesOnce
  <2>5. SavesOnce'
    <3>1. \A b \in Actors : pc'[b] = "save" =>
            /\ pc[b] = "save" /\ id'[b] = id[b] /\ id[b] # o /\ id[b] \in Outbound
            /\ row[id[b]] = None
      BY <2>1, <2>2, <2>3 DEF Shrinks, CurInv, SavesOnce, TypeInv, Bot, Sending
    <3> QED BY <2>1, <2>3, <2>4, <3>1 DEF CurInv, SavesOnce
  <2>6. ASSUME NEW x \in Outbound, x # o PROVE row'[x] = row[x]
    BY <2>1, <2>3, <2>4, <2>6
  <2>7. \A s \in Range(Statuses) : StatusEvent(o, s) \notin recorded
    BY <2>4 DEF CurInv, RowsAreLatest
  <2>8. RowsAreLatest' /\ RowsAreStored'
    BY <2>1, <2>3, <2>4, <2>6, <2>7 DEF CurInv, RowsAreLatest, RowsAreStored
  <2>9. ASSUME NEW e, Told(e)' PROVE Told(e)
    BY <2>1, <2>2, <2>9 DEF Told, Shrinks
  <2>10. ToldIsReported'
    <3> SUFFICES ASSUME NEW x \in Outbound, NEW s \in Range(Statuses), Told(StatusEvent(x, s))'
                 PROVE  Rank(s) <= Len(reported[x])
      BY <2>1 DEF ToldIsReported
    <3> QED BY <2>9 DEF ToldIsReported, CurInv
  <2> QED BY <2>1, <2>2, <2>5, <2>8, <2>10
          DEF CurInv, Shrinks, ReportsInOrder, RestOfBody, ReportedIsKept
<1> QED BY <1>2, <1>3, <1>4 DEF Send


\* The provider reports the next status, and will hand it over.
LEMMA ReportKeepsCurrent ==
    ASSUME TypeInv, CurInv, NEW o \in Outbound, Report(o)
    PROVE  CurInv'
<1> DEFINE n == Len(reported[o])
           s == Statuses[n + 1]
<1>1. n \in Nat /\ reported \in [Outbound -> Seq(Range(Statuses))]
  BY DEF TypeInv
<1>2. n < 3
  BY ReportBound
<1>3. /\ reported' = [reported EXCEPT ![o] = Append(@, s)]
      /\ inbox' = inbox \cup {StatusEvent(o, s)}
      /\ UNCHANGED <<row, recorded, crossed, pc, id, body, rest>>
  BY DEF Report, tables, locals, history
<1>4. n + 1 \in 1..3 /\ s \in Range(Statuses) /\ Rank(s) = n + 1
  BY <1>1, <1>2, Ranks
<1> HIDE DEF s
<1>5. /\ Len(reported'[o]) = n + 1 /\ reported'[o][n + 1] = s
      /\ \A i \in 1..n : reported'[o][i] = reported[o][i]
      /\ \A x \in Outbound \ {o} : reported'[x] = reported[x]
  BY <1>1, <1>3, <1>4
<1>6. ReportsInOrder'
  <2> SUFFICES ASSUME NEW x \in Outbound
               PROVE  /\ Len(reported'[x]) <= 3
                      /\ \A i \in 1..Len(reported'[x]) : reported'[x][i] = Statuses[i]
    BY DEF ReportsInOrder
  <2>1. CASE x = o
    <3>1. \A i \in 1..(n + 1) : i \in 1..n \/ i = n + 1
      BY <1>1
    <3> QED BY <1>2, <1>4, <1>5, <2>1, <3>1 DEF CurInv, ReportsInOrder, s
  <2> QED BY <1>5, <2>1 DEF CurInv, ReportsInOrder
<1>7. ToldIsReported'
  <2> SUFFICES ASSUME NEW x \in Outbound, NEW y \in Range(Statuses), Told(StatusEvent(x, y))'
               PROVE  Rank(y) <= Len(reported'[x])
    BY DEF ToldIsReported
  <2>1. CASE StatusEvent(x, y) = StatusEvent(o, s)
    BY <1>4, <1>5, <2>1, StatusEvents
  <2>2. CASE StatusEvent(x, y) # StatusEvent(o, s)
    <3>1. Told(StatusEvent(x, y))
      BY <1>3, <2>2 DEF Told
    <3>2. Rank(y) <= Len(reported[x])
      BY <3>1 DEF CurInv, ToldIsReported
    <3>3. Rank(y) \in Int
      BY Ranks
    <3> QED BY <1>1, <1>5, <3>2, <3>3
  <2> QED BY <2>1, <2>2
<1>8. ReportedIsKept'
  <2> SUFFICES ASSUME NEW x \in Outbound, NEW i \in 1..Len(reported'[x])
               PROVE  StatusEvent(x, Statuses[i]) \in inbox' \/ StatusEvent(x, Statuses[i]) \in recorded'
    BY DEF ReportedIsKept
  <2>1. CASE x = o /\ i = n + 1
    BY <1>3, <2>1 DEF s
  <2>2. CASE ~(x = o /\ i = n + 1)
    <3>1. i \in 1..Len(reported[x])
      BY <1>1, <1>5, <2>2
    <3> QED BY <1>3, <3>1 DEF CurInv, ReportedIsKept
  <2> QED BY <2>1, <2>2
<1> QED BY <1>3, <1>6, <1>7, <1>8 DEF CurInv, RestOfBody, SavesOnce, RowsAreLatest, RowsAreStored

\* Every step keeps the rows latest.
LEMMA NextKeepsCurrent == TypeInv /\ DoneInv /\ CurInv /\ [Next]_vars => CurInv'
<1> SUFFICES ASSUME TypeInv, BatchesDone, CurInv, [Next]_vars PROVE CurInv'
  BY DEF DoneInv
<1>0. RestOfBody
  BY DEF CurInv
<1>1. ASSUME NEW c \in Callers, Serve(c) PROVE CurInv'
  <2>1. UNCHANGED <<row, reported, inbox, recorded, crossed>>
    BY <1>1 DEF Serve, SendTemplate, StartConfigure, FindExisting, WriteConfig, UpdateFeatures,
                tables, provider, history
  <2>2. c \in Actors /\ c \notin Workers
    BY WhatsAppConstants DEF Actors
  <2>3. CASE Answer(c)
    <3>1. Shrinks(c)
      BY <1>0, <2>2, <2>3, DoneWith
    <3> QED BY <2>1, <3>1, QuietKeepsCurrent DEF Quiet, Shrinks
  <2>4. CASE ~Answer(c)
    <3>1. UNCHANGED <<body, rest>>
      BY <1>1, <2>4 DEF Serve, SendTemplate, StartConfigure, FindExisting, WriteConfig,
                        UpdateFeatures
    <3>2. \A a \in Actors : pc'[a] = "save" => pc[a] = "save" /\ id'[a] = id[a]
      BY <1>1, <2>4 DEF Serve, SendTemplate, StartConfigure, FindExisting, WriteConfig,
                        UpdateFeatures, Say, Goto, SetLocals, locals, TypeInv, TypeOK
    <3> QED BY <1>0, <2>1, <3>1, <3>2, QuietKeepsCurrent DEF Quiet, RestOfBody
  <2> QED BY <2>3, <2>4
<1>2. ASSUME UNCHANGED vars PROVE CurInv'
  BY <1>0, <1>2, QuietKeepsCurrent DEF vars, tables, provider, locals, history, Quiet, RestOfBody
<1>3. ASSUME Restart PROVE CurInv'
  <2>1. /\ UNCHANGED <<row, reported, inbox, recorded, crossed>>
        /\ \A a \in Actors : pc'[a] # "save" /\ body'[a] = {} /\ rest'[a] = <<>>
    BY <1>3 DEF Restart, tables, provider, history, Actors
  <2> QED BY <2>1, QuietKeepsCurrent DEF Quiet, Range, Actors
<1> QED BY <1>1, <1>2, <1>3, HandleKeepsCurrent, SendKeepsCurrent, ReportKeepsCurrent DEF Next

\* However webhooks overlap, fail, are delivered again or are cut off by a
\* restart: once the provider has nothing more to hand over of a message that
\* is stored, its row is the last status reported, or they came out of order.
THEOREM RowsFollowReports == Spec => []StatusesAreCurrent
<1>1. Init => CurInv
  BY DEF Init, CurInv, ReportsInOrder, RestOfBody, ToldIsReported, Told, ReportedIsKept, SavesOnce,
         RowsAreLatest, RowsAreStored, At, Actors, MessageEvent, StatusEvent, Range
<1>2. Init => DoneInv
  BY DEF Init, DoneInv, AnsweredMeansDone, BatchesDone, InConversation, Sending, At, Actors
<1>3. TypeInv /\ CurInv => StatusesAreCurrent
  <2> SUFFICES ASSUME TypeInv, CurInv, NEW o \in Outbound,
                      row[o] # None, reported[o] # <<>>, o \notin crossed,
                      ~\E e \in inbox : ~IsMessage(e) /\ e.sent = o
               PROVE  row[o] = Last(reported[o])
    BY DEF StatusesAreCurrent
  <2> DEFINE n == Len(reported[o])
  <2>1. n \in 1..3 /\ reported[o][n] = Statuses[n] /\ Last(reported[o]) = reported[o][n]
    <3>1. reported[o] \in Seq(Range(Statuses)) /\ reported[o] # <<>>
      BY DEF TypeInv
    <3>2. n \in Nat /\ n >= 1
      BY <3>1
    <3>3. n <= 3 /\ \A i \in 1..n : reported[o][i] = Statuses[i]
      BY DEF CurInv, ReportsInOrder
    <3>4. Last(reported[o]) = reported[o][n]
      BY DEF Last
    <3> HIDE DEF n
    <3> QED BY <3>2, <3>3, <3>4
  <2>2. \A s : StatusEvent(o, s) \notin inbox
    BY StatusEvents DEF StatusEvent
  <2>3. StatusEvent(o, Statuses[n]) \in recorded
    BY <2>1, <2>2 DEF CurInv, ReportedIsKept
  <2>4. row[o] \in Range(Statuses)
    BY DEF TypeInv, TypeOK
  <2>5. n <= Rank(row[o])
    BY <2>1, <2>3, Ranks DEF CurInv, RowsAreLatest
  <2>6. Rank(row[o]) <= n
    <3>1. CASE row[o] = "sent"
      BY <2>1, <3>1, Ranks
    <3>2. CASE StatusEvent(o, row[o]) \in recorded
      BY <2>4, <3>2 DEF CurInv, ToldIsReported, Told
    <3> QED BY <3>1, <3>2 DEF CurInv, RowsAreStored
  <2>7. Rank(row[o]) = n
    BY <2>1, <2>4, <2>5, <2>6, Ranks
  <2> QED BY <2>1, <2>4, <2>7, Ranks
<1> QED BY <1>1, <1>2, <1>3, InitTyped, NextTyped, NextKeepsDone, NextKeepsCurrent, PTL DEF Spec
===============================================================================
