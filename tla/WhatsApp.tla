------------------------------- MODULE WhatsApp -------------------------------
(***************************************************************************)
(* WhatsApp: the webhook by which the provider hands over the messages of   *)
(* customers and the statuses of what was sent to them, the bot that        *)
(* answers, the sending of templates, and the configuration of a tenant.    *)
(*                                                                          *)
(* The provider (external) puts several events into one webhook, calls      *)
(* several webhooks at once, and calls one again that was not answered by   *)
(* 200, or whose answer it has missed.  A webhook handles its events one by *)
(* one; each await is one action, which may fail.                           *)
(***************************************************************************)
EXTENDS Naturals, Sequences, FiniteSets, SequencesExt

CONSTANTS
    Incoming,       \* messages of customers, by their ids
    Sender,         \* the customer each is from
    Number,         \* the phone number each is sent to
    Greets,         \* those whose text contains "hola"
    Tenants, Numbers, Customers,
    Outbound,       \* bound: ids of messages sent to customers
    Workers,        \* webhooks that are handled at once
    Callers,        \* requests: to send a template, to configure, to set features
    None,
    MaxBatch,       \* bound: events in one webhook
    MaxReports,     \* bound: statuses of one message
    MaxCalls        \* bound: webhooks

ASSUME WhatsAppConstants ==
    /\ Sender \in [Incoming -> Customers]
    /\ Number \in [Incoming -> Numbers]
    /\ Greets \subseteq Incoming
    /\ None \notin Tenants \cup Incoming \cup Outbound
    /\ Workers \cap Callers = {}
    /\ IsFiniteSet(Workers) /\ IsFiniteSet(Incoming)
    /\ MaxBatch \in Nat /\ MaxReports \in Nat /\ MaxCalls \in Nat

VARIABLES
    feature,    \* tenants that have WHATSAPP_NOTIFICATIONS
    config,     \* the configuration of each tenant
    opened,     \* the conversation each message has opened, by its tenant
    row,        \* the stored status of each message sent
    out,        \* what the provider has accepted
    reported,   \* the statuses the provider has reported of each
    inbox,      \* the events the provider will still hand over
    pc,         \* where each webhook and request is
    body,       \* the events of each webhook
    rest,       \* those it has still to handle
    tenant,     \* local: the tenant a message or request is for
    saying,     \* local: what is being sent, and to whom
    id,         \* local: the id the provider gave it
    calls,      \* number of webhooks so far
    answered,   \* history: events that were answered by 200
    recorded,   \* history: statuses that were stored
    dropped,    \* history: messages the bot has given up
    crossed     \* history: messages whose statuses came in a wrong order

tables == <<feature, config, opened, row>>
provider == <<out, reported, inbox>>
locals == <<tenant, saying, id>>
history == <<answered, recorded, dropped, crossed>>
vars == <<tables, provider, pc, body, rest, locals, calls, history>>

------------------------------------------------------------------------------
(* Data *)

Actors == Workers \cup Callers
Statuses == <<"sent", "delivered", "read">>
Rank(s) == CHOOSE i \in DOMAIN Statuses : Statuses[i] = s

MessageEvent(m) == [message |-> m]
StatusEvent(o, s) == [sent |-> o, status |-> s]
Events == {MessageEvent(m) : m \in Incoming}
          \cup {StatusEvent(o, s) : o \in Outbound, s \in Range(Statuses)}
IsMessage(e) == "message" \in DOMAIN e

Config == [number : Numbers, enabled : BOOLEAN]
Saying == [kind : {"welcome", "reply", "template"}, to : Customers, about : Incoming \cup {None}]

ASSUME NoneIsNotSaid == None \notin Saying
ASSUME NoneIsNoStatus == None \notin Range(Statuses)

At(a, step) == pc[a] = step
Goto(a, step) == pc' = [pc EXCEPT ![a] = step]

\* The message a webhook is about.
Current(w) == Head(rest[w]).message

SetLocals(a, t, x, o) ==
    /\ tenant' = [tenant EXCEPT ![a] = t]
    /\ saying' = [saying EXCEPT ![a] = x]
    /\ id' = [id EXCEPT ![a] = o]

Answer(a) ==
    /\ Goto(a, IF a \in Workers THEN "idle" ELSE "done")
    /\ SetLocals(a, None, None, None)
    /\ body' = [body EXCEPT ![a] = {}]
    /\ rest' = [rest EXCEPT ![a] = <<>>]

\* On to the next event of the webhook.
NextEvent(w) ==
    /\ Goto(w, "event")
    /\ SetLocals(w, None, None, None)
    /\ rest' = [rest EXCEPT ![w] = Tail(@)]
    /\ UNCHANGED body

\* The bot catches every error: the message counts as handled.
GiveUp(a) ==
    IF a \in Workers
    THEN NextEvent(a) /\ dropped' = dropped \cup {Current(a)}
    ELSE Answer(a) /\ UNCHANGED dropped

Say(a, t, kind, to, about) ==
    /\ Goto(a, "configOf")
    /\ SetLocals(a, t, [kind |-> kind, to |-> to, about |-> about], None)

\* After the welcome, if there was one: a reply to those who greet.
Reply(w) ==
    IF Current(w) \in Greets
    THEN /\ Say(w, tenant[w], "reply", Sender[Current(w)], Current(w))
         /\ UNCHANGED <<body, rest>>
    ELSE NextEvent(w)

\* Conversations are found by the customer's phone number.
HasConversation(t, c) == \E m \in Incoming : opened[m] = t /\ Sender[m] = c

HasConversationOf(m, t) == opened[m] = t   \* variant: by the id of the message

------------------------------------------------------------------------------
(* The webhook *)

\* The provider calls: any events it has not got rid of, in any order.
Deliver(w) ==
    /\ At(w, "idle")
    /\ calls < MaxCalls /\ calls' = calls + 1
    /\ \E n \in 1..MaxBatch : \E b \in [1..n -> inbox] :
          /\ \A i, j \in 1..n : b[i] = b[j] => i = j
          /\ body' = [body EXCEPT ![w] = Range(b)]
          /\ rest' = [rest EXCEPT ![w] = b]
    /\ Goto(w, "event")
    /\ UNCHANGED <<tables, provider, locals, history>>

FindConfigOrNone(w) ==   \* variant: a number nobody has is not refused
    /\ At(w, "event") /\ rest[w] # <<>> /\ IsMessage(Head(rest[w]))
    /\ \E t \in Tenants \cup {None} :
          /\ t # None => config[t] # None /\ config[t].number = Number[Current(w)]
          /\ SetLocals(w, t, None, None)
    /\ Goto(w, "findConversation")
    /\ UNCHANGED <<tables, provider, body, rest, calls, history>>

\* ProcessIncomingMessage: an error here is an error of the webhook, and what
\* comes after it is not handled.
FindConfig(w) ==
    /\ At(w, "event") /\ rest[w] # <<>> /\ IsMessage(Head(rest[w]))
    /\ LET S == {t \in Tenants : config[t] # None /\ config[t].number = Number[Current(w)]}
       IN IF S = {} THEN Answer(w)
          ELSE /\ \E t \in S : SetLocals(w, t, None, None)
               /\ Goto(w, "findConversation")
               /\ UNCHANGED <<body, rest>>
    /\ UNCHANGED <<tables, provider, calls, history>>

FindConversationOfMessage(w) ==   \* variant
    /\ At(w, "findConversation")
    /\ IF HasConversationOf(Current(w), tenant[w])
       THEN Reply(w)
       ELSE Goto(w, "open") /\ UNCHANGED <<body, rest, locals>>
    /\ UNCHANGED <<tables, provider, calls, history>>

FindConversation(w) ==
    /\ At(w, "findConversation")
    /\ IF HasConversation(tenant[w], Sender[Current(w)])
       THEN Reply(w)
       ELSE Goto(w, "open") /\ UNCHANGED <<body, rest, locals>>
    /\ UNCHANGED <<tables, provider, calls, history>>

OpenTwice(w) ==   \* variant: no unique index
    /\ At(w, "open")
    /\ opened' = [opened EXCEPT ![Current(w)] = tenant[w]]
    /\ Say(w, tenant[w], "welcome", Sender[Current(w)], Current(w))
    /\ UNCHANGED <<body, rest, feature, config, row, provider, calls, history>>

\* A conversation takes the id of the message, which is unique.
OpenConversation(w) ==
    /\ At(w, "open")
    /\ IF opened[Current(w)] # None
       THEN GiveUp(w) /\ UNCHANGED opened
       ELSE /\ opened' = [opened EXCEPT ![Current(w)] = tenant[w]]
            /\ Say(w, tenant[w], "welcome", Sender[Current(w)], Current(w))
            /\ UNCHANGED <<body, rest, dropped>>
    /\ UNCHANGED <<feature, config, row, provider, calls, answered, recorded, crossed>>

Store(o, s) ==
    /\ row' = [row EXCEPT ![o] = s]
    /\ recorded' = recorded \cup {StatusEvent(o, s)}
    /\ crossed' = IF Rank(s) < Rank(row[o]) THEN crossed \cup {o} ELSE crossed

\* variant: a status of an unknown message is passed over
UpdateStatusIfKnown(w) ==
    /\ At(w, "event") /\ rest[w] # <<>> /\ ~IsMessage(Head(rest[w]))
    /\ LET e == Head(rest[w])
       IN IF row[e.sent] = None THEN UNCHANGED <<row, recorded, crossed>>
          ELSE Store(e.sent, e.status)
    /\ NextEvent(w)
    /\ UNCHANGED <<feature, config, opened, provider, calls, answered, dropped>>

\* A message may not be stored yet, or never: its status is refused, with all
\* that comes after it.  Whatever status comes last is kept.
UpdateStatus(w) ==
    /\ At(w, "event") /\ rest[w] # <<>> /\ ~IsMessage(Head(rest[w]))
    /\ LET e == Head(rest[w])
       IN IF row[e.sent] = None THEN Answer(w) /\ UNCHANGED <<row, recorded, crossed>>
          ELSE Store(e.sent, e.status) /\ NextEvent(w)
    /\ UNCHANGED <<feature, config, opened, provider, calls, answered, dropped>>

AcknowledgeAtOnce(w) ==   \* variant: 200 first, then the work
    /\ At(w, "event")
    /\ answered' = answered \cup body[w]
    /\ inbox' = inbox \ body[w]
    /\ Answer(w)
    /\ UNCHANGED <<tables, out, reported, calls, recorded, dropped, crossed>>

\* 200; the provider may miss it.
Acknowledge(w) ==
    /\ At(w, "event") /\ rest[w] = <<>>
    /\ answered' = answered \cup body[w]
    /\ inbox' \in {inbox, inbox \ body[w]}
    /\ Answer(w)
    /\ UNCHANGED <<tables, out, reported, calls, recorded, dropped, crossed>>

------------------------------------------------------------------------------
(* Sending: sendTextMessage and sendTemplateMessage *)

ConfigOf(a) ==
    /\ At(a, "configOf")
    /\ IF config[tenant[a]] # None /\ config[tenant[a]].enabled
       THEN Goto(a, "post") /\ UNCHANGED <<body, rest, locals, dropped>>
       ELSE GiveUp(a)
    /\ UNCHANGED <<tables, provider, calls, answered, recorded, crossed>>

Post(a) ==
    /\ At(a, "post")
    /\ \E o \in Outbound :
          /\ out[o] = None
          /\ out' = [out EXCEPT ![o] = saying[a]]
          /\ id' = [id EXCEPT ![a] = o]
    /\ Goto(a, "save")
    /\ UNCHANGED <<tables, reported, inbox, body, rest, tenant, saying, calls, history>>

SaveMessage(a) ==
    /\ At(a, "save")
    /\ row' = [row EXCEPT ![id[a]] = "sent"]
    /\ IF a \in Callers THEN Answer(a)
       ELSE IF saying[a].kind = "welcome" THEN Reply(a) ELSE NextEvent(a)
    /\ UNCHANGED <<feature, config, opened, provider, calls, history>>

\* A call of the database or of the provider fails.
Fail(a) ==
    /\ \/ /\ At(a, "event") /\ rest[a] # <<>>
          /\ Answer(a)
          /\ UNCHANGED dropped
       \/ /\ pc[a] \in {"findConversation", "open", "configOf", "post", "save"}
          /\ GiveUp(a)
       \/ /\ pc[a] \in {"findExisting", "create", "update"}
          /\ Answer(a)
          /\ UNCHANGED dropped
    /\ UNCHANGED <<tables, provider, calls, answered, recorded, crossed>>

\* The process ends, and is started again.
Restart ==
    /\ pc' = [a \in Actors |-> IF a \in Workers \/ At(a, "idle") THEN "idle" ELSE "done"]
    /\ body' = [a \in Actors |-> {}] /\ rest' = [a \in Actors |-> <<>>]
    /\ tenant' = [a \in Actors |-> None] /\ saying' = [a \in Actors |-> None]
    /\ id' = [a \in Actors |-> None]
    /\ UNCHANGED <<tables, provider, calls, history>>

\* external: the provider tells of a message's way to the customer.
Report(o) ==
    /\ out[o] # None /\ Len(reported[o]) < Min({MaxReports, Len(Statuses)})
    /\ LET s == Statuses[Len(reported[o]) + 1]
       IN /\ reported' = [reported EXCEPT ![o] = Append(@, s)]
          /\ inbox' = inbox \cup {StatusEvent(o, s)}
    /\ UNCHANGED <<tables, out, pc, body, rest, locals, calls, history>>

------------------------------------------------------------------------------
(* Requests *)

SendTemplate(c) ==
    /\ At(c, "idle")
    /\ \E t \in Tenants, to \in Customers : Say(c, t, "template", to, None)
    /\ UNCHANGED <<tables, provider, body, rest, calls, history>>

\* ConfigureWhatsApp: refused without the feature.
StartConfigure(c) ==
    /\ At(c, "idle")
    /\ \E t \in Tenants : t \in feature /\ SetLocals(c, t, None, None)
    /\ Goto(c, "findExisting")
    /\ UNCHANGED <<tables, provider, body, rest, calls, history>>

FindExisting(c) ==
    /\ At(c, "findExisting")
    /\ Goto(c, IF config[tenant[c]] = None THEN "create" ELSE "update")
    /\ UNCHANGED <<tables, provider, body, rest, locals, calls, history>>

\* There is one configuration to a tenant: the second create fails.
WriteConfig(c) ==
    /\ pc[c] \in {"create", "update"}
    /\ IF At(c, "create") /\ config[tenant[c]] # None THEN UNCHANGED config
       ELSE \E x \in Config : config' = [config EXCEPT ![tenant[c]] = x]
    /\ Answer(c)
    /\ UNCHANGED <<feature, opened, row, provider, calls, history>>

UpdateFeatures(c) ==
    /\ At(c, "idle")
    /\ \E t \in Tenants : feature' \in {feature \cup {t}, feature \ {t}}
    /\ Answer(c)
    /\ UNCHANGED <<config, opened, row, provider, calls, history>>

------------------------------------------------------------------------------
Init ==
    /\ feature \in SUBSET Tenants
    /\ config \in [Tenants -> Config \cup {None}]
    /\ \A t \in Tenants : config[t] # None => t \in feature
    /\ opened = [m \in Incoming |-> None]
    /\ row = [o \in Outbound |-> None]
    /\ out = [o \in Outbound |-> None]
    /\ reported = [o \in Outbound |-> <<>>]
    /\ inbox \in SUBSET {MessageEvent(m) : m \in Incoming}
    /\ pc \in [Actors -> {"idle", "done"}]
    /\ \A w \in Workers : At(w, "idle")
    /\ body = [a \in Actors |-> {}]
    /\ rest = [a \in Actors |-> <<>>]
    /\ tenant = [a \in Actors |-> None]
    /\ saying = [a \in Actors |-> None]
    /\ id = [a \in Actors |-> None]
    /\ calls \in 0..MaxCalls
    /\ answered = {} /\ recorded = {} /\ dropped = {} /\ crossed = {}

Handle(w) ==
    \/ Deliver(w) \/ FindConfig(w) \/ FindConversation(w) \/ OpenConversation(w)
    \/ UpdateStatus(w) \/ Acknowledge(w)

Send(a) == ConfigOf(a) \/ Post(a) \/ SaveMessage(a) \/ Fail(a)

Serve(c) ==
    \/ SendTemplate(c)
    \/ StartConfigure(c) \/ FindExisting(c) \/ WriteConfig(c)
    \/ UpdateFeatures(c)

Next ==
    \/ \E w \in Workers : Handle(w)
    \/ \E a \in Actors : Send(a)
    \/ \E c \in Callers : Serve(c)
    \/ \E o \in Outbound : Report(o)
    \/ Restart

Spec == Init /\ [][Next]_vars

------------------------------------------------------------------------------
(* Properties *)

TypeOK ==
    /\ feature \subseteq Tenants
    /\ config \in [Tenants -> Config \cup {None}]
    /\ opened \in [Incoming -> Tenants \cup {None}]
    /\ row \in [Outbound -> Range(Statuses) \cup {None}]
    /\ out \in [Outbound -> Saying \cup {None}]
    /\ \A o \in Outbound : row[o] # None => out[o] # None
    /\ inbox \subseteq Events
    /\ pc \in [Actors -> {"idle", "done", "event", "findConversation", "open", "configOf", "post",
                          "save", "findExisting", "create", "update"}]
    /\ \A w \in Workers : pc[w] \in {"findConversation", "open"} =>
          rest[w] # <<>> /\ IsMessage(Head(rest[w])) /\ tenant[w] # None
    /\ tenant \in [Actors -> Tenants \cup {None}]
    /\ saying \in [Actors -> Saying \cup {None}]
    /\ id \in [Actors -> Outbound \cup {None}]
    /\ answered \subseteq Events /\ recorded \subseteq Events /\ dropped \subseteq Incoming

\* However often a message is delivered, by however many webhooks at once, its
\* sender is welcomed for it at most once: the conversation that comes before
\* the welcome takes the id of the message.  (Replies have no such guard.)
WelcomesAreNotRepeated ==
    \A o, x \in Outbound :
        /\ out[o] # None /\ out[x] # None
        /\ out[o].kind = "welcome" /\ out[x].kind = "welcome" /\ out[o].about = out[x].about
        => o = x

\* Nothing makes the conversations of a customer unique, but those who open
\* one have all looked before the first was opened: there are never more than
\* webhooks are handled at once, whatever is delivered again later.
ConversationsAreFew ==
    \A t \in Tenants, c \in Customers :
        Cardinality({m \in Incoming : opened[m] = t /\ Sender[m] = c}) <= Cardinality(Workers)

Done(e) ==
    IF IsMessage(e)
    THEN \/ e.message \in dropped
         \/ /\ \E t \in Tenants : HasConversation(t, Sender[e.message])
            /\ e.message \in Greets =>
                  \E o \in Outbound : /\ out[o] # None /\ out[o].kind = "reply"
                                      /\ out[o].about = e.message
    ELSE e \in recorded

\* What the provider was told is done, so that it forgets it, has been done: a
\* status has been stored, and a message has been answered if it greets, in a
\* conversation of its sender, unless the bot has given it up.
AnsweredMeansDone == \A e \in answered : Done(e)

\* When the provider has nothing left to tell of a message, what is stored is
\* the last it told, unless statuses came in a wrong order: the early ones,
\* which find no row yet, are refused and so come again.
StatusesAreCurrent ==
    \A o \in Outbound :
        /\ row[o] # None /\ reported[o] # <<>>
        /\ ~\E e \in inbox : ~IsMessage(e) /\ e.sent = o
        => row[o] = Last(reported[o]) \/ o \in crossed
==============================================================================
