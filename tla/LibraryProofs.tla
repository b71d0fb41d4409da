---------------------------- MODULE LibraryProofs ----------------------------
(***************************************************************************)
(* What ModelLibrary promises, for any number of configs, keys, pages and   *)
(* clicks: every call is answered once, the stored configs keep one default *)
(* and no key without its config, what is shown as ready resolves, and what *)
(* the user chose is kept.  LibraryInd is inductive by itself; ChoicesKept, *)
(* which speaks of runs without a failure and without crossed flows, is     *)
(* inductive together with it.                                              *)
(***************************************************************************)
EXTENDS ModelLibrary, FiniteSetTheorems, TLAPS

-----------------------------------------------------------------------------
(* Types.                                                                   *)
Reasons == {"initial", "permissions", "settings", "provider", "voice-terminal"}
Readings == [row : Rows \cup {None}, key : Keys \cup {None}]
Payloads == Settings \cup Models \cup Configs \cup Readings \cup {None}
Gets == [do : {"get"}, reason : Reasons]
Sets ==
  {Set("theme", t) : t \in Themes} \cup {Set("engine_mode", mode) : mode \in EngineModes}
    \cup {Set(cap, c) : cap \in Capabilities, c \in Configs \cup {None}}
Saves == [do : {"save"}, id : Configs \cup {None}, req : Requests]
Deletes == [do : {"delete"}, id : Configs]
Tests == [do : {"test"}, id : Configs \cup {None}, onError : {<<>>, <<Get("provider")>>}]
Activations == [do : {"activate"}, capability : Capabilities]
Calls == Gets \cup Sets \cup Saves \cup Deletes \cup Tests \cup Activations
Replies == [flow : Flows, ok : BOOLEAN]
Forms == [id : Configs \cup {None}, is_default : BOOLEAN, flow : Flows \cup {None}]

TypesInd ==
  /\ snapshot = None \/ snapshot \in Models
  /\ intent \in Settings
  /\ todo \in [Flows -> Seq(Calls)]
  /\ payload \in [Flows -> Payloads]
  /\ origin \in [Flows -> Configs \cup {"form", None}]
  /\ inbox \in Seq(Flows) /\ waiting \subseteq Flows /\ outbox \in Seq(Replies)
  /\ form = None \/ form \in Forms
  /\ clicks \in 0 .. MaxClicks
  /\ overlapped \in BOOLEAN /\ failed \in BOOLEAN

(* Where the call of a flow is: one place at a time.                        *)
Asks(f) == \E i \in DOMAIN inbox : inbox[i] = f
Told(f) == \E i \in DOMAIN outbox : outbox[i].flow = f
ToldOk(f) == \E i \in DOMAIN outbox : outbox[i].flow = f /\ outbox[i].ok
AskedOnce == \A i, j \in DOMAIN inbox : inbox[i] = inbox[j] => i = j
ToldOnce == \A i, j \in DOMAIN outbox : outbox[i].flow = outbox[j].flow => i = j
OnePlace ==
  /\ AskedOnce /\ ToldOnce
  /\ \A f \in Flows :
       /\ ~(Asks(f) /\ f \in waiting) /\ ~(Asks(f) /\ Told(f)) /\ ~(f \in waiting /\ Told(f))
       /\ Idle(f) <=> ~(Asks(f) \/ f \in waiting \/ Told(f))

(* What is left to do of a page's flow.                                     *)
PageCalls(calls) ==
  \A i \in DOMAIN calls :
    /\ calls[i].do \in {"save", "delete"} => i = 1
    /\ calls[i].do = "test" => i = 1 \/ (i = 2 /\ calls[1].do = "save")
    /\ calls[i].do = "activate" =>
         /\ i = 3 /\ calls[1].do = "save" /\ calls[2].do = "test"
         /\ 4 \in DOMAIN calls /\ calls[4] = Get("settings")
    /\ calls[i].do = "settings" =>
         /\ i = 1 \/ (i = 2 /\ calls[1].do = "test")
         /\ i + 1 \in DOMAIN calls /\ calls[i + 1] = Get("settings")
ChromeCalls(calls) ==
  \A i \in DOMAIN calls :
    \/ calls[i] = Get("settings") /\ (i + 1 \in DOMAIN calls => calls[i + 1].do = "settings")
    \/ /\ calls[i].do = "settings" /\ calls[i].field = "theme"
       /\ i + 1 \in DOMAIN calls /\ calls[i + 1] = Get("settings")
(* A card or the form that shows the flow has something left to show.       *)
Attended(calls) ==
  /\ calls # <<>>
  /\ calls[1].do = "test" => 2 \in DOMAIN calls
  /\ calls[1].do = "save" => 2 \in DOMAIN calls /\ calls[2].do = "test" /\ 3 \in DOMAIN calls
FlowOf(f, calls, who) ==
  IF f = Chrome THEN ChromeCalls(calls) /\ who = None
  ELSE PageCalls(calls) /\ (who # None => Attended(calls))
FlowCalls == \A f \in Flows : FlowOf(f, todo[f], origin[f])

(* Ids that were handed out, and a first save that has no key.              *)
IdsKnown(calls, ids) ==
  \A i \in DOMAIN calls :
    /\ calls[i].do = "save" =>
         calls[i].id \in ids \cup {None} /\ (calls[i].id = None => calls[i].req.key # None)
    /\ calls[i].do = "test" => calls[i].id \in ids \/ (i = 2 /\ calls[1].do = "save")
Minted ==
  /\ snapshot # None => Existing(snapshot.config) \subseteq minted
  /\ form # None => form.id \in minted \cup {None}
  /\ \A f \in Flows : IdsKnown(todo[f], minted)

(* What was saved without a key is revived.                                 *)
KeysKept == \A c \in Configs \ revived : config[c] # None => secret[c] # None
StoreInd ==
  /\ StoreTypeOK /\ revived \subseteq minted /\ Existing(config) \subseteq minted
  /\ KeysKept /\ SingleDefault /\ KeysHaveOwners

(* What travels with a call.                                                *)
Carries(f, call) ==
  /\ call.do = "settings" => snapshot # None /\ (Asks(f) => payload[f] \in Settings)
  /\ call.do = "get" /\ (f \in waiting \/ ToldOk(f)) =>
       payload[f] \in Models /\ Existing(payload[f].config) \subseteq minted
  /\ call.do = "save" /\ ToldOk(f) => payload[f] \in minted
  /\ f \in waiting =>
       \/ call.do = "test" /\ payload[f] \in Readings
       \/ call.do = "get" /\ call.reason \in MicReasons
Travels == \A f \in Flows : todo[f] # <<>> => Carries(f, todo[f][1])
SnapshotNeeded ==
  snapshot = None => \A f \in Flows : \A i \in DOMAIN todo[f] : todo[f][i].do = "get"
FailuresNoted == \A i \in DOMAIN outbox : ~outbox[i].ok => failed

LibraryInd ==
  /\ TypesInd /\ StoreInd /\ OnePlace /\ FlowCalls /\ Minted /\ Travels
  /\ SnapshotNeeded /\ FailuresNoted

-----------------------------------------------------------------------------
(* The user's choices.                                                      *)
Setting(f) == ~Idle(f) /\ todo[f][1].do = "settings"
Rereading(f) == ~Idle(f) /\ todo[f][1] = Get("settings")
Sent(f) == Setting(f) /\ Asks(f)
(* A theme that is chosen and not stored.                                   *)
Chained == Len(todo[Chrome]) > 2 \/ Sent(Chrome)
LastTheme == todo[Chrome][Len(todo[Chrome]) - 1].value
(* What is read of the settings is late, and read again.                    *)
Behind(f) == Rereading(f) \/ (Setting(f) /\ Told(f))
Stale(j) == \E k \in DOMAIN outbox : k > j /\ Setting(outbox[k].flow)

OneWriter == \A f, g \in Unsettled : f = g
(* Only the form has a setting to save after its test.                      *)
Wirings ==
  \A f \in Pages : \A i \in DOMAIN todo[f] :
    todo[f][i].do = "activate" \/ (todo[f][i].do = "settings" /\ i # 1) => origin[f] = "form"
PagesSend == \A f \in Pages : Sent(f) => payload[f] = intent
ChainSends == Sent(Chrome) => payload[Chrome] = [settings EXCEPT !.theme = todo[Chrome][1].value]
ChainEnds == Chained => intent = [settings EXCEPT !.theme = LastTheme]
Settled == ~Chained /\ (\A f \in Pages : ~Sent(f)) => settings = intent
Seen == snapshot # None => snapshot.settings = settings \/ \E f \in Flows : Behind(f)
WaitsFresh == \A f \in waiting : todo[f][1].do = "get" => payload[f].settings = settings
RepliesFresh ==
  \A i \in DOMAIN outbox :
    todo[outbox[i].flow][1].do = "get" => payload[outbox[i].flow].settings = settings \/ Stale(i)

ChoiceInd ==
  /\ OneWriter /\ Wirings /\ PagesSend /\ ChainSends /\ ChainEnds /\ Settled
  /\ Seen /\ WaitsFresh /\ RepliesFresh
ChoicesKept == ~failed /\ ~overlapped => ChoiceInd

-----------------------------------------------------------------------------
(* Queues.                                                                  *)
Pushed(s, t, m) ==
  /\ Len(s) \in Nat /\ Len(t) = Len(s) + 1
  /\ DOMAIN s = 1 .. Len(s) /\ DOMAIN t = 1 .. Len(t)
  /\ t[Len(t)] = m /\ \A i \in 1 .. Len(s) : t[i] = s[i]

Popped(s, t) ==
  /\ Len(s) \in Nat \ {0} /\ Len(t) = Len(s) - 1
  /\ DOMAIN s = 1 .. Len(s) /\ DOMAIN t = 1 .. Len(t)
  /\ \A i \in 1 .. Len(t) : t[i] = s[i + 1]

LEMMA Pushing ==
  ASSUME NEW S, NEW s \in Seq(S), NEW m \in S
  PROVE  Append(s, m) \in Seq(S) /\ Pushed(s, Append(s, m), m)
BY DEF Pushed

LEMMA Popping ==
  ASSUME NEW S, NEW s \in Seq(S), s # <<>>
  PROVE  Tail(s) \in Seq(S) /\ Popped(s, Tail(s)) /\ Head(s) = s[1] /\ s[1] \in S
BY DEF Popped

LEMMA PoppedAt ==
  ASSUME NEW s, NEW t, Popped(s, t)
  PROVE  /\ \A i \in DOMAIN t : i + 1 \in DOMAIN s /\ t[i] = s[i + 1] /\ i \in Nat /\ i >= 1
         /\ \A i \in DOMAIN s : i # 1 => i - 1 \in DOMAIN t /\ t[i - 1] = s[i]
         /\ 1 \in DOMAIN s /\ \A i \in DOMAIN s : i \in Nat /\ i >= 1
<1> USE DEF Popped
<1>1. ASSUME NEW i \in DOMAIN t
      PROVE  i + 1 \in DOMAIN s /\ t[i] = s[i + 1] /\ i \in Nat /\ i >= 1
  OBVIOUS
<1>2. ASSUME NEW i \in DOMAIN s, i # 1 PROVE i - 1 \in DOMAIN t /\ t[i - 1] = s[i]
  <2>1. i - 1 \in DOMAIN t /\ (i - 1) + 1 = i
    BY <1>2
  <2> QED BY <1>1, <2>1
<1> QED BY <1>1, <1>2

LEMMA PushedAt ==
  ASSUME NEW s, NEW t, NEW m, Pushed(s, t, m)
  PROVE  /\ \A i \in DOMAIN t :
              i \in Nat /\ ((i \in DOMAIN s /\ t[i] = s[i]) \/ (i = Len(t) /\ t[i] = m))
         /\ \A i \in DOMAIN s : i \in DOMAIN t /\ t[i] = s[i] /\ i < Len(t)
         /\ Len(t) \in DOMAIN t /\ t[Len(t)] = m
<1> USE DEF Pushed
<1>1. ASSUME NEW i \in DOMAIN t
      PROVE  i \in Nat /\ ((i \in DOMAIN s /\ t[i] = s[i]) \/ (i = Len(t) /\ t[i] = m))
  <2>1. CASE i = Len(t)
    BY <2>1
  <2>2. CASE i # Len(t)
    <3>1. i \in 1 .. Len(s)
      BY <2>2
    <3>2. i \in Nat
      BY <3>1
    <3>3. i \in DOMAIN s /\ t[i] = s[i]
      BY <3>1
    <3> HIDE DEF Pushed
    <3> QED BY <3>2, <3>3
  <2> QED BY <2>1, <2>2
<1>2. ASSUME NEW i \in DOMAIN s PROVE i \in DOMAIN t /\ t[i] = s[i] /\ i < Len(t)
  OBVIOUS
<1>3. Len(t) \in DOMAIN t /\ t[Len(t)] = m
  OBVIOUS
<1> QED BY <1>1, <1>2, <1>3

-----------------------------------------------------------------------------
(* Calls.                                                                   *)
LEMMA SetShape ==
  ASSUME NEW call \in Sets
  PROVE  /\ call.do = "settings" /\ call = Set(call.field, call.value)
         /\ \/ call.field = "theme" /\ call.value \in Themes
            \/ call.field = "engine_mode" /\ call.value \in EngineModes
            \/ call.field \in Capabilities /\ call.value \in Configs \cup {None}
BY DEF Sets, Set

LEMMA CallShape ==
  ASSUME NEW call \in Calls
  PROVE  /\ call.do \in {"get", "settings", "save", "delete", "test", "activate"}
         /\ call.do = "get" => call \in Gets
         /\ call.do = "settings" => call \in Sets
         /\ call.do = "save" => call \in Saves
         /\ call.do = "delete" => call \in Deletes
         /\ call.do = "test" => call \in Tests
         /\ call.do = "activate" => call \in Activations
<1>1. \A set \in Sets : set.do = "settings"
  BY SetShape
<1> QED BY <1>1 DEF Calls, Gets, Saves, Deletes, Tests, Activations

LEMMA CallsMade ==
  /\ \A reason \in Reasons : Get(reason) \in Calls
  /\ \A t \in Themes : Set("theme", t) \in Calls
  /\ \A mode \in EngineModes : Set("engine_mode", mode) \in Calls
  /\ \A cap \in Capabilities, c \in Configs \cup {None} : Set(cap, c) \in Calls
  /\ \A id \in Configs \cup {None}, req \in Requests : Save(id, req) \in Calls
  /\ \A id \in Configs : Delete(id) \in Calls
  /\ \A id \in Configs \cup {None}, calls \in {<<>>, <<Get("provider")>>} : Test(id, calls) \in Calls
  /\ \A cap \in Capabilities : Activate(cap) \in Calls
BY DEF Calls, Gets, Sets, Saves, Deletes, Tests, Activations, Get, Save, Delete, Test, Activate

LEMMA SettingStored ==
  ASSUME NEW s \in Settings, NEW call \in Calls, call.do = "settings"
  PROVE  [s EXCEPT ![call.field] = call.value] \in Settings
<1>1. \/ call.field = "theme" /\ call.value \in Themes
      \/ call.field = "engine_mode" /\ call.value \in EngineModes
      \/ call.field \in Capabilities /\ call.value \in Configs \cup {None}
  BY CallShape, SetShape
<1> QED BY <1>1 DEF Settings, Capabilities

LEMMA FirstCall ==
  ASSUME TypesInd, NEW f \in Flows, todo[f] # <<>>
  PROVE  /\ Head(todo[f]) = todo[f][1] /\ todo[f][1] \in Calls /\ 1 \in DOMAIN todo[f]
         /\ Tail(todo[f]) \in Seq(Calls) /\ Popped(todo[f], Tail(todo[f]))
<1>1. todo[f] \in Seq(Calls)
  BY DEF TypesInd
<1>2. Head(todo[f]) = todo[f][1] /\ todo[f][1] \in Calls
      /\ Tail(todo[f]) \in Seq(Calls) /\ Popped(todo[f], Tail(todo[f]))
  BY <1>1, Popping
<1>3. 1 \in DOMAIN todo[f]
  BY <1>2, PoppedAt
<1> QED BY <1>2, <1>3

-----------------------------------------------------------------------------
(* A call's way.                                                            *)

LEMMA AskPushed ==
  ASSUME TypesInd, AskedOnce, NEW f \in Flows, ~Asks(f), inbox' = Append(inbox, f)
  PROVE  /\ inbox' \in Seq(Flows) /\ AskedOnce' /\ Asks(f)'
         /\ \A g \in Flows : g # f => (Asks(g)' <=> Asks(g))
<1>1. inbox' \in Seq(Flows) /\ Pushed(inbox, inbox', f)
  BY Pushing DEF TypesInd
<1>2. /\ \A i \in DOMAIN inbox' : (i \in DOMAIN inbox /\ inbox'[i] = inbox[i])
                                    \/ (i = Len(inbox') /\ inbox'[i] = f)
      /\ \A i \in DOMAIN inbox : i \in DOMAIN inbox' /\ inbox'[i] = inbox[i]
      /\ Len(inbox') \in DOMAIN inbox' /\ inbox'[Len(inbox')] = f
  BY <1>1, PushedAt
<1>3. AskedOnce'
  BY <1>2 DEF AskedOnce, Asks
<1>4. Asks(f)' /\ \A g \in Flows : g # f => (Asks(g)' <=> Asks(g))
  BY <1>2 DEF Asks
<1> QED BY <1>1, <1>3, <1>4

LEMMA AskPopped ==
  ASSUME TypesInd, AskedOnce, NEW f, inbox # <<>>, f = Head(inbox), inbox' = Tail(inbox)
  PROVE  /\ f \in Flows /\ Asks(f)
         /\ inbox' \in Seq(Flows) /\ AskedOnce'
         /\ \A g \in Flows : Asks(g)' <=> Asks(g) /\ g # f
<1>1. /\ inbox' \in Seq(Flows) /\ Popped(inbox, inbox') /\ f = inbox[1] /\ f \in Flows
  BY Popping DEF TypesInd
<1>2. /\ \A i \in DOMAIN inbox' : i + 1 \in DOMAIN inbox /\ inbox'[i] = inbox[i + 1] /\ i \in Nat /\ i >= 1
      /\ \A i \in DOMAIN inbox : i # 1 => i - 1 \in DOMAIN inbox' /\ inbox'[i - 1] = inbox[i]
      /\ 1 \in DOMAIN inbox
  BY <1>1, PoppedAt
<1>3. Asks(f)
  BY <1>1, <1>2 DEF Asks
<1>4. ASSUME NEW g \in Flows, Asks(g)' PROVE Asks(g) /\ g # f
  <2>1. PICK i \in DOMAIN inbox' : inbox'[i] = g
    BY <1>4 DEF Asks
  <2>2. i + 1 \in DOMAIN inbox /\ inbox[i + 1] = g /\ i + 1 # 1
    BY <2>1, <1>2
  <2> QED BY <2>2, <1>1, <1>2 DEF Asks, AskedOnce
<1>5. ASSUME NEW g \in Flows, Asks(g), g # f PROVE Asks(g)'
  <2>1. PICK i \in DOMAIN inbox : inbox[i] = g
    BY <1>5 DEF Asks
  <2>2. i - 1 \in DOMAIN inbox' /\ inbox'[i - 1] = g
    BY <2>1, <1>5, <1>1, <1>2
  <2> QED BY <2>2 DEF Asks
<1>6. ASSUME NEW i \in DOMAIN inbox', NEW j \in DOMAIN inbox', inbox'[i] = inbox'[j]
      PROVE  i = j
  <2>1. i + 1 = j + 1 /\ i \in Nat /\ j \in Nat
    BY <1>6, <1>2 DEF AskedOnce
  <2> QED BY <2>1
<1> QED BY <1>1, <1>3, <1>4, <1>5, <1>6 DEF AskedOnce

LEMMA TellPushed ==
  ASSUME TypesInd, ToldOnce, NEW f \in Flows, ~Told(f), NEW ok \in BOOLEAN, Reply(f, ok)
  PROVE  /\ outbox' \in Seq(Replies) /\ ToldOnce' /\ Told(f)' /\ (ToldOk(f)' <=> ok)
         /\ Pushed(outbox, outbox', [flow |-> f, ok |-> ok])
         /\ \A g \in Flows : g # f => (Told(g)' <=> Told(g)) /\ (ToldOk(g)' <=> ToldOk(g))
<1> DEFINE reply == [flow |-> f, ok |-> ok]
<1>1. reply \in Replies /\ reply.flow = f /\ reply.ok = ok
  BY DEF Replies
<1>2. outbox \in Seq(Replies) /\ outbox' = Append(outbox, reply)
  BY DEF TypesInd, Reply
<1>3. Pushed(outbox, outbox', [flow |-> f, ok |-> ok])
  <2> HIDE DEF reply
  <2>1. Pushed(outbox, outbox', reply)
    BY <1>1, <1>2, Pushing
  <2> QED BY <2>1 DEF reply
<1> HIDE DEF reply
<1>4. outbox' \in Seq(Replies) /\ Pushed(outbox, outbox', reply)
  BY <1>1, <1>2, Pushing
<1>5. /\ \A i \in DOMAIN outbox' : (i \in DOMAIN outbox /\ outbox'[i] = outbox[i])
                                     \/ (i = Len(outbox') /\ outbox'[i] = reply)
      /\ \A i \in DOMAIN outbox : i \in DOMAIN outbox' /\ outbox'[i] = outbox[i]
      /\ Len(outbox') \in DOMAIN outbox' /\ outbox'[Len(outbox')] = reply
  BY <1>4, PushedAt
<1>6. \A i \in DOMAIN outbox : outbox[i].flow # f
  BY DEF Told
<1>7. ToldOnce'
  BY <1>1, <1>5, <1>6 DEF ToldOnce
<1>8. Told(f)' /\ (ToldOk(f)' <=> ok)
  BY <1>1, <1>5, <1>6 DEF Told, ToldOk
<1>9. \A g \in Flows : g # f => (Told(g)' <=> Told(g)) /\ (ToldOk(g)' <=> ToldOk(g))
  BY <1>1, <1>5 DEF Told, ToldOk
<1> QED BY <1>3, <1>4, <1>7, <1>8, <1>9

LEMMA TellPopped ==
  ASSUME TypesInd, ToldOnce, outbox # <<>>, outbox' = Tail(outbox),
         NEW reply, reply = Head(outbox)
  PROVE  /\ reply \in Replies /\ reply = outbox[1] /\ Told(reply.flow)
         /\ reply.ok <=> ToldOk(reply.flow)
         /\ outbox' \in Seq(Replies) /\ ToldOnce' /\ Popped(outbox, outbox')
         /\ \A g \in Flows : /\ Told(g)' <=> Told(g) /\ g # reply.flow
                             /\ ToldOk(g)' <=> ToldOk(g) /\ g # reply.flow
<1>1. /\ outbox' \in Seq(Replies) /\ Popped(outbox, outbox') /\ reply = outbox[1]
      /\ reply \in Replies
  BY Popping DEF TypesInd
<1>2. /\ \A i \in DOMAIN outbox' : i + 1 \in DOMAIN outbox /\ outbox'[i] = outbox[i + 1] /\ i \in Nat /\ i >= 1
      /\ \A i \in DOMAIN outbox : i # 1 => i - 1 \in DOMAIN outbox' /\ outbox'[i - 1] = outbox[i]
      /\ 1 \in DOMAIN outbox
  BY <1>1, PoppedAt
<1>3. Told(reply.flow) /\ (reply.ok => ToldOk(reply.flow))
  BY <1>1, <1>2 DEF Told, ToldOk
<1>4. ToldOk(reply.flow) => reply.ok
  BY <1>1, <1>2 DEF ToldOk, ToldOnce
<1>5. ASSUME NEW i \in DOMAIN outbox'
      PROVE  /\ i + 1 \in DOMAIN outbox /\ outbox[i + 1] = outbox'[i]
             /\ outbox[i + 1].flow # reply.flow
  <2>1. i + 1 \in DOMAIN outbox /\ outbox[i + 1] = outbox'[i] /\ i + 1 # 1
    BY <1>2
  <2> QED BY <2>1, <1>1, <1>2 DEF ToldOnce
<1>6. ASSUME NEW g \in Flows PROVE (Told(g)' => Told(g) /\ g # reply.flow)
                                   /\ (ToldOk(g)' => ToldOk(g) /\ g # reply.flow)
  BY <1>5 DEF Told, ToldOk
<1>7. ASSUME NEW g \in Flows, g # reply.flow, NEW i \in DOMAIN outbox, outbox[i].flow = g
      PROVE  i - 1 \in DOMAIN outbox' /\ outbox'[i - 1] = outbox[i]
  BY <1>7, <1>1, <1>2
<1>8. ASSUME NEW g \in Flows, g # reply.flow PROVE (Told(g) => Told(g)') /\ (ToldOk(g) => ToldOk(g)')
  BY <1>7, <1>8 DEF Told, ToldOk
<1>9. ASSUME NEW i \in DOMAIN outbox', NEW j \in DOMAIN outbox', outbox'[i].flow = outbox'[j].flow
      PROVE  i = j
  <2>1. i + 1 = j + 1 /\ i \in Nat /\ j \in Nat
    BY <1>9, <1>2 DEF ToldOnce
  <2> QED BY <2>1
<1> QED BY <1>1, <1>3, <1>4, <1>6, <1>8, <1>9 DEF ToldOnce

(* The main process takes a request of f: the reply is on its way, or f is  *)
(* waited for.                                                              *)
Serves(f) ==
  /\ inbox # <<>> /\ f = Head(inbox) /\ inbox' = Tail(inbox)
  /\ UNCHANGED todo
  /\ \/ \E ok \in BOOLEAN : Reply(f, ok) /\ UNCHANGED waiting
     \/ UNCHANGED outbox /\ waiting' = waiting \cup {f}

LEMMA ServesPlace ==
  ASSUME TypesInd, OnePlace, NEW f, Serves(f)
  PROVE  /\ OnePlace' /\ f \in Flows /\ todo[f] # <<>>
         /\ inbox' \in Seq(Flows) /\ outbox' \in Seq(Replies) /\ waiting' \subseteq Flows
         /\ ~Asks(f)' /\ Asks(f) /\ ~Told(f) /\ f \notin waiting
         /\ \A g \in Flows : g # f =>
              /\ Asks(g)' <=> Asks(g)
              /\ ToldOk(g)' <=> ToldOk(g)
              /\ g \in waiting' <=> g \in waiting
<1>1. /\ f \in Flows /\ Asks(f)
      /\ inbox' \in Seq(Flows) /\ AskedOnce'
      /\ \A g \in Flows : Asks(g)' <=> Asks(g) /\ g # f
  BY AskPopped DEF Serves, OnePlace
<1>2. ~Told(f) /\ f \notin waiting /\ todo[f] # <<>>
  BY <1>1 DEF OnePlace, Idle
<1>3. CASE UNCHANGED outbox /\ waiting' = waiting \cup {f}
  <2>1. /\ \A g \in Flows : (Told(g)' <=> Told(g)) /\ (ToldOk(g)' <=> ToldOk(g))
        /\ ToldOnce'
    BY <1>3 DEF Told, ToldOk, ToldOnce, OnePlace
  <2>2. OnePlace'
    BY <1>1, <1>2, <1>3, <2>1 DEF OnePlace, Idle, Serves
  <2> QED BY <1>1, <1>2, <1>3, <2>1, <2>2 DEF TypesInd
<1>4. ASSUME NEW ok \in BOOLEAN, Reply(f, ok), UNCHANGED waiting
      PROVE  /\ OnePlace' /\ outbox' \in Seq(Replies)
             /\ \A g \in Flows : g # f => (ToldOk(g)' <=> ToldOk(g))
  <2>1. /\ outbox' \in Seq(Replies) /\ ToldOnce' /\ Told(f)'
        /\ \A g \in Flows : g # f => (Told(g)' <=> Told(g)) /\ (ToldOk(g)' <=> ToldOk(g))
    BY <1>1, <1>2, <1>4, TellPushed DEF OnePlace
  <2>2. OnePlace'
    BY <1>1, <1>2, <1>4, <2>1 DEF OnePlace, Idle, Serves
  <2> QED BY <2>1, <2>2
<1> QED BY <1>1, <1>2, <1>3, <1>4 DEF Serves, TypesInd

(* What f waited for has come.                                              *)
Answers(f, ok) ==
  /\ f \in waiting /\ waiting' = waiting \ {f} /\ Reply(f, ok)
  /\ UNCHANGED <<todo, inbox>>

LEMMA AnswersPlace ==
  ASSUME TypesInd, OnePlace, NEW f \in Flows, NEW ok \in BOOLEAN, Answers(f, ok)
  PROVE  /\ OnePlace' /\ todo[f] # <<>> /\ ~Asks(f) /\ ~Told(f)
         /\ outbox' \in Seq(Replies) /\ waiting' \subseteq Flows /\ (ToldOk(f)' <=> ok)
         /\ Pushed(outbox, outbox', [flow |-> f, ok |-> ok])
         /\ \A g \in Flows : Asks(g)' <=> Asks(g)
         /\ \A g \in Flows : g # f => (ToldOk(g)' <=> ToldOk(g)) /\ (g \in waiting' <=> g \in waiting)
<1>1. ~Told(f) /\ ~Asks(f) /\ todo[f] # <<>>
  BY DEF Answers, OnePlace, Idle
<1>2. /\ outbox' \in Seq(Replies) /\ ToldOnce' /\ Told(f)' /\ (ToldOk(f)' <=> ok)
      /\ Pushed(outbox, outbox', [flow |-> f, ok |-> ok])
      /\ \A g \in Flows : g # f => (Told(g)' <=> Told(g)) /\ (ToldOk(g)' <=> ToldOk(g))
  BY <1>1, TellPushed DEF OnePlace, Answers
<1>3. /\ \A g \in Flows : Asks(g)' <=> Asks(g)
      /\ AskedOnce'
  BY DEF Answers, Asks, AskedOnce, OnePlace
<1>4. OnePlace'
  BY <1>1, <1>2, <1>3 DEF OnePlace, Idle, Answers
<1> QED BY <1>1, <1>2, <1>3, <1>4 DEF Answers, TypesInd

(* The reply of f is received: f makes its next call, or is done.           *)
Receives(f) ==
  /\ outbox # <<>> /\ f = Head(outbox).flow /\ outbox' = Tail(outbox)
  /\ UNCHANGED waiting
  /\ inbox' = IF Idle(f)' THEN inbox ELSE Append(inbox, f)
  /\ \A g \in Flows : g # f => todo'[g] = todo[g]

LEMMA ReceivesPlace ==
  ASSUME TypesInd, OnePlace, NEW f, Receives(f)
  PROVE  /\ OnePlace' /\ f \in Flows /\ todo[f] # <<>>
         /\ inbox' \in Seq(Flows) /\ outbox' \in Seq(Replies)
         /\ Told(f) /\ ~Told(f)' /\ ~Asks(f) /\ f \notin waiting
         /\ \A g \in Flows : g # f => (Asks(g)' <=> Asks(g)) /\ (Told(g)' <=> Told(g))
         /\ \A g \in Flows : ToldOk(g)' <=> ToldOk(g) /\ g # f
         /\ Asks(f)' <=> ~Idle(f)'
<1> DEFINE reply == Head(outbox)
<1>1. /\ reply \in Replies /\ Told(reply.flow)
      /\ outbox' \in Seq(Replies) /\ ToldOnce'
      /\ \A g \in Flows : /\ Told(g)' <=> Told(g) /\ g # reply.flow
                          /\ ToldOk(g)' <=> ToldOk(g) /\ g # reply.flow
  BY TellPopped DEF OnePlace, Receives
<1>2. f \in Flows /\ f = reply.flow
  BY <1>1 DEF Replies, Receives
<1> HIDE DEF reply
<1>3. ~Asks(f) /\ f \notin waiting /\ todo[f] # <<>>
  BY <1>1, <1>2 DEF OnePlace, Idle
<1>4. CASE Idle(f)'
  <2>1. /\ \A g \in Flows : Asks(g)' <=> Asks(g)
        /\ AskedOnce' /\ inbox' = inbox
    BY <1>4 DEF Receives, Asks, AskedOnce, OnePlace
  <2>2. OnePlace'
    BY <1>1, <1>2, <1>3, <1>4, <2>1 DEF OnePlace, Idle, Receives
  <2> QED BY <1>1, <1>2, <1>3, <1>4, <2>1, <2>2 DEF TypesInd
<1>5. CASE ~Idle(f)'
  <2>1. /\ inbox' \in Seq(Flows) /\ AskedOnce' /\ Asks(f)'
        /\ \A g \in Flows : g # f => (Asks(g)' <=> Asks(g))
    BY <1>2, <1>3, <1>5, AskPushed DEF Receives, OnePlace
  <2>2. OnePlace'
    BY <1>1, <1>2, <1>3, <1>5, <2>1 DEF OnePlace, Idle, Receives
  <2> QED BY <1>1, <1>2, <1>3, <1>5, <2>1, <2>2 DEF TypesInd
<1> QED BY <1>4, <1>5

(* A flow that was idle makes its first call.                               *)
Begins(f) ==
  /\ Idle(f) /\ ~Idle(f)' /\ inbox' = Append(inbox, f)
  /\ UNCHANGED <<waiting, outbox>>
  /\ \A g \in Flows : g # f => (Idle(g)' <=> Idle(g))

LEMMA BeginsPlace ==
  ASSUME TypesInd, OnePlace, NEW f \in Flows, Begins(f)
  PROVE  /\ OnePlace' /\ inbox' \in Seq(Flows)
         /\ ~Asks(f) /\ f \notin waiting /\ ~Told(f) /\ Asks(f)'
         /\ \A g \in Flows : g # f => (Asks(g)' <=> Asks(g))
         /\ \A g \in Flows : (Told(g)' <=> Told(g)) /\ (ToldOk(g)' <=> ToldOk(g))
<1>1. ~Asks(f) /\ f \notin waiting /\ ~Told(f)
  BY DEF OnePlace, Begins
<1>2. /\ inbox' \in Seq(Flows) /\ AskedOnce' /\ Asks(f)'
      /\ \A g \in Flows : g # f => (Asks(g)' <=> Asks(g))
  BY <1>1, AskPushed DEF Begins, OnePlace
<1>3. /\ \A g \in Flows : (Told(g)' <=> Told(g)) /\ (ToldOk(g)' <=> ToldOk(g))
      /\ ToldOnce'
  BY DEF Begins, Told, ToldOk, ToldOnce, OnePlace
<1>4. OnePlace'
  BY <1>1, <1>2, <1>3 DEF OnePlace, Begins
<1> QED BY <1>1, <1>2, <1>3, <1>4

-----------------------------------------------------------------------------
(* The store.                                                               *)
LEMMA PersistKept ==
  ASSUME StoreInd, NEW c \in Configs, NEW req \in Requests, PersistConfig(c, req),
         c \in minted \/ req.key # None,
         revived' = IF c \in minted /\ config[c] = None THEN revived \cup {c} ELSE revived
  PROVE  StoreInd' /\ minted' = minted \cup {c} /\ settings' = settings
<1> USE RowsAssumption
<1>1. /\ req.capability \in Capabilities /\ req.is_default \in BOOLEAN /\ req.key \in Keys \cup {None}
  BY DEF Requests
<1>2. \A d \in Configs : config[d] # None =>
        config[d] \in Rows /\ config[d].is_default \in BOOLEAN /\ config[d].status \in Statuses
  BY DEF StoreInd, StoreTypeOK, Rows
<1>3. Upserted(c, req) \in Rows /\ Upserted(c, req).is_default = req.is_default
  BY <1>1, <1>2 DEF Upserted, Rows, Statuses
<1>4. \A d \in Configs : config[d] # None =>
        NotDefault(config[d]) \in Rows /\ NotDefault(config[d]).is_default = FALSE
  BY <1>2 DEF NotDefault, Rows
<1>5. /\ config' \in [Configs -> Rows \cup {None}]
      /\ config'[c] = Upserted(c, req) /\ config'[c] # None
      /\ \A d \in Configs : d # c => (config'[d] = None <=> config[d] = None)
  <2>1. \A d \in Configs : (IF d = c THEN Upserted(c, req)
          ELSE IF req.is_default THEN NotDefault(config[d]) ELSE config[d]) \in Rows \cup {None}
    BY <1>2, <1>3, <1>4 DEF NotDefault
  <2>2. \A d \in Configs : NotDefault(config[d]) = None <=> config[d] = None
    BY <1>4 DEF NotDefault
  <2> QED BY <1>3, <2>1, <2>2 DEF PersistConfig
<1>6. /\ secret' \in [Configs -> Keys \cup {None}]
      /\ \A d \in Configs : d # c => secret'[d] = secret[d]
      /\ secret'[c] = IF req.key = None THEN secret[c] ELSE req.key
  BY <1>1 DEF PersistConfig, KeyStored, StoreInd, StoreTypeOK
<1>7. minted' = minted \cup {c} /\ settings' = settings
  BY DEF PersistConfig
<1>8. StoreTypeOK' /\ (revived \subseteq minted)' /\ (Existing(config) \subseteq minted)'
  BY <1>5, <1>6, <1>7 DEF StoreInd, StoreTypeOK, Existing
<1>9. KeysKept'
  <2>1. SUFFICES ASSUME NEW d \in Configs \ revived', config'[d] # None PROVE secret'[d] # None
    BY DEF KeysKept
  <2>2. CASE d # c
    BY <2>1, <2>2, <1>5, <1>6 DEF StoreInd, KeysKept
  <2>3. CASE d = c
    <3>1. c \notin revived /\ ~(c \in minted /\ config[c] = None)
      BY <2>1, <2>3
    <3>2. req.key = None => secret[c] # None
      BY <3>1 DEF StoreInd, KeysKept
    <3>3. secret'[c] # None
      BY <3>2, <1>6
    <3> QED BY <3>3, <2>3
  <2> QED BY <2>2, <2>3
<1>10. SingleDefault'
  <2>1. SUFFICES ASSUME NEW d \in Configs, NEW e \in Configs, config'[d] # None, config'[e] # None,
                        config'[d].is_default, config'[e].is_default
                 PROVE  d = e
    BY DEF SingleDefault, Existing
  <2>2. \A x \in Configs : x # c => config'[x] = IF req.is_default THEN NotDefault(config[x]) ELSE config[x]
    BY DEF PersistConfig
  <2>3. \A x \in Configs : x # c /\ config'[x] # None /\ config'[x].is_default
          => ~req.is_default /\ config'[x] = config[x] /\ config[x] # None
    BY <2>2, <1>4, <1>5
  <2>4. ~req.is_default => ~config'[c].is_default
    BY <1>3, <1>5
  <2>5. CASE d = c \/ e = c
    BY <2>1, <2>3, <2>4, <2>5
  <2>6. CASE d # c /\ e # c
    BY <2>1, <2>3, <2>6 DEF StoreInd, SingleDefault, Existing
  <2> QED BY <2>5, <2>6
<1>11. KeysHaveOwners'
  BY <1>5, <1>6 DEF StoreInd, KeysHaveOwners
<1> QED BY <1>7, <1>8, <1>9, <1>10, <1>11 DEF StoreInd

LEMMA DeleteKept ==
  ASSUME StoreInd, NEW c \in Configs, DeleteConfig(c), revived' = revived
  PROVE  StoreInd' /\ minted' = minted /\ settings' = settings
<1>1. /\ config' \in [Configs -> Rows \cup {None}] /\ secret' \in [Configs -> Keys \cup {None}]
      /\ config'[c] = None /\ secret'[c] = None
      /\ \A d \in Configs : d # c => config'[d] = config[d] /\ secret'[d] = secret[d]
      /\ minted' = minted /\ settings' = settings
  BY DEF DeleteConfig, StoreInd, StoreTypeOK
<1>2. KeysKept' /\ KeysHaveOwners'
  BY <1>1 DEF StoreInd, KeysKept, KeysHaveOwners
<1>3. SingleDefault'
  BY <1>1 DEF StoreInd, SingleDefault, Existing
<1>4. StoreTypeOK' /\ (revived \subseteq minted)' /\ (Existing(config) \subseteq minted)'
  BY <1>1 DEF StoreInd, StoreTypeOK, Existing
<1> QED BY <1>1, <1>2, <1>3, <1>4 DEF StoreInd

LEMMA StampKept ==
  ASSUME StoreInd, NEW c \in Configs, NEW status \in Statuses, StampConfig(c, status),
         revived' = revived
  PROVE  StoreInd' /\ minted' = minted /\ settings' = settings
<1> USE RowsAssumption
<1>1. config[c] # None =>
        /\ [config[c] EXCEPT !.status = status] \in Rows
        /\ [config[c] EXCEPT !.status = status].is_default = config[c].is_default
  BY DEF StoreInd, StoreTypeOK, Rows
<1>2. /\ config' \in [Configs -> Rows \cup {None}]
      /\ \A d \in Configs : config'[d] = None <=> config[d] = None
      /\ \A d \in Configs : config[d] # None => config'[d].is_default = config[d].is_default
      /\ minted' = minted /\ settings' = settings /\ secret' = secret
  BY <1>1 DEF StampConfig, StoreInd, StoreTypeOK
<1>3. KeysKept' /\ KeysHaveOwners'
  BY <1>2 DEF StoreInd, KeysKept, KeysHaveOwners
<1>4. SingleDefault'
  BY <1>2 DEF StoreInd, SingleDefault, Existing
<1>5. StoreTypeOK' /\ (revived \subseteq minted)' /\ (Existing(config) \subseteq minted)'
  BY <1>2 DEF StoreInd, StoreTypeOK, Existing
<1> QED BY <1>2, <1>3, <1>4, <1>5 DEF StoreInd

LEMMA StoreSame ==
  ASSUME StoreInd, UNCHANGED <<storeVars, revived>>
  PROVE  StoreInd' /\ minted' = minted /\ settings' = settings
BY DEF StoreInd, StoreTypeOK, storeVars, Existing, KeysKept, SingleDefault, KeysHaveOwners

LEMMA IdsGrow ==
  ASSUME NEW calls, NEW ids, NEW more, ids \subseteq more, IdsKnown(calls, ids)
  PROVE  IdsKnown(calls, more)
BY DEF IdsKnown

-----------------------------------------------------------------------------
(* The main process.                                                        *)
LEMMA Noted ==
  ASSUME TypesInd, FailuresNoted, NEW f \in Flows, NEW ok \in BOOLEAN, Reply(f, ok),
         failed => failed', ok \/ failed'
  PROVE  FailuresNoted'
<1> DEFINE reply == [flow |-> f, ok |-> ok]
<1>1. reply \in Replies /\ reply.ok = ok
  BY DEF Replies
<1>2. outbox \in Seq(Replies) /\ outbox' = Append(outbox, reply)
  BY DEF TypesInd, Reply
<1> HIDE DEF reply
<1>3. Pushed(outbox, outbox', reply)
  BY <1>1, <1>2, Pushing
<1>4. \A i \in DOMAIN outbox' : (i \in DOMAIN outbox /\ outbox'[i] = outbox[i]) \/ outbox'[i] = reply
  BY <1>3, PushedAt
<1> QED BY <1>1, <1>4 DEF FailuresNoted

(* A step of the main process leaves the renderer and the other flows alone.*)
Elsewhere(f) ==
  /\ UNCHANGED <<snapshot, form, clicks, intent, todo, origin, overlapped>>
  /\ payload' \in [Flows -> Payloads] /\ \A g \in Flows : g # f => payload'[g] = payload[g]
  /\ failed' \in BOOLEAN

LEMMA MainKeeps ==
  ASSUME LibraryInd, NEW f \in Flows, Elsewhere(f), StoreInd', minted \subseteq minted',
         OnePlace', FailuresNoted',
         inbox' \in Seq(Flows), outbox' \in Seq(Replies), waiting' \subseteq Flows,
         \A g \in Flows : g # f =>
           /\ Asks(g)' => Asks(g)
           /\ ToldOk(g)' => ToldOk(g)
           /\ g \in waiting' => g \in waiting,
         todo[f] # <<>> => Carries(f, todo[f][1])'
  PROVE  LibraryInd'
<1>1. TypesInd'
  BY DEF LibraryInd, TypesInd, Elsewhere
<1>2. FlowCalls'
  BY DEF LibraryInd, FlowCalls, Elsewhere
<1>3. Minted'
  <2>1. \A g \in Flows : IdsKnown(todo[g], minted')
    BY IdsGrow DEF LibraryInd, Minted
  <2> QED BY <2>1 DEF LibraryInd, Minted, Elsewhere
<1>4. Travels'
  <2>1. SUFFICES ASSUME NEW g \in Flows, todo[g] # <<>> PROVE Carries(g, todo[g][1])'
    BY DEF Travels, Elsewhere
  <2>2. CASE g # f
    <3>1. Carries(g, todo[g][1])
      BY <2>1 DEF LibraryInd, Travels
    <3> QED BY <3>1, <2>2 DEF Carries, Elsewhere
  <2> QED BY <2>1, <2>2
<1>5. SnapshotNeeded'
  BY DEF LibraryInd, SnapshotNeeded, Elsewhere
<1> QED BY <1>1, <1>2, <1>3, <1>4, <1>5 DEF LibraryInd

LEMMA ServesKeeps ==
  ASSUME LibraryInd, NEW f, Serves(f), Elsewhere(f), StoreInd', minted \subseteq minted',
         FailuresNoted', Carries(f, todo[f][1])'
  PROVE  LibraryInd'
<1>1. /\ OnePlace' /\ f \in Flows
      /\ inbox' \in Seq(Flows) /\ outbox' \in Seq(Replies) /\ waiting' \subseteq Flows
      /\ \A g \in Flows : g # f =>
           /\ Asks(g)' <=> Asks(g)
           /\ ToldOk(g)' <=> ToldOk(g)
           /\ g \in waiting' <=> g \in waiting
  BY ServesPlace DEF LibraryInd
<1> QED BY <1>1, MainKeeps

LEMMA AnswersKeeps ==
  ASSUME LibraryInd, NEW f \in Flows, NEW ok \in BOOLEAN, Answers(f, ok), Elsewhere(f), StoreInd',
         minted \subseteq minted', failed => failed', ok \/ failed', Carries(f, todo[f][1])'
  PROVE  LibraryInd'
<1>1. /\ OnePlace'
      /\ inbox' \in Seq(Flows) /\ outbox' \in Seq(Replies) /\ waiting' \subseteq Flows
      /\ \A g \in Flows : Asks(g)' <=> Asks(g)
      /\ \A g \in Flows : g # f => (ToldOk(g)' <=> ToldOk(g)) /\ (g \in waiting' <=> g \in waiting)
  BY AnswersPlace DEF LibraryInd, Answers, TypesInd
<1>2. FailuresNoted'
  BY Noted DEF LibraryInd, Answers
<1> QED BY <1>1, <1>2, MainKeeps

LEMMA FirstOf ==
  ASSUME LibraryInd, NEW f, inbox # <<>>, f = Head(inbox)
  PROVE  /\ f \in Flows /\ todo[f] # <<>> /\ Head(todo[f]) = todo[f][1] /\ todo[f][1] \in Calls
         /\ FlowOf(f, todo[f], origin[f]) /\ IdsKnown(todo[f], minted) /\ Carries(f, todo[f][1])
         /\ 1 \in DOMAIN todo[f] /\ Asks(f)
<1>1. /\ f \in Flows /\ Asks(f)
  <2>1. inbox \in Seq(Flows) /\ f = inbox[1] /\ f \in Flows /\ Popped(inbox, Tail(inbox))
    BY Popping DEF LibraryInd, TypesInd
  <2>2. 1 \in DOMAIN inbox
    BY <2>1, PoppedAt
  <2> QED BY <2>1, <2>2 DEF Asks
<1>2. todo[f] # <<>>
  BY <1>1 DEF LibraryInd, OnePlace, Idle
<1> QED BY <1>1, <1>2, FirstCall DEF LibraryInd, FlowCalls, Minted, Travels

LEMMA ServesSettings ==
  ASSUME LibraryInd, inbox # <<>>, NEW f, f = Head(inbox), Head(todo[f]).do = "settings",
         HandleSettings(f), inbox' = Tail(inbox), UNCHANGED <<uiVars, todo, origin, overlapped>>
  PROVE  LibraryInd'
<1>1. /\ f \in Flows /\ Head(todo[f]) = todo[f][1] /\ todo[f][1].do = "settings" /\ Asks(f)
      /\ Carries(f, todo[f][1])
  BY FirstOf
<1>2. payload[f] \in Settings /\ snapshot # None
  BY <1>1 DEF Carries
<1>3. StoreInd' /\ minted' = minted
  BY <1>2 DEF LibraryInd, StoreInd, StoreTypeOK, HandleSettings, SaveSettings, Existing, KeysKept,
              SingleDefault, KeysHaveOwners
<1>4. Serves(f) /\ Elsewhere(f)
  BY DEF Serves, Elsewhere, HandleSettings, uiVars, LibraryInd, TypesInd
<1>5. FailuresNoted'
  BY <1>1, Noted DEF LibraryInd, HandleSettings
<1>6. ~Asks(f)' /\ f \notin waiting'
  BY <1>4, ServesPlace DEF LibraryInd, HandleSettings
<1>7. Carries(f, todo[f][1])'
  BY <1>1, <1>2, <1>4, <1>6 DEF Carries, Elsewhere
<1> QED BY <1>3, <1>4, <1>5, <1>7, ServesKeeps

LEMMA ServesSave ==
  ASSUME LibraryInd, inbox # <<>>, NEW f, f = Head(inbox), NEW call, call = Head(todo[f]),
         call.do = "save", HandleSave(f, call), inbox' = Tail(inbox),
         UNCHANGED <<uiVars, todo, origin, overlapped>>
  PROVE  LibraryInd'
<1>1. /\ f \in Flows /\ call = todo[f][1] /\ call \in Calls /\ 1 \in DOMAIN todo[f]
      /\ IdsKnown(todo[f], minted)
  BY FirstOf
<1>2. call \in Saves
  BY <1>1, CallShape
<1>3. /\ call.id \in minted \cup {None} /\ (call.id = None => call.req.key # None)
      /\ call.req \in Requests
  BY <1>1, <1>2 DEF IdsKnown, Saves
<1>4. PICK c \in IF call.id = None THEN Configs \ minted ELSE {call.id} :
        /\ PersistConfig(c, call.req)
        /\ revived' = IF c \in minted /\ config[c] = None THEN revived \cup {c} ELSE revived
        /\ payload' = [payload EXCEPT ![f] = c]
        /\ Reply(f, TRUE)
        /\ UNCHANGED <<waiting, failed>>
  BY DEF HandleSave
<1>5. c \in Configs /\ (c \in minted \/ call.req.key # None)
  BY <1>3, <1>4 DEF LibraryInd, StoreInd, StoreTypeOK
<1>6. StoreInd' /\ minted' = minted \cup {c}
  BY <1>3, <1>4, <1>5, PersistKept DEF LibraryInd
<1>7. Serves(f) /\ Elsewhere(f) /\ payload'[f] = c
  <2>1. payload' \in [Flows -> Payloads] /\ payload'[f] = c
        /\ \A g \in Flows : g # f => payload'[g] = payload[g]
    BY <1>1, <1>4, <1>5 DEF LibraryInd, TypesInd, Payloads
  <2> QED BY <2>1, <1>4 DEF Serves, Elsewhere, uiVars, LibraryInd, TypesInd
<1>8. FailuresNoted'
  BY <1>1, <1>4, Noted DEF LibraryInd
<1>9. f \notin waiting'
  BY <1>7, <1>4, ServesPlace DEF LibraryInd
<1>10. Carries(f, todo[f][1])'
  BY <1>1, <1>6, <1>7, <1>9 DEF Carries, Elsewhere
<1> QED BY <1>6, <1>7, <1>8, <1>10, ServesKeeps

LEMMA ServesDelete ==
  ASSUME LibraryInd, inbox # <<>>, NEW f, f = Head(inbox), NEW call, call = Head(todo[f]),
         call.do = "delete", HandleDelete(f, call), inbox' = Tail(inbox),
         UNCHANGED <<uiVars, todo, origin, overlapped>>
  PROVE  LibraryInd'
<1>1. /\ f \in Flows /\ call = todo[f][1] /\ call \in Calls
  BY FirstOf
<1>2. call.id \in Configs
  BY <1>1, CallShape DEF Deletes
<1>3. StoreInd' /\ minted' = minted
  BY <1>2, DeleteKept DEF LibraryInd, HandleDelete
<1>4. Serves(f) /\ Elsewhere(f)
  BY DEF Serves, Elsewhere, HandleDelete, uiVars, LibraryInd, TypesInd
<1>5. FailuresNoted'
  BY <1>1, Noted DEF LibraryInd, HandleDelete
<1>6. f \notin waiting'
  BY <1>4, ServesPlace DEF LibraryInd, HandleDelete
<1>7. Carries(f, todo[f][1])'
  BY <1>1, <1>4, <1>6 DEF Carries, Elsewhere
<1> QED BY <1>3, <1>4, <1>5, <1>7, ServesKeeps

LEMMA ServesTest ==
  ASSUME LibraryInd, inbox # <<>>, NEW f, f = Head(inbox), NEW call, call = Head(todo[f]),
         call.do = "test", HandleTest(f, call), inbox' = Tail(inbox),
         UNCHANGED <<uiVars, todo, origin, overlapped>>
  PROVE  LibraryInd'
<1>1. /\ f \in Flows /\ call = todo[f][1] /\ call \in Calls /\ 1 \in DOMAIN todo[f]
      /\ IdsKnown(todo[f], minted)
  BY FirstOf
<1>2. call.id \in Configs
  BY <1>1 DEF IdsKnown, LibraryInd, StoreInd, StoreTypeOK
<1>3. StoreInd' /\ minted' = minted
  BY StoreSame DEF LibraryInd, HandleTest
<1>4. [row |-> config[call.id], key |-> secret[call.id]] \in Readings
  BY <1>2 DEF Readings, LibraryInd, StoreInd, StoreTypeOK
<1>5. Serves(f) /\ Elsewhere(f) /\ payload'[f] \in Readings
  <2>1. payload' \in [Flows -> Payloads] /\ payload'[f] \in Readings
        /\ \A g \in Flows : g # f => payload'[g] = payload[g]
    BY <1>1, <1>4 DEF LibraryInd, TypesInd, Payloads, HandleTest
  <2> QED BY <2>1 DEF Serves, Elsewhere, HandleTest, uiVars, LibraryInd, TypesInd
<1>6. FailuresNoted'
  BY DEF LibraryInd, HandleTest, FailuresNoted
<1>7. Carries(f, todo[f][1])'
  BY <1>1, <1>5 DEF Carries, Elsewhere
<1> QED BY <1>3, <1>5, <1>6, <1>7, ServesKeeps

LEMMA ServesGet ==
  ASSUME LibraryInd, inbox # <<>>, NEW f, f = Head(inbox), NEW call, call = Head(todo[f]),
         call.do = "get", HandleGet(f, call), inbox' = Tail(inbox),
         UNCHANGED <<uiVars, todo, origin, overlapped>>
  PROVE  LibraryInd'
<1>1. /\ f \in Flows /\ call = todo[f][1] /\ call \in Calls
  BY FirstOf
<1>3. StoreInd' /\ minted' = minted
  BY StoreSame DEF LibraryInd, HandleGet
<1>4. ModelNow \in Models /\ Existing(ModelNow.config) \subseteq minted
  BY DEF ModelNow, Models, LibraryInd, StoreInd, StoreTypeOK
<1>5. /\ payload' \in [Flows -> Payloads] /\ payload'[f] = ModelNow
      /\ \A g \in Flows : g # f => payload'[g] = payload[g]
  BY <1>1, <1>4 DEF LibraryInd, TypesInd, Payloads, HandleGet
<1>6. CASE call.reason \in MicReasons
  <2>1. Serves(f) /\ Elsewhere(f)
    BY <1>5, <1>6 DEF Serves, Elsewhere, HandleGet, uiVars, LibraryInd, TypesInd
  <2>2. FailuresNoted'
    BY <1>6 DEF LibraryInd, HandleGet, FailuresNoted
  <2>3. Carries(f, todo[f][1])'
    BY <1>1, <1>3, <1>4, <1>5, <1>6, <2>1 DEF Carries, Elsewhere, Existing
  <2> QED BY <1>3, <2>1, <2>2, <2>3, ServesKeeps
<1>7. CASE call.reason \notin MicReasons
  <2>1. Serves(f) /\ Elsewhere(f)
    BY <1>5, <1>7 DEF Serves, Elsewhere, HandleGet, uiVars, LibraryInd, TypesInd
  <2>2. FailuresNoted'
    BY <1>1, <1>7, Noted DEF LibraryInd, HandleGet
  <2>3. f \notin waiting'
    BY <1>7, <2>1, ServesPlace DEF LibraryInd, HandleGet
  <2>4. Carries(f, todo[f][1])'
    BY <1>1, <1>3, <1>4, <1>5, <2>1, <2>3 DEF Carries, Elsewhere, Existing
  <2> QED BY <1>3, <2>1, <2>2, <2>4, ServesKeeps
<1> QED BY <1>6, <1>7

LEMMA ServesFailure ==
  ASSUME LibraryInd, inbox # <<>>, NEW f, f = Head(inbox), CallFails(f), UNCHANGED waiting,
         inbox' = Tail(inbox), UNCHANGED <<uiVars, todo, origin, overlapped>>
  PROVE  LibraryInd'
<1>1. /\ f \in Flows /\ todo[f][1] \in Calls /\ Carries(f, todo[f][1])
  BY FirstOf
<1>2. StoreInd' /\ minted' = minted
  BY StoreSame DEF LibraryInd, CallFails
<1>3. Serves(f) /\ Elsewhere(f)
  BY DEF Serves, Elsewhere, CallFails, uiVars, LibraryInd, TypesInd
<1>4. FailuresNoted'
  BY <1>1, Noted DEF LibraryInd, CallFails
<1>5. ~Asks(f)' /\ f \notin waiting' /\ ~Told(f)
  BY <1>3, ServesPlace DEF LibraryInd, CallFails
<1>6. ~ToldOk(f)'
  BY <1>1, <1>5, TellPushed DEF LibraryInd, OnePlace, CallFails
<1>7. Carries(f, todo[f][1])'
  BY <1>1, <1>3, <1>5, <1>6 DEF Carries, Elsewhere
<1> QED BY <1>2, <1>3, <1>4, <1>7, ServesKeeps

LEMMA MainServes ==
  ASSUME LibraryInd, MainReceives
  PROVE  LibraryInd'
<1> DEFINE f == Head(inbox)
           call == Head(todo[f])
<1>1. /\ inbox # <<>> /\ inbox' = Tail(inbox) /\ UNCHANGED <<uiVars, todo, origin, overlapped>>
      /\ \/ call.do = "settings" /\ HandleSettings(f)
         \/ call.do = "save" /\ HandleSave(f, call)
         \/ call.do = "delete" /\ HandleDelete(f, call)
         \/ call.do = "test" /\ HandleTest(f, call)
         \/ call.do = "get" /\ HandleGet(f, call)
         \/ CallFails(f) /\ UNCHANGED waiting
  BY DEF MainReceives
<1> HIDE DEF f, call
<1>2. f = Head(inbox) /\ call = Head(todo[f])
  BY DEF f, call
<1> QED BY <1>1, <1>2, ServesSettings, ServesSave, ServesDelete, ServesTest, ServesGet, ServesFailure

LEMMA AwaitOf ==
  ASSUME LibraryInd, NEW f \in Flows, f \in waiting
  PROVE  /\ todo[f] # <<>> /\ Head(todo[f]) = todo[f][1] /\ todo[f][1] \in Calls /\ 1 \in DOMAIN todo[f]
         /\ FlowOf(f, todo[f], origin[f]) /\ IdsKnown(todo[f], minted) /\ Carries(f, todo[f][1])
<1>1. todo[f] # <<>>
  BY DEF LibraryInd, OnePlace, Idle
<1> QED BY <1>1, FirstCall DEF LibraryInd, FlowCalls, Minted, Travels

LEMMA AwaitKeeps ==
  ASSUME LibraryInd, NEW f \in Flows, AwaitEnds(f)
  PROVE  LibraryInd'
<1>1. f \in waiting
  BY DEF AwaitEnds, TestEnds, EnumerationEnds, AwaitFails
<1>2. /\ todo[f] # <<>> /\ Head(todo[f]) = todo[f][1] /\ todo[f][1] \in Calls
      /\ 1 \in DOMAIN todo[f] /\ IdsKnown(todo[f], minted) /\ Carries(f, todo[f][1])
  BY <1>1, AwaitOf
<1>3. CASE TestEnds(f)
  <2>1. todo[f][1].do = "test" /\ todo[f][1].id \in Configs
    BY <1>2, <1>3 DEF TestEnds, IdsKnown, LibraryInd, StoreInd, StoreTypeOK
  <2>2. PICK status \in Statuses : StampConfig(todo[f][1].id, status)
    BY <1>2, <1>3 DEF TestEnds, TestOutcomes, Statuses
  <2>3. StoreInd' /\ minted' = minted
    BY <1>3, <2>1, <2>2, StampKept DEF LibraryInd, TestEnds, historyVars
  <2>4. Answers(f, TRUE) /\ Elsewhere(f) /\ failed' = failed
    BY <1>3 DEF TestEnds, Answers, Elsewhere, uiVars, historyVars, LibraryInd, TypesInd
  <2>5. Carries(f, todo[f][1])'
    BY <2>1, <2>4 DEF Carries, Elsewhere, Answers
  <2> QED BY <2>3, <2>4, <2>5, AnswersKeeps
<1>4. CASE EnumerationEnds(f)
  <2>1. todo[f][1].do = "get"
    BY <1>2, <1>4 DEF EnumerationEnds
  <2>2. StoreInd' /\ minted' = minted
    BY <1>4, StoreSame DEF LibraryInd, EnumerationEnds, historyVars
  <2>3. Answers(f, TRUE) /\ Elsewhere(f) /\ failed' = failed /\ payload' = payload
    BY <1>4 DEF EnumerationEnds, Answers, Elsewhere, uiVars, historyVars, LibraryInd, TypesInd
  <2>4. Carries(f, todo[f][1])'
    BY <1>1, <1>2, <2>1, <2>2, <2>3 DEF Carries, Elsewhere, Answers
  <2> QED BY <2>2, <2>3, <2>4, AnswersKeeps
<1>5. CASE AwaitFails(f)
  <2>1. StoreInd' /\ minted' = minted
    BY <1>5, StoreSame DEF LibraryInd, AwaitFails, CallFails
  <2>2. Answers(f, FALSE) /\ Elsewhere(f) /\ failed' /\ payload' = payload
    BY <1>5 DEF AwaitFails, CallFails, Answers, Elsewhere, uiVars, LibraryInd, TypesInd
  <2>3. ~ToldOk(f)' /\ ~Asks(f)' /\ f \notin waiting'
    BY <2>2, AnswersPlace DEF LibraryInd, Answers
  <2>4. Carries(f, todo[f][1])'
    BY <1>2, <2>2, <2>3 DEF Carries, Elsewhere
  <2> QED BY <2>1, <2>2, <2>4, AnswersKeeps
<1> QED BY <1>3, <1>4, <1>5 DEF AwaitEnds

-----------------------------------------------------------------------------
(* The calls that follow.                                                   *)
LEMMA RestAt ==
  ASSUME NEW calls \in Seq(Calls), calls # <<>>
  PROVE  /\ Tail(calls) \in Seq(Calls) /\ calls[1] \in Calls /\ 1 \in DOMAIN calls
         /\ \A i \in DOMAIN Tail(calls) :
              i + 1 \in DOMAIN calls /\ Tail(calls)[i] = calls[i + 1] /\ i \in Nat /\ i >= 1
         /\ \A i \in DOMAIN calls : i \in Nat /\ i >= 1 /\ calls[i] \in Calls
         /\ \A i \in DOMAIN calls : i # 1 =>
              i - 1 \in DOMAIN Tail(calls) /\ Tail(calls)[i - 1] = calls[i]
<1>1. Tail(calls) \in Seq(Calls) /\ calls[1] \in Calls /\ Popped(calls, Tail(calls))
  BY Popping
<1> QED BY <1>1, PoppedAt

LEMMA RestPage ==
  ASSUME NEW calls \in Seq(Calls), calls # <<>>, calls[1].do # "save", PageCalls(calls)
  PROVE  /\ PageCalls(Tail(calls))
         /\ \A i \in DOMAIN Tail(calls) : Tail(calls)[i].do \notin {"save", "delete", "test", "activate"}
<1> DEFINE rest == Tail(calls)
<1>1. /\ \A i \in DOMAIN rest :
              i + 1 \in DOMAIN calls /\ rest[i] = calls[i + 1] /\ i \in Nat /\ i >= 1
      /\ \A i \in DOMAIN calls : i \in Nat /\ i >= 1
      /\ \A i \in DOMAIN calls : i # 1 => i - 1 \in DOMAIN rest /\ rest[i - 1] = calls[i]
  BY RestAt
<1> HIDE DEF rest
<1>2. ASSUME NEW i \in DOMAIN rest
      PROVE  /\ rest[i].do \notin {"save", "delete", "test", "activate"}
             /\ rest[i].do = "settings" => i = 1 /\ 2 \in DOMAIN rest /\ rest[2] = Get("settings")
  <2>1. i + 1 \in DOMAIN calls /\ rest[i] = calls[i + 1] /\ i + 1 # 1 /\ i \in Nat /\ i >= 1
    BY <1>1
  <2>2. rest[i].do \notin {"save", "delete", "test", "activate"}
    BY <2>1 DEF PageCalls
  <2>3. ASSUME rest[i].do = "settings"
        PROVE  i = 1 /\ 2 \in DOMAIN rest /\ rest[2] = Get("settings")
    <3>1. i + 1 = 2 /\ (i + 1) + 1 \in DOMAIN calls /\ calls[(i + 1) + 1] = Get("settings")
      BY <2>1, <2>3 DEF PageCalls
    <3>2. i = 1 /\ 3 \in DOMAIN calls /\ calls[3] = Get("settings")
      BY <2>1, <3>1
    <3>3. 3 - 1 \in DOMAIN rest /\ rest[3 - 1] = Get("settings")
      BY <1>1, <3>2
    <3> QED BY <3>2, <3>3
  <2> QED BY <2>2, <2>3
<1>3. \A i \in DOMAIN rest : rest[i].do = "settings" => i + 1 \in DOMAIN rest /\ rest[i + 1] = Get("settings")
  BY <1>2
<1>4. PageCalls(rest)
  BY <1>2, <1>3 DEF PageCalls
<1> QED BY <1>2, <1>4 DEF rest

LEMMA RestChrome ==
  ASSUME NEW calls \in Seq(Calls), calls # <<>>, ChromeCalls(calls)
  PROVE  ChromeCalls(Tail(calls))
<1> DEFINE rest == Tail(calls)
<1>1. /\ \A i \in DOMAIN rest :
              i + 1 \in DOMAIN calls /\ rest[i] = calls[i + 1] /\ i \in Nat /\ i >= 1
      /\ \A i \in DOMAIN calls : i \in Nat /\ i >= 1
      /\ \A i \in DOMAIN calls : i # 1 => i - 1 \in DOMAIN rest /\ rest[i - 1] = calls[i]
  BY RestAt
<1> HIDE DEF rest
<1>2. ASSUME NEW i \in DOMAIN rest
      PROVE  \/ rest[i] = Get("settings") /\ (i + 1 \in DOMAIN rest => rest[i + 1].do = "settings")
             \/ /\ rest[i].do = "settings" /\ rest[i].field = "theme"
                /\ i + 1 \in DOMAIN rest /\ rest[i + 1] = Get("settings")
  <2>1. i + 1 \in DOMAIN calls /\ rest[i] = calls[i + 1] /\ i \in Nat /\ i >= 1
    BY <1>1
  <2>2. ASSUME (i + 1) + 1 \in DOMAIN calls
        PROVE  i + 1 \in DOMAIN rest /\ rest[i + 1] = calls[(i + 1) + 1]
    <3>1. (i + 1) + 1 # 1 /\ ((i + 1) + 1) - 1 = i + 1
      BY <2>1
    <3> QED BY <1>1, <2>2, <3>1
  <2>3. i + 1 \in DOMAIN rest => (i + 1) + 1 \in DOMAIN calls
    BY <1>1
  <2> QED BY <2>1, <2>2, <2>3 DEF ChromeCalls
<1> QED BY <1>2 DEF ChromeCalls, rest

LEMMA RestIds ==
  ASSUME NEW calls \in Seq(Calls), calls # <<>>, calls[1].do # "save", NEW ids, IdsKnown(calls, ids)
  PROVE  IdsKnown(Tail(calls), ids)
<1> DEFINE rest == Tail(calls)
<1>1. \A i \in DOMAIN rest :
        i + 1 \in DOMAIN calls /\ rest[i] = calls[i + 1] /\ i \in Nat /\ i >= 1
  BY RestAt
<1> HIDE DEF rest
<1>2. ASSUME NEW i \in DOMAIN rest
      PROVE  /\ rest[i].do = "save" =>
                  rest[i].id \in ids \cup {None} /\ (rest[i].id = None => rest[i].req.key # None)
             /\ rest[i].do = "test" => rest[i].id \in ids
  <2>1. i + 1 \in DOMAIN calls /\ rest[i] = calls[i + 1]
    BY <1>1
  <2> QED BY <2>1 DEF IdsKnown
<1> QED BY <1>2 DEF IdsKnown, rest

LEMMA SavedRest ==
  ASSUME NEW calls \in Seq(Calls), calls # <<>>, calls[1].do = "save", PageCalls(calls),
         NEW c \in Configs, NEW ids, c \in ids, NEW next, next = WithSaved(Tail(calls), c)
  PROVE  /\ next \in Seq(Calls) /\ PageCalls(next) /\ IdsKnown(next, ids)
         /\ DOMAIN next = DOMAIN Tail(calls)
         /\ next # <<>> => next[1].do \notin {"save", "settings", "activate"}
<1> DEFINE rest == Tail(calls)
<1>1. /\ rest \in Seq(Calls)
      /\ \A i \in DOMAIN rest :
              i + 1 \in DOMAIN calls /\ rest[i] = calls[i + 1] /\ i \in Nat /\ i >= 1
      /\ \A i \in DOMAIN calls : i \in Nat /\ i >= 1 /\ calls[i] \in Calls
      /\ \A i \in DOMAIN calls : i # 1 => i - 1 \in DOMAIN rest /\ rest[i - 1] = calls[i]
  BY RestAt
<1>2. /\ DOMAIN next = DOMAIN rest
      /\ \A i \in DOMAIN rest :
           /\ rest[i].do = "test" => next[i] = [rest[i] EXCEPT !.id = c]
           /\ rest[i].do = "activate" => next[i] = Set(rest[i].capability, c)
           /\ rest[i].do \notin {"test", "activate"} => next[i] = rest[i]
      /\ next = [i \in DOMAIN rest |-> next[i]]
  BY DEF WithSaved
<1> HIDE DEF rest
<1>3. ASSUME NEW i \in DOMAIN rest
      PROVE  /\ rest[i].do \in {"test", "activate", "get"}
             /\ rest[i].do = "test" => i = 1
             /\ rest[i].do = "activate" =>
                  /\ i = 2 /\ 1 \in DOMAIN rest /\ rest[1].do = "test"
                  /\ 3 \in DOMAIN rest /\ rest[3] = Get("settings")
  <2>1. i + 1 \in DOMAIN calls /\ rest[i] = calls[i + 1] /\ i \in Nat /\ i >= 1 /\ calls[i + 1] \in Calls
    BY <1>1
  <2>2. rest[i].do \in {"test", "activate", "get"} /\ (rest[i].do = "test" => i = 1)
    BY <2>1, CallShape DEF PageCalls
  <2>3. ASSUME rest[i].do = "activate"
        PROVE  /\ i = 2 /\ 1 \in DOMAIN rest /\ rest[1].do = "test"
               /\ 3 \in DOMAIN rest /\ rest[3] = Get("settings")
    <3>1. i + 1 = 3 /\ calls[2].do = "test" /\ 4 \in DOMAIN calls /\ calls[4] = Get("settings")
      BY <2>1, <2>3 DEF PageCalls
    <3>2. 3 \in DOMAIN rest /\ rest[3] = Get("settings")
      <4>1. PICK j \in DOMAIN calls : j = i + 2 /\ calls[j] = Get("settings")
        BY <2>1, <3>1
      <4>2. j # 1 /\ j - 1 = 3
        BY <2>1, <3>1, <4>1
      <4>3. j - 1 \in DOMAIN rest /\ rest[j - 1] = calls[j]
        BY <1>1, <4>1, <4>2
      <4> QED BY <4>1, <4>2, <4>3
    <3>3. 1 \in DOMAIN rest
      <4>1. DOMAIN rest = 1 .. Len(rest) /\ Len(rest) \in Nat
        BY <1>1
      <4> QED BY <3>2, <4>1
    <3>4. rest[1] = calls[1 + 1]
      BY <1>1, <3>3
    <3> QED BY <2>1, <3>1, <3>2, <3>3, <3>4
  <2> QED BY <2>2, <2>3
<1>4. ASSUME NEW i \in DOMAIN rest
      PROVE  /\ next[i] \in Calls
             /\ rest[i].do = "test" => next[i].do = "test" /\ next[i].id = c
             /\ rest[i].do = "activate" => next[i].do = "settings"
             /\ rest[i].do = "get" => next[i] = rest[i] /\ next[i].do = "get"
  <2>1. rest[i] \in Calls
    BY <1>1
  <2>2. CASE rest[i].do = "test"
    <3>1. rest[i] \in Tests /\ next[i] = [rest[i] EXCEPT !.id = c]
      BY <2>1, <2>2, <1>2, CallShape
    <3>2. next[i] \in Tests /\ next[i].id = c /\ next[i].do = "test"
      BY <3>1 DEF Tests
    <3> QED BY <3>2, <2>2 DEF Calls
  <2>3. CASE rest[i].do = "activate"
    <3>1. rest[i].capability \in Capabilities /\ next[i] = Set(rest[i].capability, c)
      BY <2>1, <2>3, <1>2, CallShape DEF Activations
    <3> QED BY <3>1, <2>3, CallsMade DEF Set
  <2>4. CASE rest[i].do = "get"
    BY <2>1, <2>4, <1>2
  <2> QED BY <1>3, <2>2, <2>3, <2>4
<1>5. next \in Seq(Calls)
  <2>1. DOMAIN next = 1 .. Len(rest) /\ Len(rest) \in Nat
    BY <1>1, <1>2
  <2>2. next \in [1 .. Len(rest) -> Calls]
    BY <2>1, <1>2, <1>4
  <2> QED BY <2>1, <2>2
<1>6. PageCalls(next)
  <2>1. SUFFICES ASSUME NEW i \in DOMAIN next
        PROVE  /\ next[i].do \in {"save", "delete"} => i = 1
               /\ next[i].do = "test" => i = 1 \/ (i = 2 /\ next[1].do = "save")
               /\ next[i].do = "activate" =>
                    /\ i = 3 /\ next[1].do = "save" /\ next[2].do = "test"
                    /\ 4 \in DOMAIN next /\ next[4] = Get("settings")
               /\ next[i].do = "settings" =>
                    /\ i = 1 \/ (i = 2 /\ next[1].do = "test")
                    /\ i + 1 \in DOMAIN next /\ next[i + 1] = Get("settings")
    BY DEF PageCalls
  <2>2. next[i].do \in {"test", "settings", "get"} /\ (next[i].do = "test" => i = 1)
    BY <2>1, <1>2, <1>3, <1>4
  <2>3. ASSUME next[i].do = "settings"
        PROVE  i = 2 /\ next[1].do = "test" /\ 3 \in DOMAIN next /\ next[3] = Get("settings")
    <3>1. rest[i].do = "activate"
      BY <2>1, <2>3, <1>2, <1>3, <1>4
    <3>2. i = 2 /\ 1 \in DOMAIN rest /\ rest[1].do = "test" /\ 3 \in DOMAIN rest /\ rest[3] = Get("settings")
      BY <2>1, <3>1, <1>2, <1>3
    <3>3. rest[3].do = "get"
      BY <3>2 DEF Get
    <3> QED BY <3>2, <3>3, <1>2, <1>4
  <2> QED BY <2>2, <2>3
<1>7. IdsKnown(next, ids)
  <2>1. ASSUME NEW i \in DOMAIN next PROVE next[i].do # "save" /\ (next[i].do = "test" => next[i].id \in ids)
    BY <2>1, <1>2, <1>3, <1>4
  <2> QED BY <2>1 DEF IdsKnown
<1>8. next # <<>> => next[1].do \notin {"save", "settings", "activate"}
  <2>1. SUFFICES ASSUME next # <<>> PROVE next[1].do \notin {"save", "settings", "activate"}
    OBVIOUS
  <2>2. 1 \in DOMAIN next
    BY <1>5, <2>1
  <2>3. rest[1].do # "activate"
    BY <2>2, <1>2, <1>3
  <2> QED BY <2>2, <2>3, <1>2, <1>3, <1>4
<1> QED BY <1>2, <1>5, <1>6, <1>7, <1>8 DEF rest

-----------------------------------------------------------------------------
(* The renderer.                                                            *)
LEMMA FollowingKeeps ==
  ASSUME LibraryInd, NEW f \in Flows, todo[f] # <<>>, NEW reply \in Replies,
         reply.ok => ToldOk(f), NEW calls, calls = Following(f, reply)
  PROVE  /\ calls \in Seq(Calls) /\ IdsKnown(calls, minted)
         /\ FlowOf(f, calls, IF calls = <<>> THEN None ELSE origin[f])
         /\ snapshot = None => \A i \in DOMAIN calls : calls[i].do = "get"
         /\ calls # <<>> => calls[1].do # "save"
<1> DEFINE mine == todo[f]
           call == mine[1]
           rest == Tail(mine)
<1>1. /\ mine \in Seq(Calls) /\ mine # <<>> /\ FlowOf(f, mine, origin[f]) /\ IdsKnown(mine, minted)
      /\ snapshot = None => \A i \in DOMAIN mine : mine[i].do = "get"
      /\ call \in Calls /\ Head(mine) = call /\ (call.do = "save" /\ reply.ok => payload[f] \in minted)
  BY FirstCall DEF LibraryInd, TypesInd, FlowCalls, Minted, SnapshotNeeded, Travels, Carries
<1>2. /\ rest \in Seq(Calls) /\ 1 \in DOMAIN mine
      /\ \A i \in DOMAIN rest : i + 1 \in DOMAIN mine /\ rest[i] = mine[i + 1] /\ i \in Nat /\ i >= 1
      /\ \A i \in DOMAIN mine : i \in Nat /\ i >= 1
      /\ \A i \in DOMAIN mine : i # 1 => i - 1 \in DOMAIN rest /\ rest[i - 1] = mine[i]
  BY <1>1, RestAt
<1>3. /\ reply.ok /\ call.do = "save" => calls = WithSaved(rest, payload[f])
      /\ reply.ok /\ call.do # "save" => calls = rest
      /\ ~reply.ok /\ call.do = "get" => calls = rest
      /\ ~reply.ok /\ call.do = "test" => calls = call.onError
      /\ ~reply.ok /\ call.do = "settings" => calls = Tail(rest)
      /\ ~reply.ok /\ call.do \in {"save", "delete", "activate"} => calls = <<>>
  BY <1>1 DEF Following
<1> HIDE DEF mine, call, rest
<1>4. f = Chrome => /\ ChromeCalls(mine) /\ origin[f] = None
                    /\ \A i \in DOMAIN mine : mine[i].do \in {"get", "settings"}
  BY <1>1 DEF FlowOf, ChromeCalls, Get
<1>5. f # Chrome => PageCalls(mine) /\ (origin[f] # None => Attended(mine))
  BY <1>1 DEF FlowOf
<1>6. <<>> \in Seq(Calls) /\ ChromeCalls(<<>>) /\ PageCalls(<<>>) /\ IdsKnown(<<>>, minted)
  BY DEF ChromeCalls, PageCalls, IdsKnown
<1>7. CASE call.do = "save" /\ reply.ok
  <2>1. f # Chrome
    BY <1>2, <1>4, <1>7 DEF call
  <2>2. payload[f] \in minted /\ payload[f] \in Configs
    BY <1>1, <1>7 DEF LibraryInd, StoreInd, StoreTypeOK
  <2>3. /\ calls \in Seq(Calls) /\ PageCalls(calls) /\ IdsKnown(calls, minted)
        /\ DOMAIN calls = DOMAIN rest
        /\ calls # <<>> => calls[1].do \notin {"save", "settings", "activate"}
    BY <1>1, <1>3, <1>5, <1>7, <2>1, <2>2, SavedRest DEF call, rest
  <2>4. snapshot # None
    BY <1>1, <1>2, <1>7 DEF call
  <2>5. ASSUME calls # <<>>, origin[f] # None PROVE Attended(calls)
    <3>1. 3 \in DOMAIN mine
      BY <1>5, <1>7, <2>1, <2>5 DEF Attended, call
    <3>2. PICK j \in DOMAIN mine : j = 3
      BY <3>1
    <3>3. j # 1 /\ j - 1 = 2
      BY <3>2
    <3>4. 2 \in DOMAIN calls
      BY <1>2, <2>3, <3>2, <3>3
    <3> QED BY <2>3, <2>5, <3>4 DEF Attended
  <2> QED BY <2>1, <2>3, <2>4, <2>5 DEF FlowOf
<1>8. ASSUME call.do # "save"
      PROVE  /\ IdsKnown(rest, minted) /\ FlowOf(f, rest, IF rest = <<>> THEN None ELSE origin[f])
             /\ snapshot = None => \A i \in DOMAIN rest : rest[i].do = "get"
             /\ rest # <<>> => rest[1].do # "save"
  <2>1. IdsKnown(rest, minted)
    BY <1>1, <1>8, RestIds DEF call, rest
  <2>2. CASE f = Chrome
    <3>1. ChromeCalls(rest)
      BY <1>1, <1>4, <2>2, RestChrome DEF rest
    <3>2. rest # <<>> => rest[1].do # "save"
      BY <1>2, <1>4, <2>2
    <3> QED BY <2>1, <2>2, <3>1, <3>2, <1>1, <1>2, <1>4 DEF FlowOf
  <2>3. CASE f # Chrome
    <3>1. /\ PageCalls(rest)
          /\ \A i \in DOMAIN rest : rest[i].do \notin {"save", "delete", "test", "activate"}
      BY <1>1, <1>5, <1>8, <2>3, RestPage DEF call, rest
    <3>2. rest # <<>> => rest[1].do \notin {"save", "test"} /\ Attended(rest)
      BY <3>1, <1>2 DEF Attended
    <3> QED BY <2>1, <2>3, <3>1, <3>2, <1>1, <1>2 DEF FlowOf
  <2> QED BY <2>2, <2>3
<1>9. CASE call.do # "save" /\ reply.ok
  BY <1>2, <1>3, <1>8, <1>9
<1>10. CASE call.do = "get" /\ ~reply.ok
  BY <1>2, <1>3, <1>8, <1>10
<1>11. CASE call.do = "test" /\ ~reply.ok
  <2>1. f # Chrome
    BY <1>2, <1>4, <1>11 DEF call
  <2>2. calls = <<>> \/ calls = <<Get("provider")>>
    BY <1>1, <1>3, <1>11, CallShape DEF Tests
  <2>3. CASE calls = <<>>
    BY <1>6, <2>1, <2>3 DEF FlowOf
  <2>4. CASE calls = <<Get("provider")>>
    <3>1. Get("provider") \in Calls
      BY CallsMade DEF Reasons
    <3>2. calls \in Seq(Calls) /\ calls # <<>>
      BY <2>4, <3>1
    <3>3. \A i \in DOMAIN calls : i = 1 /\ calls[i].do = "get"
      BY <2>4 DEF Get
    <3>4. calls[1].do = "get"
      BY <2>4 DEF Get
    <3>5. PageCalls(calls) /\ IdsKnown(calls, minted) /\ Attended(calls)
      BY <3>2, <3>3, <3>4 DEF PageCalls, IdsKnown, Attended
    <3> QED BY <2>1, <3>2, <3>3, <3>4, <3>5 DEF FlowOf
  <2> QED BY <2>2, <2>3, <2>4
<1>12. CASE call.do = "settings" /\ ~reply.ok
  <2>1. /\ rest # <<>> /\ rest[1] = Get("settings")
    <3>1. 2 \in DOMAIN mine /\ mine[2] = Get("settings")
      <4>1. CASE f = Chrome
        BY <1>2, <1>4, <1>12, <4>1 DEF ChromeCalls, call, Get
      <4>2. CASE f # Chrome
        BY <1>2, <1>5, <1>12, <4>2 DEF PageCalls, call
      <4> QED BY <4>1, <4>2
    <3>2. PICK j \in DOMAIN mine : j = 2 /\ mine[j] = Get("settings")
      BY <3>1
    <3>3. j # 1 /\ j - 1 = 1
      BY <3>2
    <3> QED BY <1>2, <3>2, <3>3
  <2>2. calls = Tail(rest) /\ rest[1].do = "get"
    BY <1>3, <1>12, <2>1 DEF Get
  <2>3. /\ calls \in Seq(Calls)
        /\ \A i \in DOMAIN calls : i + 1 \in DOMAIN rest /\ calls[i] = rest[i + 1] /\ i \in Nat /\ i >= 1
    BY <1>2, <2>1, <2>2, RestAt
  <2>4. IdsKnown(calls, minted)
    BY <1>2, <1>8, <1>12, <2>1, <2>2, RestIds
  <2>5. CASE f = Chrome
    <3>1. ChromeCalls(calls)
      BY <1>2, <1>8, <1>12, <2>1, <2>2, <2>5, RestChrome DEF FlowOf
    <3>2. \A i \in DOMAIN calls : calls[i].do \in {"get", "settings"}
      BY <1>2, <1>4, <2>3, <2>5
    <3>3. 1 \in DOMAIN mine /\ snapshot # None
      BY <1>1, <1>2, <1>12 DEF call
    <3>4. calls # <<>> => calls[1].do # "save"
      BY <2>3, <3>2
    <3> QED BY <2>3, <2>4, <2>5, <3>1, <3>3, <3>4, <1>4 DEF FlowOf
  <2>6. CASE f # Chrome
    <3>1. PageCalls(rest)
      BY <1>8, <1>12, <2>6 DEF FlowOf
    <3>2. /\ PageCalls(calls)
          /\ \A i \in DOMAIN calls : calls[i].do \notin {"save", "delete", "test", "activate"}
      BY <1>2, <2>1, <2>2, <3>1, RestPage
    <3>3. 1 \in DOMAIN mine /\ snapshot # None
      BY <1>1, <1>2, <1>12 DEF call
    <3>4. calls # <<>> => calls[1].do \notin {"save", "test"} /\ Attended(calls)
      BY <2>3, <3>2 DEF Attended
    <3> QED BY <2>3, <2>4, <2>6, <3>2, <3>3, <3>4 DEF FlowOf
  <2> QED BY <2>5, <2>6
<1>13. CASE call.do \in {"save", "delete", "activate"} /\ ~reply.ok
  <2>1. calls = <<>> /\ f # Chrome
    BY <1>2, <1>3, <1>4, <1>13 DEF call
  <2> QED BY <1>6, <2>1 DEF FlowOf
<1> QED BY <1>1, <1>7, <1>9, <1>10, <1>11, <1>12, <1>13, CallShape

LEMMA Running ==
  ASSUME TypesInd, NEW f \in Flows, NEW calls \in Seq(Calls), Run(f, calls),
         calls # <<>> /\ calls[1].do = "settings" => snapshot' \in Models
  PROVE  /\ todo' \in [Flows -> Seq(Calls)] /\ todo'[f] = calls
         /\ \A g \in Flows : g # f => todo'[g] = todo[g] /\ payload'[g] = payload[g]
         /\ payload' \in [Flows -> Payloads]
         /\ inbox' = IF calls = <<>> THEN inbox ELSE Append(inbox, f)
         /\ calls # <<>> /\ calls[1].do = "settings" =>
              /\ payload'[f] = [snapshot'.settings EXCEPT ![calls[1].field] = calls[1].value]
              /\ payload'[f] \in Settings
<1>1. calls # <<>> => Head(calls) = calls[1] /\ calls[1] \in Calls
  OBVIOUS
<1>2. CASE calls # <<>> /\ calls[1].do = "settings"
  <2>1. payload' = [payload EXCEPT ![f] = [snapshot'.settings EXCEPT ![calls[1].field] = calls[1].value]]
    BY <1>1, <1>2 DEF Run
  <2>2. [snapshot'.settings EXCEPT ![calls[1].field] = calls[1].value] \in Settings
    BY <1>1, <1>2, SettingStored DEF Models
  <2> QED BY <2>1, <2>2 DEF Run, TypesInd, Payloads
<1>3. CASE ~(calls # <<>> /\ calls[1].do = "settings")
  <2>1. payload' = [payload EXCEPT ![f] = None]
    BY <1>1, <1>3 DEF Run
  <2> QED BY <1>3, <2>1 DEF Run, TypesInd, Payloads
<1> QED BY <1>2, <1>3

(* A step of the renderer leaves the store and the other flows alone.       *)
LEMMA RendererKeeps ==
  ASSUME LibraryInd, NEW mine \in SUBSET Flows, UNCHANGED <<storeVars, revived, failed, waiting>>,
         TypesInd', OnePlace', FailuresNoted',
         \A f \in mine :
           /\ FlowOf(f, todo'[f], origin'[f]) /\ IdsKnown(todo'[f], minted)
           /\ todo'[f] # <<>> => Carries(f, todo[f][1])'
           /\ snapshot' = None => \A i \in DOMAIN todo'[f] : todo'[f][i].do = "get",
         \A g \in Flows \ mine :
           /\ todo'[g] = todo[g] /\ origin'[g] = origin[g] /\ payload'[g] = payload[g]
           /\ Asks(g)' <=> Asks(g)
           /\ ToldOk(g)' <=> ToldOk(g),
         snapshot # None => snapshot' # None,
         snapshot' # None => Existing(snapshot'.config) \subseteq minted,
         form' # None => form'.id \in minted \cup {None}
  PROVE  LibraryInd'
<1>1. StoreInd' /\ minted' = minted
  BY StoreSame DEF LibraryInd
<1>2. FlowCalls'
  BY DEF LibraryInd, FlowCalls
<1>3. Minted'
  <2>1. \A g \in Flows : IdsKnown(todo'[g], minted)
    BY DEF LibraryInd, Minted
  <2> QED BY <1>1, <2>1 DEF Minted, Existing
<1>4. Travels'
  <2>1. SUFFICES ASSUME NEW g \in Flows, todo'[g] # <<>> PROVE Carries(g, todo[g][1])'
    BY DEF Travels
  <2>2. CASE g \notin mine
    <3>1. Carries(g, todo[g][1])
      BY <2>1, <2>2 DEF LibraryInd, Travels
    <3> QED BY <3>1, <2>2, <1>1 DEF Carries, Existing
  <2> QED BY <2>1, <2>2
<1>5. SnapshotNeeded'
  BY DEF LibraryInd, SnapshotNeeded
<1> QED BY <1>1, <1>2, <1>3, <1>4, <1>5 DEF LibraryInd


LEMMA FormKept ==
  ASSUME LibraryInd, NEW f \in Flows, todo[f] # <<>>, NEW reply \in Replies,
         reply.ok => ToldOk(f), NEW calls, NEW next, next = FormAfter(f, reply, calls)
  PROVE  next = None \/ (next \in Forms /\ next.id \in minted \cup {None})
<1> DEFINE call == Head(todo[f])
<1>1. /\ call = todo[f][1] /\ call \in Calls
      /\ call.do = "save" /\ reply.ok => payload[f] \in minted
  BY FirstCall DEF LibraryInd, TypesInd, Travels, Carries
<1>2. minted \subseteq Configs /\ (form # None => form \in Forms /\ form.id \in minted \cup {None})
  BY DEF LibraryInd, StoreInd, StoreTypeOK, TypesInd, Minted
<1>3. \/ next = None \/ next = form
      \/ form # None /\ call.do = "save" /\ reply.ok
           /\ next = [form EXCEPT !.id = payload[f], !.is_default = call.req.is_default]
      \/ form # None /\ next = [form EXCEPT !.flow = None]
  BY DEF FormAfter
<1>4. call.do = "save" => call.req.is_default \in BOOLEAN
  BY <1>1, CallShape DEF Saves, Requests
<1> HIDE DEF call
<1>5. CASE form # None /\ call.do = "save" /\ reply.ok
             /\ next = [form EXCEPT !.id = payload[f], !.is_default = call.req.is_default]
  BY <1>1, <1>2, <1>4, <1>5 DEF Forms
<1>6. CASE form # None /\ next = [form EXCEPT !.flow = None]
  BY <1>2, <1>6 DEF Forms
<1> QED BY <1>2, <1>3, <1>5, <1>6

LEMMA RendererReceived ==
  ASSUME LibraryInd, RendererReceives
  PROVE  LibraryInd'
<1>0. Head(outbox) \in Replies
  BY TellPopped DEF LibraryInd, OnePlace, RendererReceives
<1> PICK reply \in Replies : reply = Head(outbox)
  BY <1>0
<1> PICK f \in Flows : f = reply.flow
  BY DEF Replies
<1> PICK calls : calls = Following(f, reply)
  OBVIOUS
<1> DEFINE call == Head(todo[f])
<1>1. /\ outbox # <<>> /\ outbox' = Tail(outbox)
      /\ snapshot' = IF call.do = "get" /\ reply.ok THEN payload[f] ELSE snapshot
      /\ Run(f, calls)
      /\ form' = FormAfter(f, reply, calls)
      /\ origin' = IF calls = <<>> THEN [origin EXCEPT ![f] = None] ELSE origin
      /\ intent' = IF origin[f] = "form" /\ calls # <<>> /\ Head(calls).do = "settings"
                     THEN [intent EXCEPT ![Head(calls).field] = Head(calls).value]
                     ELSE intent
      /\ UNCHANGED <<storeVars, waiting, clicks, historyVars>>
  BY DEF RendererReceives
<1>2. /\ reply \in Replies /\ f \in Flows /\ Popped(outbox, outbox')
      /\ Told(f) /\ (reply.ok => ToldOk(f))
  BY <1>1, TellPopped DEF LibraryInd, OnePlace, Replies
<1>3. todo[f] # <<>> /\ f \notin waiting
  BY <1>2 DEF LibraryInd, OnePlace, Idle
<1>4. /\ call = todo[f][1] /\ call \in Calls
      /\ call.do = "get" /\ reply.ok => payload[f] \in Models /\ Existing(payload[f].config) \subseteq minted
  BY <1>2, <1>3, FirstCall DEF LibraryInd, Travels, Carries
<1>5. /\ calls \in Seq(Calls) /\ IdsKnown(calls, minted)
      /\ FlowOf(f, calls, IF calls = <<>> THEN None ELSE origin[f])
      /\ snapshot = None => \A i \in DOMAIN calls : calls[i].do = "get"
      /\ calls # <<>> => calls[1].do # "save"
  BY <1>2, <1>3, FollowingKeeps
<1>6. form' = None \/ (form' \in Forms /\ form'.id \in minted \cup {None})
  BY <1>1, <1>2, <1>3, FormKept
<1> HIDE DEF call
<1>7. /\ snapshot' = None \/ snapshot' \in Models
      /\ snapshot # None => snapshot' # None
      /\ snapshot' # None => Existing(snapshot'.config) \subseteq minted
  BY <1>1, <1>4, ModelsAssumption DEF LibraryInd, TypesInd, Minted
<1>8. calls # <<>> /\ calls[1].do = "settings" => snapshot' \in Models /\ snapshot' # None
  <2> SUFFICES ASSUME calls # <<>>, calls[1].do = "settings" PROVE snapshot # None
    BY <1>7
  <2>1. 1 \in DOMAIN calls
    BY <1>5
  <2> QED BY <2>1, <1>5
<1>9. /\ todo' \in [Flows -> Seq(Calls)] /\ todo'[f] = calls
      /\ \A g \in Flows : g # f => todo'[g] = todo[g] /\ payload'[g] = payload[g]
      /\ payload' \in [Flows -> Payloads]
      /\ inbox' = IF calls = <<>> THEN inbox ELSE Append(inbox, f)
      /\ calls # <<>> /\ calls[1].do = "settings" => payload'[f] \in Settings
  BY <1>1, <1>2, <1>5, <1>8, Running DEF LibraryInd
<1>10. Receives(f)
  BY <1>1, <1>9 DEF Receives, Idle
<1>11. /\ OnePlace'
       /\ inbox' \in Seq(Flows) /\ outbox' \in Seq(Replies)
       /\ ~Told(f)'
       /\ \A g \in Flows : g # f => (Asks(g)' <=> Asks(g))
       /\ \A g \in Flows : ToldOk(g)' <=> ToldOk(g) /\ g # f
  BY <1>10, ReceivesPlace DEF LibraryInd
<1>12. intent' \in Settings /\ origin' \in [Flows -> Configs \cup {"form", None}]
  <2>1. calls # <<>> => Head(calls) \in Calls
    BY <1>5
  <2> QED BY <1>1, <1>2, <2>1, SettingStored DEF LibraryInd, TypesInd
<1>13. TypesInd'
  BY <1>1, <1>6, <1>7, <1>9, <1>11, <1>12 DEF LibraryInd, TypesInd, historyVars
<1>14. FailuresNoted'
  <2>1. \A i \in DOMAIN outbox' : i + 1 \in DOMAIN outbox /\ outbox'[i] = outbox[i + 1]
    BY <1>2, PoppedAt
  <2> QED BY <1>1, <2>1 DEF LibraryInd, FailuresNoted, historyVars
<1>15. FlowOf(f, todo'[f], origin'[f])
  BY <1>1, <1>2, <1>5, <1>9 DEF LibraryInd, TypesInd
<1>16. todo'[f] # <<>> => Carries(f, todo[f][1])'
  BY <1>1, <1>3, <1>5, <1>8, <1>9, <1>11 DEF Carries
<1>17. \A g \in Flows \ {f} : origin'[g] = origin[g]
  BY <1>1, <1>2 DEF LibraryInd, TypesInd
<1>18. snapshot' = None => \A i \in DOMAIN todo'[f] : todo'[f][i].do = "get"
  BY <1>5, <1>7, <1>9
<1>19. {f} \in SUBSET Flows /\ UNCHANGED <<storeVars, revived, failed, waiting>>
  BY <1>1, <1>2 DEF historyVars
<1>20. \A g \in {f} :
        /\ FlowOf(g, todo'[g], origin'[g]) /\ IdsKnown(todo'[g], minted)
        /\ todo'[g] # <<>> => Carries(g, todo[g][1])'
        /\ snapshot' = None => \A i \in DOMAIN todo'[g] : todo'[g][i].do = "get"
  BY <1>5, <1>9, <1>15, <1>16, <1>18
<1>21. \A g \in Flows \ {f} :
        /\ todo'[g] = todo[g] /\ origin'[g] = origin[g] /\ payload'[g] = payload[g]
        /\ Asks(g)' <=> Asks(g)
        /\ ToldOk(g)' <=> ToldOk(g)
  BY <1>9, <1>11, <1>17
<1>22. form' # None => form'.id \in minted \cup {None}
  BY <1>6
<1> QED BY <1>7, <1>11, <1>13, <1>14, <1>19, <1>20, <1>21, <1>22, RendererKeeps

-----------------------------------------------------------------------------
(* The user.                                                                *)
LEMMA StartKeeps ==
  ASSUME LibraryInd, NEW f \in Flows, NEW calls \in Seq(Calls), calls # <<>>,
         NEW who \in Configs \cup {"form", None}, Click, Start(f, calls, who),
         FlowOf(f, calls, who), IdsKnown(calls, minted),
         intent' \in Settings, overlapped' \in BOOLEAN,
         form' = None \/ (form' \in Forms /\ form'.id \in minted \cup {None})
  PROVE  LibraryInd'
<1>1. /\ snapshot # None /\ clicks' \in 0 .. MaxClicks
      /\ UNCHANGED <<storeVars, snapshot, waiting, outbox, failed, revived>>
      /\ Idle(f) /\ Run(f, calls) /\ origin' = [origin EXCEPT ![f] = who]
  BY ClicksAssumption DEF Click, Start, LibraryInd, TypesInd
<1>2. snapshot' \in Models /\ Existing(snapshot'.config) \subseteq minted
  BY <1>1 DEF LibraryInd, TypesInd, Minted
<1>3. /\ todo' \in [Flows -> Seq(Calls)] /\ todo'[f] = calls
      /\ \A g \in Flows : g # f => todo'[g] = todo[g] /\ payload'[g] = payload[g]
      /\ payload' \in [Flows -> Payloads] /\ inbox' = Append(inbox, f)
      /\ calls[1].do = "settings" => payload'[f] \in Settings
  BY <1>1, <1>2, Running DEF LibraryInd
<1>4. Begins(f)
  BY <1>1, <1>3 DEF Begins, Idle
<1>5. /\ OnePlace' /\ inbox' \in Seq(Flows)
      /\ f \notin waiting /\ ~Told(f)
      /\ \A g \in Flows : g # f => (Asks(g)' <=> Asks(g))
      /\ \A g \in Flows : (Told(g)' <=> Told(g)) /\ (ToldOk(g)' <=> ToldOk(g))
  BY <1>4, BeginsPlace DEF LibraryInd
<1>6. TypesInd'
  BY <1>1, <1>2, <1>3, <1>5 DEF LibraryInd, TypesInd
<1>7. FailuresNoted'
  BY <1>1 DEF LibraryInd, FailuresNoted
<1>8. ~ToldOk(f)'
  BY <1>5 DEF Told, ToldOk
<1>9. todo'[f] # <<>> => Carries(f, todo[f][1])'
  BY <1>1, <1>2, <1>3, <1>5, <1>8 DEF Carries
<1>10. origin'[f] = who /\ \A g \in Flows \ {f} : origin'[g] = origin[g]
  BY <1>1 DEF LibraryInd, TypesInd
<1>11. \A g \in {f} :
        /\ FlowOf(g, todo'[g], origin'[g]) /\ IdsKnown(todo'[g], minted)
        /\ todo'[g] # <<>> => Carries(g, todo[g][1])'
        /\ snapshot' = None => \A i \in DOMAIN todo'[g] : todo'[g][i].do = "get"
  BY <1>1, <1>3, <1>9, <1>10
<1>12. \A g \in Flows \ {f} :
        /\ todo'[g] = todo[g] /\ origin'[g] = origin[g] /\ payload'[g] = payload[g]
        /\ Asks(g)' <=> Asks(g)
        /\ ToldOk(g)' <=> ToldOk(g)
  BY <1>3, <1>5, <1>10
<1>13. /\ {f} \in SUBSET Flows
       /\ form' # None => form'.id \in minted \cup {None}
  OBVIOUS
<1> QED BY <1>1, <1>2, <1>5, <1>6, <1>7, <1>11, <1>12, <1>13, RendererKeeps

(* The flows the user starts on a page.                                     *)
Fits(f, calls, who, ids) ==
  calls \in Seq(Calls) /\ calls # <<>> /\ FlowOf(f, calls, who) /\ IdsKnown(calls, ids)

LEMMA Shapes ==
  ASSUME NEW f \in Pages, NEW ids
  PROVE  /\ \A set \in Sets : Fits(f, <<set, Get("settings")>>, None, ids)
         /\ \A c \in Configs : c \in ids => Fits(f, <<Test(c, <<>>), Get("provider")>>, c, ids)
         /\ \A c \in Configs : Fits(f, <<Delete(c), Get("provider")>>, None, ids)
         /\ \A reason \in Reasons : Fits(f, <<Get(reason)>>, None, ids)
<1>1. f # Chrome /\ f \in Flows
  BY ChromeAssumption DEF Flows
<1>2. /\ Get("settings") \in Calls /\ Get("settings").do = "get"
      /\ Get("provider") \in Calls /\ Get("provider").do = "get"
  BY CallsMade DEF Reasons, Get
<1>3. ASSUME NEW set \in Sets PROVE Fits(f, <<set, Get("settings")>>, None, ids)
  <2>1. set \in Calls /\ set.do = "settings"
    BY SetShape DEF Calls
  <2> QED BY <1>1, <1>2, <2>1 DEF Fits, FlowOf, PageCalls, IdsKnown
<1>4. ASSUME NEW c \in Configs, c \in ids
      PROVE  Fits(f, <<Test(c, <<>>), Get("provider")>>, c, ids)
  <2>1. Test(c, <<>>) \in Calls /\ Test(c, <<>>).do = "test" /\ Test(c, <<>>).id = c
    BY CallsMade DEF Test
  <2> QED BY <1>1, <1>2, <1>4, <2>1 DEF Fits, FlowOf, PageCalls, IdsKnown, Attended
<1>5. ASSUME NEW c \in Configs PROVE Fits(f, <<Delete(c), Get("provider")>>, None, ids)
  <2>1. Delete(c) \in Calls /\ Delete(c).do = "delete"
    BY CallsMade DEF Delete
  <2> QED BY <1>1, <1>2, <2>1 DEF Fits, FlowOf, PageCalls, IdsKnown
<1>6. ASSUME NEW reason \in Reasons PROVE Fits(f, <<Get(reason)>>, None, ids)
  <2>1. Get(reason) \in Calls /\ Get(reason).do = "get"
    BY CallsMade DEF Get
  <2> QED BY <1>1, <2>1 DEF Fits, FlowOf, PageCalls, IdsKnown
<1> QED BY <1>3, <1>4, <1>5, <1>6

LEMMA SavesFit ==
  ASSUME NEW f \in Pages, NEW ids, NEW req \in Requests, NEW id \in Configs \cup {None},
         NEW who, id \in ids \cup {None}, id = None => req.key # None
  PROVE  /\ \A onError \in {<<>>, <<Get("provider")>>} :
              Fits(f, <<Save(id, req), Test(id, onError), Get("provider")>>, who, ids)
         /\ \A cap \in Capabilities :
              Fits(f, <<Save(id, req), Test(id, <<>>), Activate(cap), Get("settings"), Get("provider")>>, who, ids)
<1>1. f # Chrome /\ f \in Flows
  BY ChromeAssumption DEF Flows
<1>2. /\ Get("settings") \in Calls /\ Get("settings").do = "get"
      /\ Get("provider") \in Calls /\ Get("provider").do = "get"
  BY CallsMade DEF Reasons, Get
<1>3. /\ Save(id, req) \in Calls /\ Save(id, req).do = "save"
      /\ Save(id, req).id = id /\ Save(id, req).req = req
  BY CallsMade DEF Save
<1>4. ASSUME NEW onError \in {<<>>, <<Get("provider")>>}
      PROVE  Test(id, onError) \in Calls /\ Test(id, onError).do = "test"
  BY CallsMade DEF Test
<1>5. ASSUME NEW onError \in {<<>>, <<Get("provider")>>}, NEW set, set = Save(id, req),
             NEW test, test = Test(id, onError), NEW last, last = Get("provider")
      PROVE  Fits(f, <<set, test, last>>, who, ids)
  <2>1. /\ set \in Calls /\ set.do = "save" /\ set.id = id /\ set.req = req
        /\ test \in Calls /\ test.do = "test" /\ last \in Calls /\ last.do = "get"
    BY <1>2, <1>3, <1>4, <1>5
  <2> DEFINE calls == <<set, test, last>>
  <2>2. /\ calls \in Seq(Calls) /\ calls # <<>> /\ DOMAIN calls = 1 .. 3
        /\ calls[1] = set /\ calls[2] = test /\ calls[3] = last
    BY <2>1
  <2> HIDE DEF calls
  <2>3. PageCalls(calls)
    BY <2>1, <2>2 DEF PageCalls
  <2>4. IdsKnown(calls, ids) /\ Attended(calls)
    BY <2>1, <2>2 DEF IdsKnown, Attended
  <2>5. Fits(f, calls, who, ids)
    BY <1>1, <2>2, <2>3, <2>4 DEF Fits, FlowOf
  <2> QED BY <2>5 DEF calls
<1>6. ASSUME NEW cap \in Capabilities, NEW set, set = Save(id, req),
             NEW test, test = Test(id, <<>>), NEW wire, wire = Activate(cap),
             NEW settled, settled = Get("settings"), NEW last, last = Get("provider")
      PROVE  Fits(f, <<set, test, wire, settled, last>>, who, ids)
  <2>1. /\ set \in Calls /\ set.do = "save" /\ set.id = id /\ set.req = req
        /\ test \in Calls /\ test.do = "test" /\ last \in Calls /\ last.do = "get"
        /\ wire \in Calls /\ wire.do = "activate" /\ settled \in Calls /\ settled.do = "get"
    BY <1>2, <1>3, <1>4, <1>6, CallsMade DEF Activate
  <2> DEFINE calls == <<set, test, wire, settled, last>>
  <2>2. /\ calls \in Seq(Calls) /\ calls # <<>> /\ DOMAIN calls = 1 .. 5
        /\ calls[1] = set /\ calls[2] = test /\ calls[3] = wire /\ calls[4] = settled /\ calls[5] = last
    BY <2>1
  <2> HIDE DEF calls
  <2>3. PageCalls(calls)
    BY <1>6, <2>1, <2>2 DEF PageCalls
  <2>4. IdsKnown(calls, ids) /\ Attended(calls)
    BY <2>1, <2>2 DEF IdsKnown, Attended
  <2>5. Fits(f, calls, who, ids)
    BY <1>1, <2>2, <2>3, <2>4 DEF Fits, FlowOf
  <2> QED BY <2>5 DEF calls
<1> QED BY <1>5, <1>6

LEMMA OneMore ==
  ASSUME NEW s \in Seq(Calls), NEW call \in Calls, NEW t, t = s \o <<call>>
  PROVE  /\ t \in Seq(Calls) /\ Len(t) = Len(s) + 1 /\ t[Len(s) + 1] = call
         /\ \A i \in 1 .. Len(s) : t[i] = s[i]
OBVIOUS

(* The same as the form puts its flow together.                             *)
LEMMA FormSavesFit ==
  ASSUME NEW f \in Pages, NEW ids, NEW req \in Requests, NEW id \in Configs \cup {None},
         NEW who, id \in ids \cup {None}, id = None => req.key # None,
         NEW cap \in Capabilities, NEW activate \in BOOLEAN, NEW calls,
         calls = <<Save(id, req), Test(id, <<>>)>>
                 \o (IF activate THEN <<Activate(cap), Get("settings")>> ELSE <<>>) \o <<Get("provider")>>
  PROVE  Fits(f, calls, who, ids)
<1>1. f # Chrome /\ f \in Flows
  BY ChromeAssumption DEF Flows
<1>2. PICK set \in Calls : set = Save(id, req) /\ set.do = "save" /\ set.id = id /\ set.req = req
  BY CallsMade DEF Save
<1>3. PICK test \in Calls : test = Test(id, <<>>) /\ test.do = "test"
  BY CallsMade DEF Test
<1>4. PICK wire \in Calls : wire = Activate(cap) /\ wire.do = "activate"
  BY CallsMade DEF Activate
<1>5. PICK settled \in Calls : settled = Get("settings") /\ settled.do = "get"
  BY CallsMade DEF Reasons, Get
<1>6. PICK last \in Calls : last = Get("provider") /\ last.do = "get"
  BY CallsMade DEF Reasons, Get
<1>7. PICK first : first = <<set, test>> /\ first \in Seq(Calls)
  <2>1. <<set, test>> \in Seq(Calls)
    BY <1>2, <1>3
  <2> QED BY <2>1
<1>8. PICK second : second = <<wire, settled>> /\ second \in Seq(Calls)
  <2>1. <<wire, settled>> \in Seq(Calls)
    BY <1>4, <1>5
  <2> QED BY <2>1
<1>9. CASE activate
  <2>1. PICK four : four = first \o second /\ four \in Seq(Calls)
    <3>1. first \o second \in Seq(Calls)
      BY <1>7, <1>8
    <3> QED BY <3>1
  <2>2. Len(four) = 4 /\ four[1] = set /\ four[2] = test /\ four[3] = wire /\ four[4] = settled
    BY <2>1, <1>7, <1>8
  <2>3. calls = four \o <<last>>
    BY <1>2, <1>3, <1>4, <1>5, <1>6, <1>7, <1>8, <1>9, <2>1
  <2>4. /\ calls \in Seq(Calls) /\ calls # <<>> /\ Len(calls) = 5
        /\ calls[1] = set /\ calls[2] = test /\ calls[3] = wire /\ calls[4] = settled /\ calls[5] = last
    <3>1. calls \in Seq(Calls) /\ Len(calls) = 5
      BY <1>6, <2>1, <2>2, <2>3
    <3>2. calls[5] = last /\ \A i \in 1 .. 4 : calls[i] = four[i]
      BY <1>6, <2>1, <2>2, <2>3
    <3> QED BY <2>2, <3>1, <3>2
  <2>5. PageCalls(calls)
    <3>1. /\ calls[1].do = "save" /\ calls[2].do = "test" /\ calls[3].do = "activate"
          /\ calls[4] = Get("settings") /\ calls[4].do = "get" /\ calls[5].do = "get"
      BY <1>2, <1>3, <1>4, <1>5, <1>6, <2>4
    <3>2. \A i \in DOMAIN calls : i = 1 \/ i = 2 \/ i = 3 \/ i = 4 \/ i = 5
      BY <2>4
    <3>3. 4 \in DOMAIN calls
      BY <2>4
    <3> QED BY <3>1, <3>2, <3>3 DEF PageCalls
  <2>6. IdsKnown(calls, ids) /\ Attended(calls)
    BY <1>2, <1>3, <1>4, <1>5, <1>6, <2>4 DEF IdsKnown, Attended
  <2> QED BY <1>1, <2>4, <2>5, <2>6 DEF Fits, FlowOf
<1>10. CASE ~activate
  <2>1. calls = first \o <<last>>
    <3>1. calls = first \o <<>> \o <<last>>
      BY <1>2, <1>3, <1>6, <1>7, <1>10
    <3>2. first \o <<>> = first
      BY <1>7
    <3> QED BY <3>1, <3>2
  <2>2. /\ calls \in Seq(Calls) /\ calls # <<>> /\ Len(calls) = 3
        /\ calls[1] = set /\ calls[2] = test /\ calls[3] = last
    <3>1. Len(first) = 2 /\ first[1] = set /\ first[2] = test /\ first \in Seq(Calls)
      BY <1>7
    <3>2. /\ calls \in Seq(Calls) /\ Len(calls) = Len(first) + 1 /\ calls[Len(first) + 1] = last
          /\ \A i \in 1 .. Len(first) : calls[i] = first[i]
      BY <1>6, <2>1, <3>1, OneMore
    <3>3. calls[3] = last /\ \A i \in 1 .. 2 : calls[i] = first[i]
      BY <3>1, <3>2
    <3> QED BY <3>1, <3>2, <3>3
  <2>3. PageCalls(calls)
    BY <1>2, <1>3, <1>6, <2>2 DEF PageCalls
  <2>4. IdsKnown(calls, ids) /\ Attended(calls)
    BY <1>2, <1>3, <1>6, <2>2 DEF IdsKnown, Attended
  <2> QED BY <1>1, <2>2, <2>3, <2>4 DEF Fits, FlowOf
<1> QED BY <1>9, <1>10

(* A chain that is under way is continued.                                  *)
Lengthened(calls, t, next) == next = calls \o <<Set("theme", t), Get("settings")>>

LEMMA ChainGrows ==
  ASSUME NEW calls \in Seq(Calls), calls # <<>>, ChromeCalls(calls), NEW t \in Themes,
         NEW ids, IdsKnown(calls, ids),
         NEW next, Lengthened(calls, t, next)
  PROVE  /\ next \in Seq(Calls) /\ next # <<>> /\ next[1] = calls[1] /\ ChromeCalls(next)
         /\ IdsKnown(next, ids) /\ Len(next) = Len(calls) + 2
         /\ next[Len(next) - 1] = Set("theme", t) /\ next[Len(next)] = Get("settings")
<1> DEFINE set == Set("theme", t)
           get == Get("settings")
<1>1. set \in Calls /\ get \in Calls /\ set.do = "settings" /\ set.field = "theme" /\ get.do = "get"
  BY CallsMade DEF Reasons, Set, Get
<1>2. next = calls \o <<set, get>> /\ get = Get("settings") /\ set = Set("theme", t)
  BY DEF Lengthened
<1> HIDE DEF set, get
<1>3. /\ next \in Seq(Calls) /\ Len(next) = Len(calls) + 2 /\ Len(calls) \in Nat /\ Len(calls) > 0
      /\ DOMAIN calls = 1 .. Len(calls) /\ DOMAIN next = 1 .. Len(next)
      /\ next[Len(calls) + 1] = set /\ next[Len(calls) + 2] = get
  BY <1>1, <1>2
<1>4. \A i \in DOMAIN calls : next[i] = calls[i]
  BY <1>1, <1>2
<1>5. ChromeCalls(next)
  <2>1. SUFFICES ASSUME NEW i \in DOMAIN next
                 PROVE  \/ next[i] = Get("settings") /\ (i + 1 \in DOMAIN next => next[i + 1].do = "settings")
                        \/ /\ next[i].do = "settings" /\ next[i].field = "theme"
                           /\ i + 1 \in DOMAIN next /\ next[i + 1] = Get("settings")
    BY DEF ChromeCalls
  <2>2. i \in Nat /\ i >= 1 /\ i <= Len(calls) + 2
    BY <1>3
  <2>3. CASE i < Len(calls)
    <3>1. i \in DOMAIN calls /\ i + 1 \in DOMAIN calls /\ i + 1 \in DOMAIN next
      BY <1>3, <2>2, <2>3
    <3>2. next[i] = calls[i] /\ next[i + 1] = calls[i + 1]
      BY <3>1, <1>4
    <3> QED BY <3>1, <3>2 DEF ChromeCalls
  <2>4. CASE i = Len(calls)
    <3>1. i \in DOMAIN calls /\ i + 1 \notin DOMAIN calls /\ next[i + 1] = set
      BY <1>3, <2>2, <2>4
    <3>2. next[i] = calls[i] /\ calls[i] = Get("settings")
      BY <3>1, <1>4 DEF ChromeCalls
    <3> QED BY <1>1, <3>1, <3>2
  <2>5. CASE i = Len(calls) + 1
    BY <1>1, <1>2, <1>3, <2>5
  <2>6. CASE i = Len(calls) + 2
    BY <1>1, <1>2, <1>3, <2>6
  <2> QED BY <1>3, <2>2, <2>3, <2>4, <2>5, <2>6
<1>6. IdsKnown(next, ids)
  <2>1. SUFFICES ASSUME NEW i \in DOMAIN next
                 PROVE  /\ next[i].do = "save" =>
                             next[i].id \in ids \cup {None} /\ (next[i].id = None => next[i].req.key # None)
                        /\ next[i].do = "test" => next[i].id \in ids \/ (i = 2 /\ next[1].do = "save")
    BY DEF IdsKnown
  <2>2. i \in DOMAIN calls \/ next[i] \in {set, get}
    BY <1>3
  <2>3. 1 \in DOMAIN calls
    BY <1>3
  <2> QED BY <1>1, <1>4, <2>2, <2>3 DEF IdsKnown
<1>7. 1 \in DOMAIN calls /\ next # <<>>
  BY <1>3
<1> QED BY <1>2, <1>3, <1>4, <1>5, <1>6, <1>7

LEMMA SnapshotShape ==
  ASSUME LibraryInd, snapshot # None
  PROVE  /\ snapshot \in Models /\ Existing(snapshot.config) \subseteq minted /\ minted \subseteq Configs
         /\ \A c \in Existing(snapshot.config) : snapshot.config[c] \in Rows
BY DEF LibraryInd, TypesInd, Minted, Models, Existing, StoreInd, StoreTypeOK

LEMMA FormShape ==
  ASSUME LibraryInd
  PROVE  form = None \/ (form \in Forms /\ form.id \in minted \cup {None} /\ minted \subseteq Configs)
BY DEF LibraryInd, TypesInd, Minted, StoreInd, StoreTypeOK

LEMMA CrossingTyped ==
  ASSUME NEW S, LibraryInd, Crossing(S) \/ UNCHANGED overlapped
  PROVE  overlapped' \in BOOLEAN
BY DEF Crossing, LibraryInd, TypesInd

LEMMA ThemeKeeps ==
  ASSUME LibraryInd, NEW t \in Themes, ChangeTheme(t)
  PROVE  LibraryInd'
<1> DEFINE more == <<Set("theme", t), Get("settings")>>
<1>1. /\ Click /\ snapshot # None /\ UNCHANGED form
      /\ intent' = [intent EXCEPT !.theme = t] /\ overlapped' \in BOOLEAN
  BY CrossingTyped DEF ChangeTheme, Click
<1>2. intent' \in Settings
  BY <1>1 DEF LibraryInd, TypesInd, Settings
<1>3. CASE Idle(Chrome)
  <2>1. /\ Set("theme", t) \in Calls /\ Set("theme", t).do = "settings"
        /\ Set("theme", t).field = "theme"
        /\ Get("settings") \in Calls /\ Get("settings").do = "get"
    BY CallsMade DEF Reasons, Set, Get
  <2>2. /\ more \in Seq(Calls) /\ more # <<>> /\ FlowOf(Chrome, more, None)
        /\ IdsKnown(more, minted)
    BY <2>1 DEF FlowOf, ChromeCalls, IdsKnown
  <2>3. Start(Chrome, more, None) /\ Chrome \in Flows
    BY <1>3 DEF ChangeTheme, Flows
  <2> HIDE DEF more
  <2> QED BY <1>1, <1>2, <2>2, <2>3, FormShape, StartKeeps
<1>4. CASE ~Idle(Chrome)
  <2>1. /\ todo' = [todo EXCEPT ![Chrome] = @ \o more]
        /\ UNCHANGED <<payload, inbox, origin, storeVars, snapshot, waiting, outbox, failed, revived>>
        /\ clicks' \in 0 .. MaxClicks
    <3>1. clicks' = clicks + 1 /\ clicks < MaxClicks /\ clicks \in 0 .. MaxClicks
      BY <1>1 DEF Click, LibraryInd, TypesInd
    <3>2. clicks' \in 0 .. MaxClicks
      BY <3>1, ClicksAssumption
    <3> QED BY <1>1, <1>4, <3>2 DEF ChangeTheme, Click
  <2>2. /\ Chrome \in Flows /\ todo[Chrome] \in Seq(Calls) /\ todo[Chrome] # <<>>
        /\ ChromeCalls(todo[Chrome]) /\ origin[Chrome] = None /\ IdsKnown(todo[Chrome], minted)
        /\ Carries(Chrome, todo[Chrome][1])
    BY <1>4 DEF Flows, LibraryInd, TypesInd, Idle, FlowCalls, FlowOf, Minted, Travels
  <2>3. /\ todo'[Chrome] = todo[Chrome] \o more
        /\ \A g \in Flows \ {Chrome} : todo'[g] = todo[g]
        /\ todo' = [todo EXCEPT ![Chrome] = todo'[Chrome]]
    BY <2>1, <2>2 DEF LibraryInd, TypesInd
  <2>4. /\ todo'[Chrome] \in Seq(Calls) /\ todo'[Chrome] # <<>> /\ todo'[Chrome][1] = todo[Chrome][1]
        /\ ChromeCalls(todo'[Chrome]) /\ IdsKnown(todo'[Chrome], minted)
    <3> PICK next : next = todo'[Chrome]
      OBVIOUS
    <3>1. Lengthened(todo[Chrome], t, next)
      BY <2>3 DEF Lengthened
    <3>2. next \in Seq(Calls) /\ next # <<>> /\ next[1] = todo[Chrome][1] /\ ChromeCalls(next)
          /\ IdsKnown(next, minted)
      BY <2>2, <3>1, ChainGrows
    <3> QED BY <3>2
  <2> HIDE DEF more
  <2>5. TypesInd'
    BY <1>1, <1>2, <2>1, <2>3, <2>4 DEF LibraryInd, TypesInd
  <2>6. /\ \A g \in Flows : (Asks(g)' <=> Asks(g)) /\ (Told(g)' <=> Told(g)) /\ (ToldOk(g)' <=> ToldOk(g))
        /\ \A g \in Flows : Idle(g)' <=> Idle(g)
        /\ AskedOnce' /\ ToldOnce' /\ FailuresNoted'
    BY <1>4, <2>1, <2>3, <2>4 DEF Asks, Told, ToldOk, Idle, AskedOnce, ToldOnce, FailuresNoted, LibraryInd, OnePlace
  <2>7. OnePlace'
    BY <2>1, <2>6 DEF LibraryInd, OnePlace
  <2>8. Carries(Chrome, todo[Chrome][1])'
    BY <2>1, <2>2, <2>4, <2>6 DEF Carries, Existing, storeVars
  <2>9. \A g \in {Chrome} :
          /\ FlowOf(g, todo'[g], origin'[g]) /\ IdsKnown(todo'[g], minted)
          /\ todo'[g] # <<>> => Carries(g, todo[g][1])'
          /\ snapshot' = None => \A i \in DOMAIN todo'[g] : todo'[g][i].do = "get"
    BY <1>1, <2>1, <2>2, <2>4, <2>8 DEF FlowOf
  <2>10. \A g \in Flows \ {Chrome} :
          /\ todo'[g] = todo[g] /\ origin'[g] = origin[g] /\ payload'[g] = payload[g]
          /\ Asks(g)' <=> Asks(g)
          /\ ToldOk(g)' <=> ToldOk(g)
    BY <2>1, <2>3, <2>6
  <2>11. /\ {Chrome} \in SUBSET Flows
         /\ form' # None => form'.id \in minted \cup {None}
         /\ snapshot # None => snapshot' # None
         /\ snapshot' # None => Existing(snapshot'.config) \subseteq minted
    BY <1>1, <2>1, <2>2, FormShape, SnapshotShape
  <2> QED BY <2>1, <2>5, <2>6, <2>7, <2>9, <2>10, <2>11, RendererKeeps
<1> QED BY <1>3, <1>4

LEMMA SettingKeeps ==
  ASSUME LibraryInd, NEW f \in Pages, NEW field, NEW value, Set(field, value) \in Sets,
         ChangeSetting(f, field, value)
  PROVE  LibraryInd'
<1>1. /\ Click /\ snapshot # None /\ UNCHANGED form /\ f \in Flows
      /\ intent' = [intent EXCEPT ![field] = value] /\ overlapped' \in BOOLEAN
      /\ Start(f, <<Set(field, value), Get("settings")>>, None)
  BY CrossingTyped DEF ChangeSetting, Click, Flows
<1>2. Set(field, value) \in Calls /\ Set(field, value).do = "settings"
      /\ Set(field, value).field = field /\ Set(field, value).value = value
  BY DEF Calls, Set
<1>3. intent' \in Settings
  BY <1>1, <1>2, SettingStored DEF LibraryInd, TypesInd
<1>4. Fits(f, <<Set(field, value), Get("settings")>>, None, minted)
  BY Shapes
<1> DEFINE calls == <<Set(field, value), Get("settings")>>
<1>5. Fits(f, calls, None, minted) /\ Start(f, calls, None)
  BY <1>1, <1>4
<1> HIDE DEF calls
<1> QED BY <1>1, <1>3, <1>5, FormShape, StartKeeps DEF Fits

LEMMA ReverifyKeeps ==
  ASSUME LibraryInd, NEW f \in Pages, NEW c \in Configs, Reverify(f, c)
  PROVE  LibraryInd'
<1> DEFINE calls == <<Test(c, <<>>), Get("provider")>>
<1>1. /\ Click /\ snapshot # None /\ c \in Existing(snapshot.config) /\ f \in Flows
      /\ UNCHANGED <<form, intent, overlapped>> /\ Start(f, calls, c)
  BY DEF Reverify, Click, Cards, Flows
<1>2. c \in minted
  BY <1>1, SnapshotShape
<1>3. Fits(f, calls, c, minted)
  BY <1>2, Shapes
<1>4. intent' \in Settings /\ overlapped' \in BOOLEAN
  BY <1>1 DEF LibraryInd, TypesInd
<1> HIDE DEF calls
<1> QED BY <1>1, <1>3, <1>4, FormShape, StartKeeps DEF Fits

LEMMA SwitchKeeps ==
  ASSUME LibraryInd, NEW f \in Pages, NEW c \in Configs, SwitchModel(f, c)
  PROVE  LibraryInd'
<1> DEFINE row == snapshot.config[c]
<1> PICK req : req = [capability |-> row.capability,
                      is_default |-> row.capability = "omni" /\ row.is_default, key |-> None]
  OBVIOUS
<1> DEFINE calls == <<Save(c, req), Test(c, <<Get("provider")>>), Get("provider")>>
<1>1. /\ Click /\ snapshot # None /\ c \in Existing(snapshot.config) /\ f \in Flows
      /\ UNCHANGED <<form, intent, overlapped>> /\ Start(f, calls, c)
  BY DEF SwitchModel, Click, Cards, Flows
<1>2. c \in minted /\ row \in Rows
  BY <1>1, SnapshotShape
<1>3. req \in Requests
  BY <1>2 DEF Rows, Requests
<1>4. Fits(f, calls, c, minted)
  BY <1>2, <1>3, NoneAssumption, SavesFit
<1>5. intent' \in Settings /\ overlapped' \in BOOLEAN
  BY <1>1 DEF LibraryInd, TypesInd
<1> HIDE DEF calls, row
<1> QED BY <1>1, <1>4, <1>5, FormShape, StartKeeps DEF Fits

LEMMA RemoveKeeps ==
  ASSUME LibraryInd, NEW f \in Pages, NEW c \in Configs, RemoveConfig(f, c)
  PROVE  LibraryInd'
<1> DEFINE calls == <<Delete(c), Get("provider")>>
<1>1. /\ Click /\ f \in Flows /\ UNCHANGED <<form, intent, overlapped>> /\ Start(f, calls, None)
  BY DEF RemoveConfig, Flows
<1>2. Fits(f, calls, None, minted)
  BY Shapes
<1>3. intent' \in Settings /\ overlapped' \in BOOLEAN
  BY <1>1 DEF LibraryInd, TypesInd
<1> HIDE DEF calls
<1> QED BY <1>1, <1>2, <1>3, FormShape, StartKeeps DEF Fits

LEMMA RefreshKeeps ==
  ASSUME LibraryInd, NEW f \in Pages, NEW reason \in {"voice-terminal", "permissions"},
         Refresh(f, reason)
  PROVE  LibraryInd'
<1> DEFINE calls == <<Get(reason)>>
<1>1. /\ Click /\ f \in Flows /\ UNCHANGED <<form, intent>> /\ Start(f, calls, None)
      /\ overlapped' \in BOOLEAN
  BY CrossingTyped DEF Refresh, Flows
<1>2. Fits(f, calls, None, minted)
  BY Shapes DEF Reasons
<1>3. intent' \in Settings
  BY <1>1 DEF LibraryInd, TypesInd
<1> HIDE DEF calls
<1> QED BY <1>1, <1>2, <1>3, FormShape, StartKeeps DEF Fits

LEMMA SaveFormKeeps ==
  ASSUME LibraryInd, NEW f \in Pages, NEW cap \in Capabilities, NEW key \in Keys \cup {None},
         NEW activate \in BOOLEAN, SaveForm(f, cap, key, activate)
  PROVE  LibraryInd'
<1> PICK req : req = [capability |-> cap, is_default |-> cap = "omni" /\ form.is_default, key |-> key]
  OBVIOUS
<1> PICK id : id = form.id
  OBVIOUS
<1>1. /\ Click /\ form # None /\ f \in Flows /\ (form.id = None => key # None)
      /\ form' = [form EXCEPT !.flow = f] /\ UNCHANGED intent /\ overlapped' \in BOOLEAN
  BY CrossingTyped DEF SaveForm, Flows
<1>2. /\ form \in Forms /\ id \in minted \cup {None} /\ id \in Configs \cup {None}
      /\ minted \subseteq Configs
  BY <1>1, FormShape
<1>3. req \in Requests /\ (id = None => req.key # None)
  BY <1>1, <1>2 DEF Forms, Requests
<1>4. intent' \in Settings /\ form' \in Forms /\ form'.id \in minted \cup {None}
  BY <1>1, <1>2 DEF LibraryInd, TypesInd, Forms
<1>5. ASSUME NEW calls, Fits(f, calls, "form", minted), Start(f, calls, "form") PROVE LibraryInd'
  BY <1>1, <1>4, <1>5, StartKeeps DEF Fits
<1>6. PICK calls : calls = <<Save(id, req), Test(id, <<>>)>>
                            \o (IF activate THEN <<Activate(cap), Get("settings")>> ELSE <<>>) \o <<Get("provider")>>
  OBVIOUS
<1>7. Start(f, calls, "form")
  BY <1>6 DEF SaveForm
<1>8. Fits(f, calls, "form", minted)
  BY <1>2, <1>3, <1>6, FormSavesFit
<1> QED BY <1>5, <1>7, <1>8

LEMMA TurnKeeps ==
  ASSUME LibraryInd, NEW forms, TurnForm(forms),
         \A next \in forms : next = None \/ (next \in Forms /\ next.id \in minted \cup {None})
  PROVE  LibraryInd'
<1>1. /\ snapshot # None /\ clicks' \in 0 .. MaxClicks
      /\ UNCHANGED <<storeVars, snapshot, waiting, outbox, failed, revived>>
      /\ UNCHANGED <<intent, overlapped, todo, payload, origin, inbox>>
      /\ form' = None \/ (form' \in Forms /\ form'.id \in minted \cup {None})
  BY ClicksAssumption DEF TurnForm, Click, LibraryInd, TypesInd
<1>2. TypesInd'
  BY <1>1 DEF LibraryInd, TypesInd
<1>3. OnePlace' /\ FailuresNoted' /\ \A g \in Flows : (Asks(g)' <=> Asks(g)) /\ (ToldOk(g)' <=> ToldOk(g))
  BY <1>1 DEF LibraryInd, OnePlace, FailuresNoted, AskedOnce, ToldOnce, Asks, Told, ToldOk, Idle
<1>4. /\ {} \in SUBSET Flows
      /\ form' # None => form'.id \in minted \cup {None}
      /\ snapshot # None => snapshot' # None
      /\ snapshot' # None => Existing(snapshot'.config) \subseteq minted
  BY <1>1, SnapshotShape
<1>5. /\ \A g \in {} :
          /\ FlowOf(g, todo'[g], origin'[g]) /\ IdsKnown(todo'[g], minted)
          /\ todo'[g] # <<>> => Carries(g, todo[g][1])'
          /\ snapshot' = None => \A i \in DOMAIN todo'[g] : todo'[g][i].do = "get"
      /\ \A g \in Flows \ {} :
          /\ todo'[g] = todo[g] /\ origin'[g] = origin[g] /\ payload'[g] = payload[g]
          /\ Asks(g)' <=> Asks(g)
          /\ ToldOk(g)' <=> ToldOk(g)
  BY <1>1, <1>3
<1> QED BY <1>1, <1>2, <1>3, <1>4, <1>5, RendererKeeps

LEMMA Inhabited ==
  ASSUME NEW S, NEW s \in Seq(S), NEW i \in DOMAIN s
  PROVE  s # <<>>
OBVIOUS

LEMMA OneCall ==
  ASSUME NEW call \in Calls, NEW s, s = <<call>>
  PROVE  s \in Seq(Calls) /\ s # <<>> /\ s[1] = call /\ \A i \in DOMAIN s : i = 1
OBVIOUS

LEMMA TimeoutShape ==
  ASSUME LibraryInd, NEW f \in Pages, NEW g \in Pages, origin[f] = "form", Idle(g),
         NEW call, call = Head(todo[f]), call.do \in {"save", "test"},
         NEW rest, rest = IF call.do = "save" THEN <<Get("provider")>> ELSE Tail(todo[f])
  PROVE  /\ f \in Flows /\ g \in Flows /\ f # g /\ snapshot # None
         /\ todo[f] # <<>> /\ call = todo[f][1] /\ call \in Calls /\ call.do # "get"
         /\ Fits(g, rest, "form", minted) /\ Fits(f, <<call>>, None, minted)
<1>1. f \in Flows /\ g \in Flows /\ f # Chrome /\ g # Chrome
  BY ChromeAssumption DEF Flows
<1>2. /\ PageCalls(todo[f]) /\ Attended(todo[f]) /\ IdsKnown(todo[f], minted) /\ todo[f] \in Seq(Calls)
      /\ todo[g] = <<>>
  BY <1>1, ModelsAssumption DEF LibraryInd, TypesInd, FlowCalls, FlowOf, Minted, Idle
<1>3. todo[f] # <<>> /\ f # g
  BY <1>2 DEF Attended
<1>4. call = todo[f][1] /\ call \in Calls /\ 1 \in DOMAIN todo[f]
  BY <1>1, <1>3, FirstCall DEF LibraryInd
<1>5. snapshot # None /\ call.do # "get"
  BY <1>1, <1>4 DEF LibraryInd, SnapshotNeeded
<1>6. Fits(f, <<call>>, None, minted)
  <2>1. call.do = "save" => call.id \in minted \cup {None} /\ (call.id = None => call.req.key # None)
    BY <1>2, <1>4 DEF IdsKnown
  <2>2. call.do = "test" => call.id \in minted
    BY <1>2, <1>4 DEF IdsKnown
  <2>3. <<call>> \in Seq(Calls) /\ <<call>> # <<>>
    BY <1>4
  <2>4. PageCalls(<<call>>) /\ IdsKnown(<<call>>, minted)
    BY <2>1, <2>2 DEF PageCalls, IdsKnown
  <2> QED BY <1>1, <2>3, <2>4 DEF Fits, FlowOf
<1>7. Fits(g, rest, "form", minted)
  <2>1. CASE call.do = "save"
    <3>1. Get("provider") \in Calls /\ Get("provider").do = "get" /\ rest = <<Get("provider")>>
      BY <2>1, CallsMade DEF Reasons, Get
    <3>2. /\ rest \in Seq(Calls) /\ rest # <<>> /\ rest[1].do = "get"
          /\ \A i \in DOMAIN rest : i = 1
      BY <3>1, OneCall
    <3> QED BY <1>1, <3>2 DEF Fits, FlowOf, PageCalls, IdsKnown, Attended
  <2>2. CASE call.do = "test"
    <3>1. rest = Tail(todo[f]) /\ call.do # "save"
      BY <2>2
    <3>2. /\ PageCalls(rest) /\ IdsKnown(rest, minted)
          /\ \A i \in DOMAIN rest : rest[i].do \notin {"save", "delete", "test", "activate"}
      BY <1>2, <1>3, <1>4, <3>1, RestPage, RestIds
    <3>3. /\ rest \in Seq(Calls)
          /\ \A i \in DOMAIN todo[f] : i # 1 => i - 1 \in DOMAIN rest
      BY <1>2, <1>3, <3>1, RestAt
    <3>4. PICK j \in DOMAIN todo[f] : j = 2
      BY <1>2, <1>4, <2>2 DEF Attended
    <3>5. j # 1 /\ j - 1 = 1
      BY <3>4
    <3>6. 1 \in DOMAIN rest
      BY <3>3, <3>4, <3>5
    <3>7. rest # <<>>
      BY <3>3, <3>6, Inhabited
    <3>8. Attended(rest)
      BY <3>2, <3>6, <3>7 DEF Attended
    <3> QED BY <1>1, <3>2, <3>3, <3>7, <3>8 DEF Fits, FlowOf
  <2> QED BY <2>1, <2>2
<1> QED BY <1>1, <1>3, <1>4, <1>5, <1>6, <1>7

LEMMA TimeoutKeeps ==
  ASSUME LibraryInd, NEW f \in Pages, NEW g \in Pages, VerifyTimesOut(f, g)
  PROVE  LibraryInd'
<1> PICK call : call = Head(todo[f])
  OBVIOUS
<1> PICK rest : rest = IF call.do = "save" THEN <<Get("provider")>> ELSE Tail(todo[f])
  OBVIOUS
<1> DEFINE sent == Head(rest).do = "settings"
<1>1. /\ origin[f] = "form" /\ Idle(g) /\ call.do \in {"save", "test"}
      /\ todo' = [todo EXCEPT ![f] = <<call>>, ![g] = rest]
      /\ payload' = [payload EXCEPT ![g] =
           IF sent THEN [snapshot.settings EXCEPT ![Head(rest).field] = Head(rest).value] ELSE None]
      /\ intent' = IF sent THEN [intent EXCEPT ![Head(rest).field] = Head(rest).value] ELSE intent
      /\ inbox' = Append(inbox, g)
      /\ origin' = [origin EXCEPT ![f] = None, ![g] = "form"]
      /\ form' = IF form # None /\ form.flow = f THEN [form EXCEPT !.flow = None] ELSE form
      /\ UNCHANGED <<storeVars, snapshot, waiting, outbox, clicks, historyVars>>
  BY DEF VerifyTimesOut
<1>2. /\ f \in Flows /\ g \in Flows /\ f # g /\ snapshot # None
      /\ todo[f] # <<>> /\ call = todo[f][1] /\ call \in Calls /\ call.do # "get"
      /\ Fits(g, rest, "form", minted) /\ Fits(f, <<call>>, None, minted)
  BY <1>1, TimeoutShape
<1>3. /\ rest \in Seq(Calls) /\ rest # <<>> /\ Head(rest) = rest[1] /\ Head(rest) \in Calls
      /\ <<call>> \in Seq(Calls) /\ <<call>> # <<>> /\ <<call>>[1] = call
  BY <1>2 DEF Fits
<1>4. snapshot \in Models /\ snapshot.settings \in Settings /\ Existing(snapshot.config) \subseteq minted
  BY <1>2, SnapshotShape DEF Models
<1>5. sent => /\ [snapshot.settings EXCEPT ![Head(rest).field] = Head(rest).value] \in Settings
              /\ [intent EXCEPT ![Head(rest).field] = Head(rest).value] \in Settings
  BY <1>3, <1>4, SettingStored DEF LibraryInd, TypesInd
<1>6. /\ intent' \in Settings /\ payload' \in [Flows -> Payloads]
      /\ sent => payload'[g] \in Settings
      /\ \A h \in Flows \ {g} : payload'[h] = payload[h]
  BY <1>1, <1>2, <1>5 DEF LibraryInd, TypesInd, Payloads
<1> HIDE DEF sent
<1>7. /\ todo' \in [Flows -> Seq(Calls)] /\ todo'[f] = <<call>> /\ todo'[g] = rest
      /\ \A h \in Flows \ {f, g} : todo'[h] = todo[h]
      /\ origin' \in [Flows -> Configs \cup {"form", None}]
      /\ origin'[f] = None /\ origin'[g] = "form"
      /\ \A h \in Flows \ {f, g} : origin'[h] = origin[h]
  BY <1>1, <1>2, <1>3 DEF LibraryInd, TypesInd
<1>8. Begins(g)
  BY <1>1, <1>2, <1>3, <1>7 DEF Begins, Idle
<1>9. /\ OnePlace' /\ inbox' \in Seq(Flows)
      /\ g \notin waiting /\ ~Told(g)
      /\ \A h \in Flows : h # g => (Asks(h)' <=> Asks(h))
      /\ \A h \in Flows : (Told(h)' <=> Told(h)) /\ (ToldOk(h)' <=> ToldOk(h))
  BY <1>2, <1>8, BeginsPlace DEF LibraryInd
<1>10. form' = None \/ (form' \in Forms /\ form'.id \in minted \cup {None})
  BY <1>1, FormShape DEF Forms
<1>11. TypesInd'
  BY <1>1, <1>4, <1>6, <1>7, <1>9, <1>10 DEF LibraryInd, TypesInd, historyVars
<1>12. FailuresNoted'
  BY <1>1 DEF LibraryInd, FailuresNoted, historyVars
<1>13. Carries(f, todo[f][1])'
  <2>1. Carries(f, call)
    BY <1>2 DEF LibraryInd, Travels
  <2>2. /\ todo'[f][1] = call /\ payload'[f] = payload[f] /\ minted' = minted
        /\ waiting' = waiting /\ snapshot' # None
        /\ (Asks(f)' <=> Asks(f)) /\ (ToldOk(f)' <=> ToldOk(f))
    BY <1>1, <1>2, <1>3, <1>6, <1>7, <1>9 DEF storeVars
  <2> QED BY <2>1, <2>2, <1>2 DEF Carries
<1>14. Carries(g, todo[g][1])'
  <2>1. ~ToldOk(g)' /\ g \notin waiting' /\ snapshot' # None /\ todo'[g][1] = Head(rest)
    BY <1>1, <1>2, <1>3, <1>7, <1>9 DEF Told, ToldOk
  <2> QED BY <2>1, <1>6 DEF Carries, sent
<1>15. \A h \in {f, g} :
        /\ FlowOf(h, todo'[h], origin'[h]) /\ IdsKnown(todo'[h], minted)
        /\ todo'[h] # <<>> => Carries(h, todo[h][1])'
        /\ snapshot' = None => \A i \in DOMAIN todo'[h] : todo'[h][i].do = "get"
  BY <1>1, <1>2, <1>7, <1>13, <1>14 DEF Fits
<1>16. \A h \in Flows \ {f, g} :
        /\ todo'[h] = todo[h] /\ origin'[h] = origin[h] /\ payload'[h] = payload[h]
        /\ Asks(h)' <=> Asks(h)
        /\ ToldOk(h)' <=> ToldOk(h)
  BY <1>6, <1>7, <1>9
<1>17. /\ {f, g} \in SUBSET Flows /\ UNCHANGED <<storeVars, revived, failed, waiting>>
       /\ form' # None => form'.id \in minted \cup {None}
       /\ snapshot # None => snapshot' # None
       /\ snapshot' # None => Existing(snapshot'.config) \subseteq minted
  BY <1>1, <1>2, <1>4, <1>10 DEF historyVars
<1> QED BY <1>9, <1>11, <1>12, <1>15, <1>16, <1>17, RendererKeeps

LEMMA UserKeeps ==
  ASSUME LibraryInd, UserStep
  PROVE  LibraryInd'
<1>1. ASSUME NEW t \in Themes, ChangeTheme(t) PROVE LibraryInd'
  BY <1>1, ThemeKeeps
<1>2. CASE TurnForm({None} \cup AddForms)
  BY <1>2, TurnKeeps DEF AddForms, Opened, Forms
<1>3. CASE snapshot # None /\ TurnForm(EditForms(snapshot.config))
  <2> PICK forms : forms = EditForms(snapshot.config)
    OBVIOUS
  <2>1. \A next \in forms : next \in Forms /\ next.id \in minted \cup {None}
    BY <1>3, SnapshotShape DEF EditForms, Opened, Forms, Rows
  <2>2. TurnForm(forms)
    BY <1>3
  <2> QED BY <2>1, <2>2, TurnKeeps
<1>4. ASSUME NEW f \in Pages, ChangeEngineMode(f) \/ ClearSlot(f) PROVE LibraryInd'
  <2>1. ASSUME NEW mode \in EngineModes, ChangeSetting(f, "engine_mode", mode) PROVE LibraryInd'
    BY <2>1, SettingKeeps DEF Sets
  <2>2. ASSUME NEW cap \in Capabilities, ChangeSetting(f, cap, None) PROVE LibraryInd'
    BY <2>2, SettingKeeps DEF Sets
  <2> QED BY <1>4, <2>1, <2>2 DEF ChangeEngineMode, ClearSlot
<1>5. ASSUME NEW f \in Pages, NEW c \in Configs, SetActive(f, c) PROVE LibraryInd'
  <2> PICK cap : cap = snapshot.config[c].capability
    OBVIOUS
  <2>1. cap \in Capabilities /\ ChangeSetting(f, cap, c)
    BY <1>5, SnapshotShape DEF SetActive, Cards, Rows
  <2>2. Set(cap, c) \in Sets
    BY <2>1 DEF Sets
  <2> QED BY <2>1, <2>2, SettingKeeps
<1>6. ASSUME NEW f \in Pages, NEW c \in Configs, Reverify(f, c) \/ SwitchModel(f, c) \/ RemoveConfig(f, c)
      PROVE  LibraryInd'
  BY <1>6, ReverifyKeeps, SwitchKeeps, RemoveKeeps
<1>7. ASSUME NEW f \in Pages, NEW cap \in Capabilities, NEW key \in Keys \cup {None},
             NEW activate \in BOOLEAN, SaveForm(f, cap, key, activate)
      PROVE  LibraryInd'
  BY <1>7, SaveFormKeeps
<1>8. ASSUME NEW f \in Pages, NEW reason \in {"voice-terminal", "permissions"}, Refresh(f, reason)
      PROVE  LibraryInd'
  BY <1>8, RefreshKeeps
<1> QED BY <1>1, <1>2, <1>3, <1>4, <1>5, <1>6, <1>7, <1>8 DEF UserStep

LEMMA LibraryStep ==
  ASSUME LibraryInd, [Next]_vars
  PROVE  LibraryInd'
<1>1. CASE UNCHANGED vars
  <2> USE <1>1 DEF vars, storeVars, uiVars, historyVars, flowVars
  <2>1. StoreInd'
    BY StoreSame DEF LibraryInd
  <2>2. TypesInd' /\ OnePlace' /\ FlowCalls' /\ SnapshotNeeded' /\ FailuresNoted'
    BY DEF LibraryInd, TypesInd, OnePlace, AskedOnce, ToldOnce, Asks, Told, Idle, FlowCalls,
           SnapshotNeeded, FailuresNoted
  <2>3. Minted'
    BY DEF LibraryInd, Minted
  <2>4. Travels'
    BY DEF LibraryInd, Travels, Carries, Asks, ToldOk, Existing
  <2> QED BY <2>1, <2>2, <2>3, <2>4 DEF LibraryInd
<1> QED BY <1>1, MainServes, RendererReceived, AwaitKeeps, TimeoutKeeps, UserKeeps DEF Next

-----------------------------------------------------------------------------
(* The beginning.                                                           *)
LEMMA EarlierKept ==
  ASSUME NEW capabilities \in {{}, {"omni"}, {"asr", "llm"}}, Earlier(capabilities),
         minted = Existing(config), revived = {}
  PROVE  StoreInd
<1> USE NoneAssumption, RowsAssumption
<1>1. PICK pick \in [capabilities -> Configs] :
        /\ config = [c \in Configs |->
             IF \E cap \in capabilities : pick[cap] = c
               THEN LET cap == CHOOSE cap \in capabilities : pick[cap] = c
                    IN [capability |-> cap, is_default |-> cap = "omni", status |-> "ok"]
               ELSE None]
        /\ \E key \in Keys :
             secret = [c \in Configs |-> IF config[c] = None THEN None ELSE key]
        /\ \E t \in Themes :
             settings = [theme |-> t, omni |-> None,
                         engine_mode |-> IF "asr" \in capabilities THEN "asr_llm" ELSE "omni",
                         asr |-> IF "asr" \in capabilities THEN pick["asr"] ELSE None,
                         llm |-> IF "llm" \in capabilities THEN pick["llm"] ELSE None]
  BY DEF Earlier
<1>2. settings \in Settings
  <2>1. PICK t \in Themes :
          settings = [theme |-> t, omni |-> None,
                      engine_mode |-> IF "asr" \in capabilities THEN "asr_llm" ELSE "omni",
                      asr |-> IF "asr" \in capabilities THEN pick["asr"] ELSE None,
                      llm |-> IF "llm" \in capabilities THEN pick["llm"] ELSE None]
    BY <1>1
  <2>2. /\ "asr" \in capabilities => pick["asr"] \in Configs
        /\ "llm" \in capabilities => pick["llm"] \in Configs
    OBVIOUS
  <2> QED BY <2>1, <2>2 DEF Settings, EngineModes
<1>3. ASSUME NEW c \in Configs
      PROVE  \/ config[c] = None
             \/ \E cap \in capabilities : pick[cap] = c
                  /\ config[c] = [capability |-> cap, is_default |-> cap = "omni", status |-> "ok"]
  BY <1>1
<1>4. capabilities \subseteq Capabilities
  BY DEF Capabilities
<1>5. \A c \in Configs : config[c] = None \/ config[c] \in Rows
  <2> SUFFICES ASSUME NEW c \in Configs, config[c] # None PROVE config[c] \in Rows
    OBVIOUS
  <2>1. PICK cap \in capabilities :
          config[c] = [capability |-> cap, is_default |-> cap = "omni", status |-> "ok"]
    BY <1>3
  <2>2. cap \in Capabilities
    BY <1>4, <2>1
  <2> QED BY <2>1, <2>2 DEF Rows, Statuses
<1>6. config \in [Configs -> Rows \cup {None}]
  BY <1>1, <1>5
<1>7. PICK key \in Keys : secret = [c \in Configs |-> IF config[c] = None THEN None ELSE key]
  BY <1>1
<1>8. StoreTypeOK
  BY <1>2, <1>6, <1>7 DEF StoreTypeOK, Existing
<1>9. KeysKept /\ KeysHaveOwners
  BY <1>7 DEF KeysKept, KeysHaveOwners
<1>10. SingleDefault
  <2> SUFFICES ASSUME NEW c \in Existing(config), NEW d \in Existing(config),
                      config[c].is_default, config[d].is_default
               PROVE  c = d
    BY DEF SingleDefault
  <2>1. \A e \in {c, d} : "omni" \in capabilities /\ pick["omni"] = e
    <3> SUFFICES ASSUME NEW e \in {c, d} PROVE "omni" \in capabilities /\ pick["omni"] = e
      OBVIOUS
    <3>1. e \in Configs /\ config[e] # None /\ config[e].is_default
      BY DEF Existing
    <3>2. PICK cap \in capabilities : pick[cap] = e
            /\ config[e] = [capability |-> cap, is_default |-> cap = "omni", status |-> "ok"]
      BY <1>3, <3>1
    <3>3. cap = "omni"
      <4>1. [capability |-> cap, is_default |-> cap = "omni", status |-> "ok"].is_default = (cap = "omni")
        OBVIOUS
      <4>2. config[e].is_default = (cap = "omni")
        BY <3>2, <4>1, Zenon
      <4> QED BY <3>1, <4>2, Zenon
    <3> QED BY <3>2, <3>3
  <2> QED BY <2>1
<1> QED BY <1>8, <1>9, <1>10 DEF StoreInd, Existing

LEMMA LibraryStart ==
  ASSUME Init
  PROVE  LibraryInd
<1>1. revived = {} /\ StoreInd
  <2>1. PICK capabilities \in {{}, {"omni"}, {"asr", "llm"}} : Earlier(capabilities)
    BY DEF Init, StoreInit
  <2> QED BY <2>1, EarlierKept DEF Init, StoreInit
<1>2. PICK f \in Pages :
        \/ /\ snapshot = None /\ form = None
           /\ todo = [g \in Flows |-> IF g = f THEN <<Get("initial")>> ELSE <<>>]
           /\ inbox = <<f>>
        \/ /\ snapshot = ModelNow /\ form \in {None} \cup EditForms(config) \cup AddForms
           /\ todo = [g \in Flows |-> <<>>]
           /\ inbox = <<>>
  BY DEF Init
<1>3. /\ clicks = 0 /\ intent = settings /\ payload = [g \in Flows |-> None]
      /\ origin = [g \in Flows |-> None] /\ waiting = {} /\ outbox = <<>>
      /\ overlapped = FALSE /\ failed = FALSE
  BY DEF Init
<1>4. f \in Flows /\ f # Chrome
  BY ChromeAssumption DEF Flows
<1>5. /\ form = None \/ (form \in Forms /\ form.id \in minted \cup {None})
      /\ ModelNow \in Models /\ ModelNow.config = config /\ Existing(config) \subseteq minted
      /\ settings \in Settings
  BY <1>1, <1>2 DEF StoreInd, StoreTypeOK, EditForms, AddForms, Opened, Forms, Existing, Rows, ModelNow, Models
<1>6. Get("initial") \in Calls /\ Get("initial").do = "get"
  BY CallsMade DEF Reasons, Get
<1>7. PICK one : one = <<Get("initial")>> /\ one \in Seq(Calls) /\ one # <<>> /\ one[1].do = "get"
                 /\ \A i \in DOMAIN one : i = 1
  BY <1>6, OneCall
<1>8. ASSUME NEW g \in Flows
      PROVE  \/ todo[g] = <<>>
             \/ g = f /\ todo[g] = one /\ snapshot = None /\ inbox = <<f>>
  BY <1>2, <1>7
<1>9. /\ FlowOf(f, one, None) /\ IdsKnown(one, minted)
      /\ \A g \in Flows : FlowOf(g, <<>>, None) /\ IdsKnown(<<>>, minted)
  BY <1>4, <1>7 DEF FlowOf, PageCalls, ChromeCalls, IdsKnown
<1>10. TypesInd
  <2>1. todo \in [Flows -> Seq(Calls)]
    <3>1. \A g \in Flows : todo[g] \in Seq(Calls)
      <4>1. <<>> \in Seq(Calls)
        OBVIOUS
      <4> QED BY <1>7, <1>8, <4>1
    <3>2. \E calls : todo = [g \in Flows |-> calls[g]]
      <4>1. CASE todo = [g \in Flows |-> IF g = f THEN <<Get("initial")>> ELSE <<>>]
        <5> WITNESS todo
        <5> QED BY <4>1
      <4>2. CASE todo = [g \in Flows |-> <<>>]
        <5> WITNESS todo
        <5> QED BY <4>2
      <4> QED BY <1>2, <4>1, <4>2
    <3> QED BY <3>1, <3>2
  <2>2. inbox \in Seq(Flows) /\ outbox \in Seq(Replies)
    <3>1. CASE inbox = <<f>>
      BY <1>3, <1>4, <3>1
    <3>2. CASE inbox = <<>>
      BY <1>3, <3>2
    <3> QED BY <1>2, <3>1, <3>2
  <2>3. snapshot = None \/ snapshot \in Models
    BY <1>2, <1>5
  <2>4. clicks \in 0 .. MaxClicks /\ waiting \subseteq Flows /\ intent \in Settings
    BY <1>3, <1>5, ClicksAssumption
  <2>5. payload \in [Flows -> Payloads] /\ origin \in [Flows -> Configs \cup {"form", None}]
    BY <1>3 DEF Payloads
  <2>6. overlapped \in BOOLEAN /\ failed \in BOOLEAN /\ (form = None \/ form \in Forms)
    BY <1>3, <1>5
  <2> QED BY <2>1, <2>2, <2>3, <2>4, <2>5, <2>6 DEF TypesInd
<1>11. OnePlace
  <2>1. \A g \in Flows : ~Told(g) /\ g \notin waiting
    BY <1>3 DEF Told
  <2>2. ToldOnce
    BY <1>3 DEF ToldOnce
  <2>3. AskedOnce
    BY <1>2 DEF AskedOnce
  <2>4. \A g \in Flows : Idle(g) <=> ~Asks(g)
    <3>1. CASE inbox = <<f>> /\ todo = [g \in Flows |-> IF g = f THEN <<Get("initial")>> ELSE <<>>]
      BY <1>4, <1>7, <3>1 DEF Asks, Idle
    <3>2. CASE inbox = <<>> /\ todo = [g \in Flows |-> <<>>]
      BY <3>2 DEF Asks, Idle
    <3> QED BY <1>2, <3>1, <3>2
  <2> QED BY <2>1, <2>2, <2>3, <2>4 DEF OnePlace
<1>12. FlowCalls /\ (\A g \in Flows : IdsKnown(todo[g], minted))
  BY <1>3, <1>8, <1>9 DEF FlowCalls
<1>13. Minted
  BY <1>2, <1>5, <1>12 DEF Minted
<1>14. Travels
  <2>1. \A g \in Flows : ~ToldOk(g) /\ g \notin waiting
    BY <1>3 DEF ToldOk
  <2> QED BY <1>7, <1>8, <2>1 DEF Travels, Carries
<1>15. SnapshotNeeded /\ FailuresNoted
  BY <1>3, <1>7, <1>8 DEF SnapshotNeeded, FailuresNoted
<1> QED BY <1>1, <1>10, <1>11, <1>12, <1>13, <1>14, <1>15 DEF LibraryInd

-----------------------------------------------------------------------------
(* Theorems.                                                                *)

(* The conjunction of what the flows, the queues and the store owe each     *)
(* other holds in every state, for any number of configs, keys and pages.   *)
THEOREM LibraryInductive == Spec => []LibraryInd
<1>1. Init => LibraryInd
  BY LibraryStart
<1>2. LibraryInd /\ [Next]_vars => LibraryInd'
  BY LibraryStep
<1> QED BY <1>1, <1>2, PTL DEF Spec

(* However saves, tests and deletes of the pages cross, the stored configs  *)
(* have at most one default and no key is left without its config.          *)
THEOREM LibrarySafe == Spec => []LibraryInv
<1>1. LibraryInd => LibraryInv
  <2> SUFFICES ASSUME LibraryInd PROVE LibraryInv
    OBVIOUS
  <2>1. \A f \in Flows : todo[f] = <<>> => f \notin waiting
    BY DEF LibraryInd, OnePlace, Idle
  <2>2. form = None \/ form.id \in Configs \cup {None}
    BY FormShape DEF Forms
  <2> QED BY <2>1, <2>2 DEF LibraryInd, TypesInd, StoreInd, LibraryInv, LibraryTypeOK
<1> QED BY <1>1, LibraryInductive, PTL

(* What deriveReadiness shows as ready, makeResolveSession resolves: a      *)
(* verified config has its key, save for an id that was deleted and saved   *)
(* again.                                                                   *)
THEOREM ReadyIsResolved == Spec => []ReadyMeansResolved
<1>1. LibraryInd => ReadyMeansResolved
  <2> SUFFICES ASSUME LibraryInd, Ready(settings, config), Needed(settings, config) \cap revived = {},
                      NEW c \in Needed(settings, config)
               PROVE  c # None /\ secret[c] # None
    BY DEF ReadyMeansResolved, SessionResolves
  <2>1. c # None /\ c \notin revived
    BY DEF Ready
  <2>2. ASSUME c = ResolveActiveProvider(settings, config) PROVE c \in Existing(config)
    <3>1. OmniConfigs(config) \subseteq Existing(config)
      BY DEF OmniConfigs
    <3>2. CASE settings.omni # None
      BY <2>1, <2>2, <3>1, <3>2 DEF ResolveActiveProvider
    <3>3. CASE settings.omni = None
      <4> DEFINE S == {d \in OmniConfigs(config) : config[d].is_default}
      <4>1. c = TheOne(S)
        BY <2>2, <3>3 DEF ResolveActiveProvider
      <4> HIDE DEF S
      <4>2. S # {} /\ c \in S
        BY <2>1, <4>1 DEF TheOne
      <4> QED BY <3>1, <4>2 DEF S
    <3> QED BY <3>2, <3>3
  <2>3. ASSUME NEW cap, c = ResolveSlot(settings, config, cap) PROVE c \in Existing(config)
    BY <2>1, <2>3 DEF ResolveSlot
  <2>4. c \in Existing(config)
    BY <2>2, <2>3 DEF Needed
  <2> QED BY <2>1, <2>4 DEF LibraryInd, StoreInd, KeysKept, Existing
<1> QED BY <1>1, LibraryInductive, PTL

LEMMA OneOf ==
  ASSUME NEW S, NEW P \in SUBSET S, \A i, j \in P : i = j
  PROVE  Cardinality(P) = IF P = {} THEN 0 ELSE 1
<1>1. CASE P = {}
  BY <1>1, FS_EmptySet
<1>2. CASE P # {}
  <2>1. PICK i \in P : TRUE
    BY <1>2
  <2>2. P = {i}
    BY <2>1
  <2> QED BY <1>2, <2>2, FS_Singleton
<1> QED BY <1>1, <1>2

(* Every call a flow waits for is answered once, whatever fails, is late or *)
(* is deleted meanwhile: no card stays in "verifying" for want of a reply.  *)
THEOREM CallsAnswered == Spec => []CallsAreAnswered
<1>1. LibraryInd => CallsAreAnswered
  <2> SUFFICES ASSUME LibraryInd, NEW f \in Flows
               PROVE  Pending(f) = IF Idle(f) THEN 0 ELSE 1
    BY DEF CallsAreAnswered
  <2> DEFINE In == {i \in DOMAIN inbox : inbox[i] = f}
             At == {f} \cap waiting
             Out == {i \in DOMAIN outbox : outbox[i].flow = f}
  <2>1. /\ \A i, j \in In : i = j
        /\ \A i, j \in At : i = j
        /\ \A i, j \in Out : i = j
    BY DEF LibraryInd, OnePlace, AskedOnce, ToldOnce
  <2>2. /\ In = {} <=> ~Asks(f)
        /\ At = {} <=> f \notin waiting
        /\ Out = {} <=> ~Told(f)
    BY DEF Asks, Told
  <2>3. Pending(f) = Cardinality(In) + Cardinality(At) + Cardinality(Out)
    BY DEF Pending
  <2> HIDE DEF In, At, Out
  <2>4. /\ Cardinality(In) = IF In = {} THEN 0 ELSE 1
        /\ Cardinality(At) = IF At = {} THEN 0 ELSE 1
        /\ Cardinality(Out) = IF Out = {} THEN 0 ELSE 1
    BY <2>1, OneOf
  <2>5. /\ ~(Asks(f) /\ f \in waiting) /\ ~(Asks(f) /\ Told(f)) /\ ~(f \in waiting /\ Told(f))
        /\ Idle(f) <=> ~(Asks(f) \/ f \in waiting \/ Told(f))
    BY DEF LibraryInd, OnePlace
  <2> QED BY <2>2, <2>3, <2>4, <2>5
<1> QED BY <1>1, LibraryInductive, PTL

-----------------------------------------------------------------------------
(* Chosen settings.                                                         *)
Writes(calls) ==
  \E i \in DOMAIN calls :
    \/ calls[i].do \in {"settings", "activate"}
    \/ calls[i].do = "get" /\ calls[i].reason \in MicReasons \cup {"settings"}

LEMMA WritersWrite == Unsettled = {f \in Flows : Writes(todo[f])}
BY DEF Unsettled, Writes

LEMMA NoneWrites == ~Writes(<<>>)
BY DEF Writes

LEMMA Writers ==
  ASSUME LibraryInd, NEW f \in Flows, ~Idle(f)
  PROVE  /\ todo[f] \in Seq(Calls) /\ todo[f] # <<>> /\ 1 \in DOMAIN todo[f] /\ todo[f][1] \in Calls
         /\ Setting(f) \/ Rereading(f) => f \in Unsettled
         /\ f = Chrome => f \in Unsettled /\ (Setting(f) \/ Rereading(f))
         /\ f \in waiting /\ todo[f][1].do = "get" => f \in Unsettled
<1>1. /\ todo[f] \in Seq(Calls) /\ todo[f] # <<>> /\ 1 \in DOMAIN todo[f] /\ todo[f][1] \in Calls
      /\ FlowOf(f, todo[f], origin[f]) /\ Carries(f, todo[f][1])
  BY FirstCall DEF LibraryInd, TypesInd, FlowCalls, Travels, Idle
<1>2. Setting(f) \/ Rereading(f) => f \in Unsettled
  BY <1>1, WritersWrite DEF Writes, Setting, Rereading, Get
<1>3. f = Chrome => Setting(f) \/ Rereading(f)
  BY <1>1 DEF FlowOf, ChromeCalls, Setting, Rereading
<1>4. f \in waiting /\ todo[f][1].do = "get" => f \in Unsettled
  BY <1>1, WritersWrite DEF Writes, Carries
<1> QED BY <1>1, <1>2, <1>3, <1>4

(* Nothing is being set or read again: the window, the store and the user   *)
(* agree.                                                                   *)
LEMMA Agreed ==
  ASSUME LibraryInd, ChoiceInd, \A g \in Unsettled : ~Setting(g) /\ ~Rereading(g)
  PROVE  /\ todo[Chrome] = <<>> /\ ~Chained /\ \A g \in Flows : ~Setting(g) /\ ~Behind(g)
         /\ settings = intent
         /\ snapshot # None => snapshot.settings = settings
<1>1. \A g \in Flows : ~Setting(g) /\ ~Rereading(g)
  BY Writers DEF Setting, Rereading
<1>2. Chrome \in Flows
  BY DEF Flows
<1>3. todo[Chrome] = <<>>
  BY <1>1, <1>2, Writers DEF Idle
<1>4. ~Chained
  BY <1>1, <1>2, <1>3 DEF Chained, Sent
<1> QED BY <1>1, <1>3, <1>4 DEF ChoiceInd, Settled, Seen, Sent, Behind, Flows

(* A step of pages that send no setting, before or after.                   *)
LEMMA QuietKeeps ==
  ASSUME ChoiceInd, NEW mine \in SUBSET Pages,
         UNCHANGED <<settings, intent>>,
         \A f \in mine : ~Sent(f) /\ ~Sent(f)',
         \A g \in Flows \ mine :
           todo'[g] = todo[g] /\ payload'[g] = payload[g] /\ (Asks(g)' <=> Asks(g))
  PROVE  PagesSend' /\ ChainSends' /\ ChainEnds' /\ Settled'
<1>1. Chrome \in Flows \ mine /\ Pages \subseteq Flows
  BY ChromeAssumption DEF Flows
<1>2. \A g \in Flows \ mine : Sent(g)' <=> Sent(g)
  BY DEF Sent, Setting, Idle
<1>3. (Chained' <=> Chained) /\ LastTheme' = LastTheme /\ todo'[Chrome] = todo[Chrome]
      /\ payload'[Chrome] = payload[Chrome]
  BY <1>1, <1>2 DEF Chained, LastTheme
<1>4. PagesSend'
  BY <1>1, <1>2 DEF ChoiceInd, PagesSend
<1>5. ChainSends' /\ ChainEnds'
  BY <1>1, <1>2, <1>3 DEF ChoiceInd, ChainSends, ChainEnds
<1>6. Settled'
  BY <1>1, <1>2, <1>3 DEF ChoiceInd, Settled
<1> QED BY <1>4, <1>5, <1>6

(* A page sends the user's choice, and no other flow sends one.             *)
LEMMA SendingKeeps ==
  ASSUME NEW f \in Pages, Sent(f)', payload'[f] = intent', todo'[Chrome] = <<>>,
         \A g \in Flows \ {f} : ~Sent(g)'
  PROVE  PagesSend' /\ ChainSends' /\ ChainEnds' /\ Settled'
<1>1. Chrome \in Flows \ {f} /\ Pages \subseteq Flows
  BY ChromeAssumption DEF Flows
<1>2. ~Chained'
  BY <1>1 DEF Chained
<1> QED BY <1>1, <1>2 DEF PagesSend, ChainSends, ChainEnds, Settled

(* Replies that stay, of flows that wait for the same.                      *)
LEMMA RepliesKeep ==
  ASSUME TypesInd, ToldOnce, RepliesFresh, NEW f \in Flows, UNCHANGED settings,
         \/ outbox' = outbox /\ ~Told(f)
         \/ outbox # <<>> /\ f = Head(outbox).flow /\ outbox' = Tail(outbox),
         \A g \in Flows : g # f /\ Told(g) => todo'[g] = todo[g] /\ payload'[g] = payload[g]
  PROVE  RepliesFresh'
<1> SUFFICES ASSUME NEW i \in DOMAIN outbox', todo'[outbox'[i].flow][1].do = "get"
             PROVE  payload'[outbox'[i].flow].settings = settings \/ Stale(i)'
  BY DEF RepliesFresh
<1>1. \A k \in DOMAIN outbox : outbox[k].flow \in Flows /\ k \in Nat
  <2>1. outbox \in Seq(Replies)
    BY DEF TypesInd
  <2>2. \A k \in DOMAIN outbox : outbox[k] \in Replies /\ k \in Nat
    BY <2>1
  <2> QED BY <2>2 DEF Replies
<1>2. CASE outbox' = outbox /\ ~Told(f)
  <2>1. \A k \in DOMAIN outbox : outbox[k].flow # f
    BY <1>2 DEF Told
  <2>2. \A k \in DOMAIN outbox : todo'[outbox[k].flow] = todo[outbox[k].flow]
                                 /\ payload'[outbox[k].flow] = payload[outbox[k].flow]
    BY <1>1, <2>1 DEF Told
  <2>3. payload[outbox[i].flow].settings = settings \/ Stale(i)
    BY <1>2, <2>2 DEF RepliesFresh
  <2>4. Stale(i) => Stale(i)'
    BY <1>2, <2>2 DEF Stale, Setting, Idle
  <2> QED BY <1>2, <2>2, <2>3, <2>4
<1>3. CASE outbox # <<>> /\ f = Head(outbox).flow /\ outbox' = Tail(outbox)
  <2>1. Popped(outbox, outbox') /\ f = outbox[1].flow
    BY <1>3, Popping DEF TypesInd
  <2>2. /\ \A k \in DOMAIN outbox' : k + 1 \in DOMAIN outbox /\ outbox'[k] = outbox[k + 1] /\ k \in Nat /\ k >= 1
        /\ \A k \in DOMAIN outbox : k # 1 => k - 1 \in DOMAIN outbox' /\ outbox'[k - 1] = outbox[k]
        /\ 1 \in DOMAIN outbox
    BY <2>1, PoppedAt
  <2>3. ASSUME NEW k \in DOMAIN outbox, k # 1
        PROVE  todo'[outbox[k].flow] = todo[outbox[k].flow] /\ payload'[outbox[k].flow] = payload[outbox[k].flow]
    BY <1>1, <2>1, <2>2, <2>3 DEF ToldOnce, Told
  <2>4. i + 1 \in DOMAIN outbox /\ outbox'[i] = outbox[i + 1] /\ i \in Nat /\ i + 1 # 1
    BY <2>2
  <2>5. payload[outbox[i + 1].flow].settings = settings \/ Stale(i + 1)
    BY <2>3, <2>4 DEF RepliesFresh
  <2>6. ASSUME Stale(i + 1) PROVE Stale(i)'
    <3>1. PICK k \in DOMAIN outbox : k > i + 1 /\ Setting(outbox[k].flow)
      BY <2>6 DEF Stale
    <3>2. k # 1 /\ k - 1 > i
      BY <1>1, <2>4, <3>1
    <3>3. k - 1 \in DOMAIN outbox' /\ outbox'[k - 1] = outbox[k]
      BY <2>2, <3>1, <3>2
    <3>4. todo'[outbox[k].flow] # <<>> /\ todo'[outbox[k].flow][1].do = "settings"
      BY <2>3, <3>1, <3>2 DEF Setting, Idle
    <3> QED BY <3>2, <3>3, <3>4 DEF Stale, Setting, Idle
  <2> QED BY <2>3, <2>4, <2>5, <2>6
<1> QED BY <1>2, <1>3

(* The main process serves a call that stores no settings.                  *)
LEMMA MainCalm ==
  ASSUME LibraryInd, ChoiceInd, NEW f \in Flows, ~Idle(f), ~Told(f), ~Setting(f),
         UNCHANGED <<settings, intent, snapshot, todo, origin>>,
         \A g \in Flows : g # f => payload'[g] = payload[g] /\ (Asks(g)' <=> Asks(g)),
         waiting' \subseteq waiting \cup {f},
         todo[f][1].do = "get" => payload'[f].settings = settings,
         outbox' = outbox \/ Reply(f, TRUE)
  PROVE  ChoiceInd'
<1>1. /\ \A g \in Flows : (Setting(g)' <=> Setting(g)) /\ (Sent(g)' <=> Sent(g))
      /\ \A g \in Flows : Rereading(g)' <=> Rereading(g)
      /\ \A g \in Flows : Sent(g) => payload'[g] = payload[g]
      /\ Pages \subseteq Flows /\ Chrome \in Flows
  BY DEF Setting, Sent, Rereading, Idle, Flows
<1>2. (Chained' <=> Chained) /\ LastTheme' = LastTheme /\ Unsettled' = Unsettled
  BY <1>1 DEF Chained, LastTheme, Unsettled
<1>3. OneWriter' /\ Wirings' /\ PagesSend' /\ ChainSends' /\ ChainEnds' /\ Settled'
  BY <1>1, <1>2 DEF ChoiceInd, OneWriter, Wirings, PagesSend, ChainSends, ChainEnds, Settled
<1>4. /\ \A k \in DOMAIN outbox : k \in DOMAIN outbox' /\ outbox'[k] = outbox[k] /\ outbox[k].flow # f
                                  /\ outbox[k].flow \in Flows
      /\ \A k \in DOMAIN outbox' : k \in DOMAIN outbox \/ outbox'[k].flow = f
  <2>1. outbox \in Seq(Replies)
    BY DEF LibraryInd, TypesInd
  <2>2. \A k \in DOMAIN outbox : outbox[k].flow # f /\ outbox[k].flow \in Flows
    <3>1. \A k \in DOMAIN outbox : outbox[k] \in Replies
      BY <2>1
    <3> QED BY <3>1 DEF Told, Replies
  <2>3. CASE outbox' = outbox
    BY <2>2, <2>3
  <2>4. CASE Reply(f, TRUE)
    <3>1. Pushed(outbox, outbox', [flow |-> f, ok |-> TRUE])
      BY <2>4, TellPushed DEF LibraryInd, OnePlace
    <3> QED BY <2>2, <3>1, PushedAt
  <2> QED BY <2>3, <2>4
<1>5. Seen'
  <2>1. \A g \in Flows : Told(g) => Told(g)'
    BY <1>4 DEF Told
  <2> QED BY <1>1, <2>1 DEF ChoiceInd, Seen, Behind
<1>6. WaitsFresh'
  BY DEF ChoiceInd, WaitsFresh, LibraryInd, TypesInd
<1>7. RepliesFresh'
  <2>1. \A k \in DOMAIN outbox : Stale(k) => Stale(k)'
    BY <1>4 DEF Stale, Setting, Idle
  <2> QED BY <1>4, <2>1 DEF ChoiceInd, RepliesFresh
<1> QED BY <1>3, <1>5, <1>6, <1>7 DEF ChoiceInd

LEMMA ChromeShape ==
  ASSUME LibraryInd, ~Idle(Chrome)
  PROVE  /\ todo[Chrome] \in Seq(Calls) /\ ChromeCalls(todo[Chrome]) /\ Len(todo[Chrome]) \in Nat
         /\ Len(todo[Chrome]) >= 1 /\ origin[Chrome] = None /\ DOMAIN todo[Chrome] = 1 .. Len(todo[Chrome])
         /\ todo[Chrome][1].do = "settings" => Len(todo[Chrome]) >= 2 /\ todo[Chrome][2] = Get("settings")
<1>1. /\ todo[Chrome] \in Seq(Calls) /\ ChromeCalls(todo[Chrome]) /\ todo[Chrome] # <<>>
      /\ origin[Chrome] = None
  BY DEF Flows, LibraryInd, TypesInd, FlowCalls, FlowOf, Idle
<1>2. /\ Len(todo[Chrome]) \in Nat /\ Len(todo[Chrome]) >= 1
      /\ DOMAIN todo[Chrome] = 1 .. Len(todo[Chrome])
  BY <1>1
<1>3. ASSUME todo[Chrome][1].do = "settings"
      PROVE  Len(todo[Chrome]) >= 2 /\ todo[Chrome][2] = Get("settings")
  <2>1. 1 \in DOMAIN todo[Chrome]
    BY <1>2
  <2>2. 1 + 1 \in DOMAIN todo[Chrome] /\ todo[Chrome][1 + 1] = Get("settings")
    BY <1>1, <1>3, <2>1 DEF ChromeCalls, Get
  <2> QED BY <1>2, <2>2
<1> QED BY <1>1, <1>2, <1>3

LEMMA NoMore ==
  ASSUME NEW n \in Nat, n >= 2, ~(n > 2)
  PROVE  n = 2
OBVIOUS

(* The theme of the chain's last save is the only one that differs.         *)
LEMMA ThemeTwice ==
  ASSUME NEW s \in Settings, NEW a, NEW b
  PROVE  [[s EXCEPT !.theme = a] EXCEPT !.theme = b] = [s EXCEPT !.theme = b]
BY DEF Settings

LEMMA StoringKeeps ==
  ASSUME LibraryInd, ChoiceInd, inbox # <<>>, NEW f, f = Head(inbox), Head(todo[f]).do = "settings",
         HandleSettings(f), inbox' = Tail(inbox), UNCHANGED <<uiVars, todo, origin, overlapped>>
  PROVE  ChoiceInd'
<1>1. /\ f \in Flows /\ todo[f] # <<>> /\ todo[f][1].do = "settings" /\ Asks(f)
  BY FirstOf
<1>2. Sent(f) /\ Setting(f) /\ f \in Unsettled /\ ~Told(f) /\ f \notin waiting
  BY <1>1, Writers DEF Sent, Setting, Idle, LibraryInd, OnePlace
<1>3. /\ settings' = payload[f] /\ Reply(f, TRUE) /\ UNCHANGED <<payload, waiting, snapshot, intent, todo, origin>>
  BY DEF HandleSettings, SaveSettings, uiVars
<1>4. \A g \in Flows : g # f => ~Setting(g) /\ ~Rereading(g) /\ g \notin Unsettled /\ ~Sent(g)
  BY <1>2, Writers DEF ChoiceInd, OneWriter, Setting, Rereading, Sent
<1>5. /\ ~Asks(f)' /\ Told(f)' /\ Pushed(outbox, outbox', [flow |-> f, ok |-> TRUE])
      /\ \A g \in Flows : g # f => (Asks(g)' <=> Asks(g))
  <2>1. Serves(f)
    BY <1>3 DEF Serves
  <2> QED BY <2>1, <1>1, <1>2, <1>3, ServesPlace, TellPushed DEF LibraryInd, OnePlace
<1>6. \A g \in Flows : ~Sent(g)'
  BY <1>3, <1>4, <1>5 DEF Sent, Setting, Idle
<1>7. /\ Pages \subseteq Flows /\ Chrome \in Flows
      /\ LastTheme' = LastTheme /\ (Chained' <=> Len(todo[Chrome]) > 2) /\ Unsettled' = Unsettled
  BY <1>3, <1>6 DEF Flows, Chained, LastTheme, Unsettled
<1>8. settings \in Settings
  BY DEF LibraryInd, StoreInd, StoreTypeOK
<1>9. ChainEnds' /\ Settled'
  <2>1. CASE f = Chrome
    <3>1. settings' = [settings EXCEPT !.theme = todo[Chrome][1].value]
      BY <1>2, <1>3, <2>1 DEF ChoiceInd, ChainSends
    <3>2. intent = [settings EXCEPT !.theme = LastTheme]
      BY <1>2, <2>1 DEF ChoiceInd, ChainEnds, Chained
    <3>3. intent = [settings' EXCEPT !.theme = LastTheme]
      BY <1>8, <3>1, <3>2, ThemeTwice
    <3>4. ~Chained' => settings' = intent
      <4> SUFFICES ASSUME ~Chained' PROVE settings' = intent
        OBVIOUS
      <4>1. Len(todo[Chrome]) = 2
        <5>1. Len(todo[Chrome]) \in Nat /\ Len(todo[Chrome]) >= 2
          BY <1>1, <2>1, ChromeShape DEF Idle
        <5>2. ~(Len(todo[Chrome]) > 2)
          BY <1>7, Zenon
        <5> QED BY <5>1, <5>2, NoMore
      <4>2. LastTheme = todo[Chrome][1].value
        BY <4>1 DEF LastTheme
      <4> QED BY <3>1, <3>2, <4>2
    <3> QED BY <1>3, <1>7, <3>3, <3>4 DEF ChainEnds, Settled
  <2>2. CASE f # Chrome
    <3>1. todo[Chrome] = <<>> /\ f \in Pages
      BY <1>1, <1>4, <1>7, <2>2, Writers DEF Idle, Flows
    <3>2. ~Chained'
      BY <1>7, <3>1
    <3>3. settings' = intent
      BY <1>2, <1>3, <3>1 DEF ChoiceInd, PagesSend
    <3> QED BY <1>3, <3>2, <3>3 DEF ChainEnds, Settled
  <2> QED BY <2>1, <2>2
<1>10. PagesSend' /\ ChainSends'
  BY <1>6, <1>7 DEF PagesSend, ChainSends
<1>11. OneWriter' /\ Wirings'
  BY <1>3, <1>7 DEF ChoiceInd, OneWriter, Wirings
<1>12. Seen'
  <2>1. Behind(f)'
    BY <1>1, <1>3, <1>5 DEF Behind, Setting, Idle
  <2> QED BY <1>1, <2>1 DEF Seen
<1>13. WaitsFresh'
  <2>1. \A g \in waiting : todo[g][1].do # "get"
    BY <1>2, <1>4, Writers DEF LibraryInd, TypesInd, OnePlace
  <2> QED BY <1>3, <2>1 DEF WaitsFresh
<1>14. RepliesFresh'
  <2>1. /\ \A i \in DOMAIN outbox' : i \in Nat /\ (i < Len(outbox') \/ (i = Len(outbox') /\ outbox'[i].flow = f))
        /\ Len(outbox') \in DOMAIN outbox' /\ outbox'[Len(outbox')].flow = f
    BY <1>5, PushedAt
  <2>2. todo'[f] # <<>> /\ todo'[f][1].do = "settings"
    BY <1>1, <1>3
  <2> QED BY <2>1, <2>2 DEF RepliesFresh, Stale, Setting, Idle
<1> QED BY <1>9, <1>10, <1>11, <1>12, <1>13, <1>14 DEF ChoiceInd

LEMMA MainKeepsChoices ==
  ASSUME LibraryInd, ChoiceInd, MainReceives, ~failed'
  PROVE  ChoiceInd'
<1> DEFINE head == Head(inbox)
<1>0. head \in Flows /\ inbox # <<>>
  BY FirstOf DEF MainReceives
<1> PICK f \in Flows : f = Head(inbox)
  BY <1>0
<1> PICK call : call = Head(todo[f])
  OBVIOUS
<1>1. /\ inbox # <<>> /\ inbox' = Tail(inbox) /\ UNCHANGED <<uiVars, todo, origin, overlapped>>
      /\ \/ call.do = "settings" /\ HandleSettings(f)
         \/ call.do = "save" /\ HandleSave(f, call)
         \/ call.do = "delete" /\ HandleDelete(f, call)
         \/ call.do = "test" /\ HandleTest(f, call)
         \/ call.do = "get" /\ HandleGet(f, call)
         \/ CallFails(f) /\ UNCHANGED waiting
  BY DEF MainReceives
<1>2. ~CallFails(f)
  BY DEF CallFails
<1>3. call.do = "settings" /\ HandleSettings(f) => ChoiceInd'
  BY <1>1, StoringKeeps
<1>4. /\ todo[f] # <<>> /\ call = todo[f][1] /\ Asks(f)
  BY <1>1, FirstOf
<1>5. /\ ~Idle(f) /\ ~Told(f)
      /\ \A g \in Flows : g # f => (Asks(g)' <=> Asks(g))
  BY <1>1, <1>4, AskPopped DEF LibraryInd, OnePlace, Idle
<1>6. ASSUME call.do # "settings"
      PROVE  /\ UNCHANGED <<settings, intent, snapshot, todo, origin>>
             /\ \A g \in Flows : g # f => payload'[g] = payload[g]
             /\ waiting' \subseteq waiting \cup {f}
             /\ todo[f][1].do = "get" => payload'[f].settings = settings
             /\ outbox' = outbox \/ Reply(f, TRUE)
  <2>1. UNCHANGED <<intent, snapshot, todo, origin>> /\ payload \in [Flows -> Payloads]
    BY <1>1 DEF uiVars, LibraryInd, TypesInd
  <2>2. CASE call.do = "save" /\ HandleSave(f, call)
    BY <1>4, <2>1, <2>2 DEF HandleSave, PersistConfig
  <2>3. CASE call.do = "delete" /\ HandleDelete(f, call)
    BY <1>4, <2>1, <2>3 DEF HandleDelete, DeleteConfig
  <2>4. CASE call.do = "test" /\ HandleTest(f, call)
    BY <1>4, <2>1, <2>4 DEF HandleTest, storeVars
  <2>5. CASE call.do = "get" /\ HandleGet(f, call)
    BY <1>4, <2>1, <2>5 DEF HandleGet, ModelNow, storeVars
  <2> QED BY <1>1, <1>2, <1>6, <2>2, <2>3, <2>4, <2>5
<1>7. call.do # "settings" => ~Setting(f)
  BY <1>4 DEF Setting
<1> QED BY <1>1, <1>3, <1>5, <1>6, <1>7, <1>2, MainCalm

LEMMA AwaitKeepsChoices ==
  ASSUME LibraryInd, ChoiceInd, NEW f \in Flows, AwaitEnds(f), ~failed'
  PROVE  ChoiceInd'
<1>1. ~AwaitFails(f) /\ f \in waiting
  BY DEF AwaitFails, CallFails, AwaitEnds, TestEnds, EnumerationEnds
<1>2. /\ todo[f] # <<>> /\ todo[f][1] \in Calls /\ Head(todo[f]) = todo[f][1] /\ Carries(f, todo[f][1])
  BY <1>1, AwaitOf
<1>3. ~Idle(f) /\ ~Told(f) /\ ~Setting(f)
  BY <1>1, <1>2 DEF LibraryInd, OnePlace, Idle, Setting, Carries
<1>4. /\ UNCHANGED <<settings, intent, snapshot, todo, origin, payload>>
      /\ waiting' \subseteq waiting /\ Reply(f, TRUE) /\ inbox' = inbox
  BY <1>1 DEF AwaitEnds, TestEnds, StampConfig, EnumerationEnds, uiVars, storeVars
<1>5. \A g \in Flows : Asks(g)' <=> Asks(g)
  BY <1>4 DEF Asks
<1>6. todo[f][1].do = "get" => payload'[f].settings = settings
  BY <1>1, <1>4 DEF ChoiceInd, WaitsFresh
<1> QED BY <1>3, <1>4, <1>5, <1>6, MainCalm

(* What is left of a flow sets and reads what the flow did.                 *)
LEMMA RestKinds ==
  ASSUME NEW calls \in Seq(Calls), calls # <<>>, NEW c, NEW next,
         next = IF calls[1].do = "save" THEN WithSaved(Tail(calls), c) ELSE Tail(calls)
  PROVE  \A i \in DOMAIN next :
           /\ i \in Nat /\ i >= 1 /\ i + 1 \in DOMAIN calls
           /\ next[i].do \in {"settings", "activate"} => calls[i + 1].do \in {"settings", "activate"}
           /\ next[i].do = "get" => calls[i + 1] = next[i]
<1> DEFINE rest == Tail(calls)
<1>1. \A i \in DOMAIN rest : i + 1 \in DOMAIN calls /\ rest[i] = calls[i + 1] /\ i \in Nat /\ i >= 1
  BY RestAt
<1>2. CASE calls[1].do # "save"
  BY <1>1, <1>2
<1>3. CASE calls[1].do = "save"
  <2>1. /\ DOMAIN next = DOMAIN rest
        /\ \A i \in DOMAIN rest :
             next[i] = CASE rest[i].do = "test" -> [rest[i] EXCEPT !.id = c]
                         [] rest[i].do = "activate" -> Set(rest[i].capability, c)
                         [] OTHER -> rest[i]
    BY <1>3 DEF WithSaved
  <2> HIDE DEF rest
  <2> SUFFICES ASSUME NEW i \in DOMAIN rest
               PROVE  /\ i \in Nat /\ i >= 1 /\ i + 1 \in DOMAIN calls
                      /\ next[i].do \in {"settings", "activate"} => calls[i + 1].do \in {"settings", "activate"}
                      /\ next[i].do = "get" => calls[i + 1] = next[i]
    BY <2>1
  <2>2. \A i0 \in DOMAIN calls : calls[i0] \in Calls
    BY RestAt
  <2>3. rest[i] = calls[i + 1] /\ calls[i + 1] \in Calls /\ i \in Nat /\ i >= 1 /\ i + 1 \in DOMAIN calls
    BY <1>1, <2>2
  <2>4. CASE rest[i].do = "test"
    <3>1. next[i] = [rest[i] EXCEPT !.id = c] /\ rest[i] \in Tests
      BY <2>1, <2>3, <2>4, CallShape
    <3>2. next[i].do = "test"
      BY <3>1 DEF Tests
    <3> QED BY <2>3, <3>2
  <2>5. CASE rest[i].do = "activate"
    <3>1. next[i] = Set(rest[i].capability, c)
      BY <2>1, <2>5
    <3>2. next[i].do = "settings"
      <4>1. \A a, b : Set(a, b).do = "settings"
        BY DEF Set
      <4> QED BY <3>1, <4>1, Zenon
    <3> QED BY <2>3, <2>5, <3>2
  <2>6. CASE rest[i].do \notin {"test", "activate"}
    BY <2>1, <2>3, <2>6
  <2> QED BY <2>4, <2>5, <2>6
<1> QED BY <1>2, <1>3

LEMMA ChainRest ==
  ASSUME NEW calls \in Seq(Calls), calls # <<>>, ChromeCalls(calls), NEW rest, rest = Tail(calls)
  PROVE  /\ calls[1].do = "settings" =>
              rest # <<>> /\ rest[1] = Get("settings") /\ (Len(rest) > 2 <=> Len(calls) > 2)
         /\ calls[1].do # "settings" =>
              /\ calls[1] = Get("settings") /\ (rest # <<>> <=> Len(calls) > 2)
              /\ rest # <<>> => rest[1].do = "settings" /\ rest[1].field = "theme"
         /\ Len(calls) > 2 => rest[Len(rest) - 1] = calls[Len(calls) - 1]
<1> DEFINE n == Len(calls)
<1>1. /\ n \in Nat /\ n >= 1 /\ DOMAIN calls = 1 .. n
      /\ Len(rest) = n - 1 /\ rest \in Seq(Calls) /\ \A i \in 1 .. n - 1 : rest[i] = calls[i + 1]
      /\ rest # <<>> <=> n > 1
  OBVIOUS
<1> HIDE DEF n
<1>2. ASSUME NEW i \in 1 .. n, calls[i].do = "settings" PROVE i + 1 <= n /\ calls[i + 1] = Get("settings")
  BY <1>1, <1>2 DEF ChromeCalls, Get
<1>3. ASSUME NEW i \in 1 .. n, calls[i].do # "settings"
      PROVE  calls[i] = Get("settings") /\ (i + 1 <= n => calls[i + 1].do = "settings")
  BY <1>1, <1>3 DEF ChromeCalls
<1>4. \A i \in 1 .. n : calls[i].do = "settings" => calls[i].field = "theme"
  BY <1>1 DEF ChromeCalls, Get
<1>5. 1 \in 1 .. n /\ n - 1 \in Int
  BY <1>1
<1>6. Get("settings").do # "settings"
  BY DEF Get
<1>7. ASSUME calls[1].do = "settings"
      PROVE  rest # <<>> /\ rest[1] = Get("settings") /\ (Len(rest) > 2 <=> n > 2)
  <2>1. n >= 2 /\ calls[2] = Get("settings") /\ 2 \in 1 .. n
    <3>1. 1 + 1 <= n /\ calls[1 + 1] = Get("settings")
      BY <1>2, <1>5, <1>7
    <3> QED BY <1>1, <3>1
  <2>2. rest # <<>> /\ rest[1] = Get("settings")
    BY <1>1, <2>1
  <2>3. n > 2 => n > 3
    <3> SUFFICES ASSUME n > 2 PROVE n > 3
      OBVIOUS
    <3>1. 2 + 1 <= n => calls[2 + 1].do = "settings"
      BY <1>3, <1>6, <2>1
    <3>2. calls[3].do = "settings" /\ 3 \in 1 .. n
      BY <1>1, <3>1
    <3>3. 3 + 1 <= n
      BY <1>2, <3>2
    <3> QED BY <1>1, <3>3
  <2>4. Len(rest) > 2 <=> n > 2
    BY <1>1, <2>3
  <2> QED BY <2>2, <2>4
<1>8. ASSUME calls[1].do # "settings"
      PROVE  /\ calls[1] = Get("settings") /\ (rest # <<>> <=> n > 2)
             /\ rest # <<>> => rest[1].do = "settings" /\ rest[1].field = "theme"
  <2>1. calls[1] = Get("settings") /\ (1 + 1 <= n => calls[1 + 1].do = "settings")
    BY <1>3, <1>5, <1>8
  <2>2. n > 1 => calls[2].do = "settings" /\ 2 \in 1 .. n /\ rest[1] = calls[2]
    BY <1>1, <2>1
  <2>3. n > 1 => 2 + 1 <= n
    BY <1>2, <2>2
  <2>4. n > 1 <=> n > 2
    BY <1>1, <2>3
  <2> QED BY <1>1, <1>4, <2>1, <2>2, <2>4
<1>9. n > 2 => rest[Len(rest) - 1] = calls[n - 1]
  BY <1>1
<1> QED BY <1>7, <1>8, <1>9 DEF n

OthersStay(f) ==
  \A g \in Flows : g # f =>
    /\ todo'[g] = todo[g] /\ payload'[g] = payload[g] /\ origin'[g] = origin[g]
    /\ Asks(g)' <=> Asks(g)
    /\ Told(g)' <=> Told(g)

(* What a reply leaves of a flow: its next calls, and what its reading says.  *)
Answered(f, calls) ==
  /\ todo[f] \in Seq(Calls) /\ todo[f] # <<>> /\ todo[f][1] \in Calls /\ 1 \in DOMAIN todo[f]
  /\ ToldOk(f) /\ Told(f) /\ f \notin waiting /\ ~Asks(f)
  /\ calls \in Seq(Calls)
  /\ calls = IF todo[f][1].do = "save" THEN WithSaved(Tail(todo[f]), payload[f]) ELSE Tail(todo[f])
  /\ snapshot' = IF todo[f][1].do = "get" THEN payload[f] ELSE snapshot
  /\ Receives(f) /\ todo'[f] = calls /\ ~Told(f)' /\ (Asks(f)' <=> calls # <<>>)
  /\ OthersStay(f)
  /\ calls # <<>> /\ calls[1].do = "settings" =>
       payload'[f] = [snapshot'.settings EXCEPT ![calls[1].field] = calls[1].value]
  /\ calls # <<>> => origin'[f] = origin[f]
  /\ intent' = IF origin[f] = "form" /\ calls # <<>> /\ calls[1].do = "settings"
                 THEN [intent EXCEPT ![calls[1].field] = calls[1].value] ELSE intent
  /\ UNCHANGED <<settings, waiting>>

(* What the renderer makes of a reply when no call failed.                  *)
LEMMA ReceivedShape ==
  ASSUME LibraryInd, RendererReceives, ~failed, NEW reply \in Replies, reply = Head(outbox),
         NEW f \in Flows, f = reply.flow, NEW calls, calls = Following(f, reply)
  PROVE  Answered(f, calls)
<1>1. /\ outbox # <<>> /\ outbox' = Tail(outbox)
      /\ snapshot' = IF Head(todo[f]).do = "get" /\ reply.ok THEN payload[f] ELSE snapshot
      /\ Run(f, calls)
      /\ origin' = IF calls = <<>> THEN [origin EXCEPT ![f] = None] ELSE origin
      /\ intent' = IF origin[f] = "form" /\ calls # <<>> /\ Head(calls).do = "settings"
                     THEN [intent EXCEPT ![Head(calls).field] = Head(calls).value]
                     ELSE intent
      /\ UNCHANGED <<settings, waiting>>
  BY DEF RendererReceives, storeVars
<1>2. reply.ok
  <2>1. outbox \in Seq(Replies) /\ reply = outbox[1] /\ Popped(outbox, outbox')
    BY <1>1, Popping DEF LibraryInd, TypesInd
  <2>2. 1 \in DOMAIN outbox
    BY <2>1, PoppedAt
  <2> QED BY <2>1, <2>2 DEF LibraryInd, FailuresNoted
<1>3. Told(f) /\ ToldOk(f)
  BY <1>1, <1>2, TellPopped DEF LibraryInd, OnePlace
<1>4. todo[f] # <<>> /\ f \notin waiting /\ ~Asks(f)
  BY <1>3 DEF LibraryInd, OnePlace, Idle
<1>5. /\ todo[f] \in Seq(Calls) /\ todo[f][1] \in Calls /\ 1 \in DOMAIN todo[f] /\ Head(todo[f]) = todo[f][1]
  BY <1>4, FirstCall DEF LibraryInd, TypesInd
<1>6. calls \in Seq(Calls)
  BY <1>2, <1>3, <1>4, FollowingKeeps
<1>7. calls = IF todo[f][1].do = "save" THEN WithSaved(Tail(todo[f]), payload[f]) ELSE Tail(todo[f])
  BY <1>2, <1>5 DEF Following
<1>8. calls # <<>> => Head(calls) = calls[1]
  BY <1>6
<1>9. /\ todo'[f] = calls /\ \A g \in Flows : g # f => todo'[g] = todo[g] /\ payload'[g] = payload[g]
      /\ inbox' = IF calls = <<>> THEN inbox ELSE Append(inbox, f)
      /\ calls # <<>> /\ calls[1].do = "settings" =>
           payload'[f] = [snapshot'.settings EXCEPT ![calls[1].field] = calls[1].value]
  <2>1. /\ todo' = [todo EXCEPT ![f] = calls]
        /\ payload' = [payload EXCEPT ![f] =
             IF calls # <<>> /\ Head(calls).do = "settings"
               THEN [snapshot'.settings EXCEPT ![Head(calls).field] = Head(calls).value] ELSE None]
        /\ inbox' = IF calls = <<>> THEN inbox ELSE Append(inbox, f)
    BY <1>1 DEF Run
  <2> QED BY <1>8, <2>1 DEF LibraryInd, TypesInd
<1>10. Receives(f)
  BY <1>1, <1>9 DEF Receives, Idle
<1>11. /\ ~Told(f)' /\ (Asks(f)' <=> calls # <<>>)
       /\ \A g \in Flows : g # f => (Asks(g)' <=> Asks(g)) /\ (Told(g)' <=> Told(g))
  BY <1>9, <1>10, ReceivesPlace DEF LibraryInd, Idle
<1>12. /\ calls # <<>> => origin'[f] = origin[f]
       /\ \A g \in Flows : g # f => origin'[g] = origin[g]
  BY <1>1 DEF LibraryInd, TypesInd
<1>13. OthersStay(f)
  BY <1>9, <1>11, <1>12 DEF OthersStay
<1> QED BY <1>1, <1>2, <1>3, <1>4, <1>5, <1>6, <1>7, <1>8, <1>9, <1>10, <1>11, <1>12, <1>13 DEF Answered

(* What does not depend on whose reply it is.                               *)
LEMMA ReceivedCommon ==
  ASSUME LibraryInd, ChoiceInd, NEW f \in Flows, NEW calls, Answered(f, calls)
  PROVE  OneWriter' /\ Wirings' /\ WaitsFresh' /\ RepliesFresh' /\ Unsettled' \subseteq Unsettled
<1>1. /\ todo[f] \in Seq(Calls) /\ todo[f] # <<>> /\ Told(f) /\ f \notin waiting /\ Receives(f)
      /\ todo'[f] = IF todo[f][1].do = "save" THEN WithSaved(Tail(todo[f]), payload[f]) ELSE Tail(todo[f])
      /\ \A g \in Flows : g # f => todo'[g] = todo[g] /\ payload'[g] = payload[g] /\ origin'[g] = origin[g]
      /\ todo'[f] # <<>> => origin'[f] = origin[f]
      /\ todo'[f] \in Seq(Calls)
      /\ UNCHANGED <<settings, waiting>>
  BY DEF Answered, OthersStay
<1>2. \A i \in DOMAIN todo'[f] :
        /\ i \in Nat /\ i >= 1 /\ i + 1 \in DOMAIN todo[f] /\ i + 1 # 1
        /\ todo'[f][i].do \in {"settings", "activate"} => todo[f][i + 1].do \in {"settings", "activate"}
        /\ todo'[f][i].do = "get" => todo[f][i + 1] = todo'[f][i]
  <2> PICK next : next = todo'[f]
    OBVIOUS
  <2>1. \A i \in DOMAIN next :
          /\ i \in Nat /\ i >= 1 /\ i + 1 \in DOMAIN todo[f]
          /\ next[i].do \in {"settings", "activate"} => todo[f][i + 1].do \in {"settings", "activate"}
          /\ next[i].do = "get" => todo[f][i + 1] = next[i]
    BY <1>1, RestKinds
  <2>2. \A i \in DOMAIN next : i + 1 # 1
    BY <2>1
  <2> QED BY <2>1, <2>2
<1>3. Writes(todo[f])' => Writes(todo[f])
  BY <1>2 DEF Writes
<1>4. Unsettled' \subseteq Unsettled
  <2>1. \A g \in Flows : g # f => (Writes(todo[g])' <=> Writes(todo[g]))
    BY <1>1 DEF Writes
  <2>2. Unsettled' = {g \in Flows : Writes(todo[g])'}
    BY DEF Unsettled, Writes
  <2> QED BY <1>3, <2>1, <2>2, WritersWrite
<1>5. OneWriter'
  BY <1>4 DEF ChoiceInd, OneWriter
<1>6. Wirings'
  <2> SUFFICES ASSUME NEW g \in Pages, NEW i \in DOMAIN todo'[g],
                      todo'[g][i].do = "activate" \/ (todo'[g][i].do = "settings" /\ i # 1)
               PROVE  origin'[g] = "form"
    BY DEF Wirings
  <2>1. CASE g # f
    BY <1>1, <2>1 DEF ChoiceInd, Wirings, Flows
  <2>2. CASE g = f
    <3>1. i + 1 \in DOMAIN todo[f] /\ i + 1 # 1 /\ todo[f][i + 1].do \in {"settings", "activate"}
      BY <1>2, <2>2
    <3>2. origin[f] = "form"
      BY <2>2, <3>1 DEF ChoiceInd, Wirings
    <3>3. todo'[f] # <<>>
      BY <1>1, <2>2, Inhabited
    <3> QED BY <1>1, <2>2, <3>2, <3>3
  <2> QED BY <2>1, <2>2
<1>7. WaitsFresh'
  BY <1>1 DEF ChoiceInd, WaitsFresh, LibraryInd, TypesInd
<1>8. RepliesFresh'
  BY <1>1, RepliesKeep DEF ChoiceInd, LibraryInd, OnePlace, Receives
<1> QED BY <1>4, <1>5, <1>6, <1>7, <1>8

LEMMA PageRest ==
  ASSUME NEW calls \in Seq(Calls), calls # <<>>, calls[1].do # "save", PageCalls(calls)
  PROVE  /\ Tail(calls) # <<>> /\ Tail(calls)[1].do = "settings" => calls[1].do = "test" /\ 2 \in DOMAIN calls
                                                                   /\ calls[2] = Tail(calls)[1]
         /\ calls[1].do = "settings" => Tail(calls) # <<>> /\ Tail(calls)[1] = Get("settings")
<1> DEFINE rest == Tail(calls)
<1>1. /\ \A i \in DOMAIN calls : i \in Nat /\ i >= 1
      /\ \A i \in DOMAIN calls : i # 1 => i - 1 \in DOMAIN rest /\ rest[i - 1] = calls[i]
      /\ rest \in Seq(Calls) /\ 1 \in DOMAIN calls
      /\ \A i \in DOMAIN rest : i + 1 \in DOMAIN calls /\ rest[i] = calls[i + 1] /\ i \in Nat /\ i >= 1
  BY RestAt
<1>2. rest # <<>> => 1 \in DOMAIN rest
  BY <1>1
<1> HIDE DEF rest
<1>3. ASSUME rest # <<>>, rest[1].do = "settings"
      PROVE  calls[1].do = "test" /\ 2 \in DOMAIN calls /\ calls[2] = rest[1]
  <2>1. 1 + 1 \in DOMAIN calls /\ rest[1] = calls[1 + 1]
    BY <1>1, <1>2, <1>3
  <2>2. 2 \in DOMAIN calls /\ rest[1] = calls[2]
    BY <2>1
  <2> QED BY <1>3, <2>2 DEF PageCalls
<1>4. ASSUME calls[1].do = "settings"
      PROVE  rest # <<>> /\ rest[1] = Get("settings")
  <2>1. 1 + 1 \in DOMAIN calls /\ calls[1 + 1] = Get("settings")
    BY <1>1, <1>4 DEF PageCalls
  <2>2. PICK j \in DOMAIN calls : j = 2 /\ calls[j] = Get("settings")
    BY <2>1
  <2>3. j # 1 /\ j - 1 = 1
    BY <2>2
  <2>4. 1 \in DOMAIN rest /\ rest[1] = Get("settings")
    BY <1>1, <2>2, <2>3
  <2> QED BY <1>1, <2>4, Inhabited
<1> QED BY <1>3, <1>4 DEF rest

(* The newest reading is current, or one that is on its way is.             *)
LEMMA ReadingSeen ==
  ASSUME LibraryInd, ChoiceInd, NEW f \in Flows, Receives(f), todo[f][1].do = "get",
         \A g \in Flows : g # f => todo'[g] = todo[g] /\ (Told(g)' <=> Told(g))
  PROVE  \/ payload[f].settings = settings
         \/ \E g \in Flows : g # f /\ Setting(g) /\ Behind(g)'
<1>1. /\ outbox \in Seq(Replies) /\ outbox # <<>> /\ outbox[1].flow = f /\ 1 \in DOMAIN outbox
      /\ \A k \in DOMAIN outbox : outbox[k] \in Replies /\ k \in Nat
  <2>1. outbox \in Seq(Replies) /\ outbox # <<>> /\ f = Head(outbox).flow
    BY DEF LibraryInd, TypesInd, Receives
  <2>2. Head(outbox) = outbox[1] /\ Popped(outbox, Tail(outbox))
    BY <2>1, Popping
  <2>3. 1 \in DOMAIN outbox
    BY <2>2, PoppedAt
  <2> QED BY <2>1, <2>2, <2>3
<1>2. payload[f].settings = settings \/ Stale(1)
  BY <1>1 DEF ChoiceInd, RepliesFresh
<1>3. ASSUME Stale(1) PROVE \E g \in Flows : g # f /\ Setting(g) /\ Behind(g)'
  <2>1. PICK k \in DOMAIN outbox : k > 1 /\ Setting(outbox[k].flow)
    BY <1>3 DEF Stale
  <2>2. PICK g \in Flows : g = outbox[k].flow
    BY <1>1 DEF Replies
  <2>3. g # f /\ Told(g) /\ Setting(g)
    BY <1>1, <2>1, <2>2 DEF LibraryInd, OnePlace, ToldOnce, Told
  <2>4. Behind(g)'
    BY <2>3 DEF Behind, Setting, Idle
  <2> QED BY <2>3, <2>4
<1> QED BY <1>2, <1>3

LEMMA PageReceives ==
  ASSUME LibraryInd, ChoiceInd, RendererReceives, ~failed, NEW reply \in Replies, reply = Head(outbox),
         NEW f \in Pages, f = reply.flow
  PROVE  ChoiceInd'
<1>1. f \in Flows /\ f # Chrome /\ Chrome \in Flows
  BY ChromeAssumption DEF Flows
<1> PICK calls : calls = Following(f, reply)
  OBVIOUS
<1>2. Answered(f, calls)
  BY <1>1, ReceivedShape
<1>3. /\ todo[f] \in Seq(Calls) /\ todo[f] # <<>> /\ todo[f][1] \in Calls /\ 1 \in DOMAIN todo[f]
      /\ ToldOk(f) /\ Told(f) /\ f \notin waiting /\ ~Asks(f)
      /\ calls \in Seq(Calls)
      /\ calls = IF todo[f][1].do = "save" THEN WithSaved(Tail(todo[f]), payload[f]) ELSE Tail(todo[f])
      /\ snapshot' = IF todo[f][1].do = "get" THEN payload[f] ELSE snapshot
      /\ Receives(f) /\ todo'[f] = calls /\ ~Told(f)' /\ (Asks(f)' <=> calls # <<>>)
      /\ calls # <<>> /\ calls[1].do = "settings" =>
           payload'[f] = [snapshot'.settings EXCEPT ![calls[1].field] = calls[1].value]
      /\ calls # <<>> => origin'[f] = origin[f]
      /\ intent' = IF origin[f] = "form" /\ calls # <<>> /\ calls[1].do = "settings"
                     THEN [intent EXCEPT ![calls[1].field] = calls[1].value] ELSE intent
      /\ OthersStay(f)
      /\ UNCHANGED <<settings, waiting>>
  BY <1>2 DEF Answered
<1>4. \A g \in Flows : g # f =>
        /\ todo'[g] = todo[g] /\ payload'[g] = payload[g] /\ origin'[g] = origin[g]
        /\ Asks(g)' <=> Asks(g)
        /\ Told(g)' <=> Told(g)
  BY <1>3 DEF OthersStay
<1>5. OneWriter' /\ Wirings' /\ WaitsFresh' /\ RepliesFresh'
  BY <1>1, <1>2, ReceivedCommon
<1>6. PageCalls(todo[f])
  BY <1>1 DEF LibraryInd, FlowCalls, FlowOf
<1>7. CASE calls # <<>> /\ calls[1].do = "settings"
  <2>1. todo[f][1].do = "test" /\ 2 \in DOMAIN todo[f] /\ todo[f][2] = calls[1]
    <3>1. todo[f][1].do # "save"
      <4> SUFFICES ASSUME todo[f][1].do = "save" PROVE FALSE
        OBVIOUS
      <4>1. Carries(f, todo[f][1]) /\ minted \subseteq Configs
        BY <1>1, <1>3 DEF LibraryInd, Travels, StoreInd, StoreTypeOK
      <4>2. payload[f] \in minted /\ payload[f] \in Configs
        BY <1>3, <4>1 DEF Carries
      <4> QED BY <1>3, <1>6, <1>7, <4>2, SavedRest
    <3> QED BY <1>3, <1>6, <1>7, <3>1, PageRest
  <2>2. f \in Unsettled /\ ~Setting(f) /\ ~Rereading(f)
    BY <1>1, <1>7, <2>1, WritersWrite DEF Writes, Setting, Rereading, Get
  <2>3. \A g \in Unsettled : ~Setting(g) /\ ~Rereading(g)
    BY <2>2 DEF ChoiceInd, OneWriter
  <2>4. /\ todo[Chrome] = <<>> /\ \A g \in Flows : ~Setting(g) /\ ~Behind(g)
        /\ settings = intent /\ (snapshot # None => snapshot.settings = settings)
    BY <2>3, Agreed
  <2>5. snapshot # None /\ snapshot' = snapshot
    BY <1>1, <1>3, <2>1 DEF LibraryInd, SnapshotNeeded
  <2>6. origin[f] = "form"
    <3>1. 2 # 1
      OBVIOUS
    <3> QED BY <1>7, <2>1, <3>1 DEF ChoiceInd, Wirings
  <2>7. payload'[f] = intent'
    BY <1>3, <1>7, <2>4, <2>5, <2>6
  <2>8. Sent(f)' /\ (\A g \in Flows \ {f} : ~Sent(g)') /\ todo'[Chrome] = <<>>
    <3>1. Sent(f)'
      BY <1>3, <1>7 DEF Sent, Setting, Idle
    <3>2. \A g \in Flows \ {f} : ~Sent(g)'
      BY <1>4, <2>4 DEF Sent, Setting, Idle
    <3> QED BY <1>1, <1>4, <2>4, <3>1, <3>2
  <2>9. PagesSend' /\ ChainSends' /\ ChainEnds' /\ Settled'
    BY <2>7, <2>8, SendingKeeps
  <2>10. Seen'
    BY <1>3, <2>4, <2>5 DEF Seen
  <2> QED BY <1>5, <2>9, <2>10 DEF ChoiceInd
<1>8. CASE ~(calls # <<>> /\ calls[1].do = "settings")
  <2>1. intent' = intent /\ settings' = settings
    BY <1>3, <1>8
  <2>2. ~Sent(f) /\ ~Sent(f)'
    BY <1>3, <1>8 DEF Sent, Setting, Idle
  <2>3. {f} \in SUBSET Pages /\ \A g \in {f} : ~Sent(g) /\ ~Sent(g)'
    BY <2>2
  <2>4. PagesSend' /\ ChainSends' /\ ChainEnds' /\ Settled'
    BY <1>4, <2>1, <2>3, QuietKeeps
  <2>5. \A g \in Flows : g # f => (Behind(g)' <=> Behind(g))
    BY <1>4 DEF Behind, Rereading, Setting, Idle
  <2>6. Seen'
    <3>1. CASE todo[f][1].do = "get"
      <4>1. \/ payload[f].settings = settings
            \/ \E g \in Flows : g # f /\ Setting(g) /\ Behind(g)'
        BY <1>1, <1>3, <1>4, <3>1, ReadingSeen
      <4> QED BY <1>3, <3>1, <4>1 DEF Seen
    <3>2. CASE todo[f][1].do = "settings"
      <4>1. calls # <<>> /\ calls[1] = Get("settings")
        BY <1>3, <1>6, <3>2, PageRest
      <4>2. Behind(f)'
        BY <1>3, <4>1 DEF Behind, Rereading, Idle
      <4> QED BY <1>1, <4>2 DEF Seen
    <3>3. CASE todo[f][1].do \notin {"get", "settings"}
      <4>1. ~Behind(f)
        BY <3>3 DEF Behind, Rereading, Setting, Get
      <4>2. snapshot' = snapshot
        BY <1>3, <3>3
      <4> QED BY <2>1, <2>5, <4>1, <4>2 DEF ChoiceInd, Seen
    <3> QED BY <3>1, <3>2, <3>3
  <2> QED BY <1>5, <2>4, <2>6 DEF ChoiceInd
<1> QED BY <1>7, <1>8

LEMMA ChromeReceives ==
  ASSUME LibraryInd, ChoiceInd, RendererReceives, ~failed, NEW reply \in Replies, reply = Head(outbox),
         Chrome = reply.flow
  PROVE  ChoiceInd'
<1>1. Chrome \in Flows /\ Pages \subseteq Flows /\ Chrome \notin Pages
  BY ChromeAssumption DEF Flows
<1> PICK calls : calls = Following(Chrome, reply)
  OBVIOUS
<1>2. Answered(Chrome, calls)
  BY <1>1, ReceivedShape
<1>3. /\ todo[Chrome] \in Seq(Calls) /\ todo[Chrome] # <<>> /\ todo[Chrome][1] \in Calls
      /\ Told(Chrome) /\ Chrome \notin waiting /\ ~Asks(Chrome)
      /\ calls \in Seq(Calls)
      /\ calls = IF todo[Chrome][1].do = "save" THEN WithSaved(Tail(todo[Chrome]), payload[Chrome])
                 ELSE Tail(todo[Chrome])
      /\ snapshot' = IF todo[Chrome][1].do = "get" THEN payload[Chrome] ELSE snapshot
      /\ Receives(Chrome) /\ todo'[Chrome] = calls /\ (Asks(Chrome)' <=> calls # <<>>)
      /\ calls # <<>> /\ calls[1].do = "settings" =>
           payload'[Chrome] = [snapshot'.settings EXCEPT ![calls[1].field] = calls[1].value]
      /\ calls # <<>> => origin'[Chrome] = origin[Chrome]
      /\ intent' = IF origin[Chrome] = "form" /\ calls # <<>> /\ calls[1].do = "settings"
                     THEN [intent EXCEPT ![calls[1].field] = calls[1].value] ELSE intent
      /\ OthersStay(Chrome)
      /\ UNCHANGED <<settings, waiting>>
  BY <1>2 DEF Answered
<1>4. \A g \in Flows : g # Chrome =>
        /\ todo'[g] = todo[g] /\ payload'[g] = payload[g] /\ origin'[g] = origin[g]
        /\ Asks(g)' <=> Asks(g)
        /\ Told(g)' <=> Told(g)
  BY <1>3 DEF OthersStay
<1>5. OneWriter' /\ Wirings' /\ WaitsFresh' /\ RepliesFresh'
  BY <1>1, <1>2, ReceivedCommon
<1>6. ChromeCalls(todo[Chrome]) /\ origin[Chrome] = None /\ todo[Chrome][1].do \in {"get", "settings"}
  BY <1>1, <1>3, ChromeShape, Writers DEF Idle, Setting, Rereading, Get
<1>7. intent' = intent /\ calls = Tail(todo[Chrome])
  BY <1>3, <1>6, ModelsAssumption
<1>8. \A g \in Flows : g # Chrome => ~Setting(g) /\ ~Rereading(g) /\ ~Sent(g) /\ ~Sent(g)'
  <2>1. Chrome \in Unsettled
    BY <1>1, <1>3, Writers DEF Idle
  <2>2. \A g \in Flows : g # Chrome => ~Setting(g) /\ ~Rereading(g)
    BY <2>1, Writers DEF ChoiceInd, OneWriter, Setting, Rereading
  <2> QED BY <1>4, <2>2 DEF Sent, Setting, Idle
<1>9. PagesSend'
  BY <1>1, <1>8 DEF PagesSend
<1>10. ~Sent(Chrome) /\ (Chained <=> Len(todo[Chrome]) > 2)
  BY <1>3 DEF Sent, Chained
<1>11. Len(todo[Chrome]) > 2 => calls[Len(calls) - 1] = todo[Chrome][Len(todo[Chrome]) - 1]
  BY <1>3, <1>6, <1>7, ChainRest
<1>12. CASE todo[Chrome][1].do = "settings"
  <2>1. calls # <<>> /\ calls[1] = Get("settings") /\ (Len(calls) > 2 <=> Len(todo[Chrome]) > 2)
    BY <1>3, <1>6, <1>7, <1>12, ChainRest
  <2>2. ~Sent(Chrome)' /\ Rereading(Chrome)'
    <3>1. Get("settings").do # "settings"
      BY DEF Get
    <3> QED BY <1>3, <2>1, <3>1 DEF Sent, Setting, Rereading, Idle
  <2>3. Chained' <=> Chained
    BY <1>3, <1>10, <2>1, <2>2 DEF Chained
  <2>4. Chained => LastTheme' = LastTheme
    BY <1>3, <1>10, <1>11 DEF LastTheme
  <2>5. ChainSends' /\ ChainEnds' /\ Settled'
    BY <1>1, <1>3, <1>7, <1>8, <2>2, <2>3, <2>4 DEF ChoiceInd, ChainSends, ChainEnds, Settled
  <2>6. Seen'
    BY <1>1, <2>2 DEF Seen, Behind
  <2> QED BY <1>5, <1>9, <2>5, <2>6 DEF ChoiceInd
<1>13. CASE todo[Chrome][1].do # "settings"
  <2>1. /\ todo[Chrome][1] = Get("settings") /\ (calls # <<>> <=> Len(todo[Chrome]) > 2)
        /\ calls # <<>> => calls[1].do = "settings" /\ calls[1].field = "theme"
    <3>1. calls = Tail(todo[Chrome])
      BY <1>7
    <3> QED BY <1>3, <1>6, <1>13, <3>1, ChainRest
  <2>2. snapshot' = payload[Chrome] /\ payload[Chrome].settings = settings
    <3>1. todo[Chrome][1].do = "get"
      BY <2>1 DEF Get
    <3>2. \/ payload[Chrome].settings = settings
          \/ \E g \in Flows : g # Chrome /\ Setting(g) /\ Behind(g)'
      BY <1>1, <1>3, <1>4, <3>1, ReadingSeen
    <3> QED BY <1>3, <1>8, <3>1, <3>2
  <2>3. Seen'
    BY <1>3, <2>2 DEF Seen
  <2>4. Sent(Chrome)' <=> calls # <<>>
    BY <1>3, <2>1 DEF Sent, Setting, Idle
  <2>5. Chained' => Chained
    <3>1. Len(<<>>) = 0
      OBVIOUS
    <3>2. calls = <<>> => ~Chained'
      BY <1>3, <2>4, <3>1 DEF Chained
    <3> QED BY <1>10, <2>1, <3>2
  <2>6. Chained => Chained'
    BY <1>10, <2>1, <2>4 DEF Chained
  <2>7. Chained => LastTheme' = LastTheme
    BY <1>3, <1>10, <1>11 DEF LastTheme
  <2>8. ChainEnds' /\ Settled'
    BY <1>1, <1>3, <1>7, <1>8, <2>5, <2>6, <2>7 DEF ChoiceInd, ChainEnds, Settled
  <2>9. ChainSends'
    <3> SUFFICES ASSUME Sent(Chrome)'
                 PROVE  payload'[Chrome] = [settings EXCEPT !.theme = calls[1].value]
      BY <1>3 DEF ChainSends
    <3>1. calls # <<>> /\ calls[1].do = "settings" /\ calls[1].field = "theme"
      BY <2>1, <2>4
    <3> QED BY <1>3, <2>2, <3>1
  <2> QED BY <1>5, <1>9, <2>3, <2>8, <2>9 DEF ChoiceInd
<1> QED BY <1>12, <1>13

LEMMA ReplyKeepsChoices ==
  ASSUME LibraryInd, ChoiceInd, RendererReceives, ~failed
  PROVE  ChoiceInd'
<1>1. outbox \in Seq(Replies) /\ outbox # <<>>
  BY DEF LibraryInd, TypesInd, RendererReceives
<1>2. Head(outbox) \in Replies
  BY <1>1, Popping
<1> PICK reply \in Replies : reply = Head(outbox)
  BY <1>2
<1>3. reply.flow \in Flows
  BY DEF Replies
<1>4. CASE reply.flow = Chrome
  BY <1>4, ChromeReceives
<1>5. CASE reply.flow # Chrome
  <2> PICK f \in Pages : f = reply.flow
    BY <1>3, <1>5 DEF Flows
  <2> QED BY PageReceives
<1> QED BY <1>4, <1>5

(* No call under way ends or changes, and nothing is stored or shown.       *)
LEMMA FirstsStay ==
  ASSUME LibraryInd, ChoiceInd, UNCHANGED <<settings, snapshot, waiting, outbox>>,
         \A g \in Flows : ~Idle(g) =>
           /\ ~Idle(g)' /\ todo'[g][1] = todo[g][1] /\ payload'[g] = payload[g]
  PROVE  Seen' /\ WaitsFresh' /\ RepliesFresh'
<1>1. \A g \in Flows : (Setting(g) => Setting(g)') /\ (Told(g)' <=> Told(g))
  BY DEF Setting, Told
<1>2. Seen'
  <2>1. \A g \in Flows : Behind(g) => Behind(g)'
    BY <1>1 DEF Behind, Rereading
  <2> QED BY <2>1 DEF ChoiceInd, Seen
<1>3. WaitsFresh'
  <2>1. \A g \in waiting : g \in Flows /\ ~Idle(g)
    BY DEF LibraryInd, TypesInd, OnePlace
  <2> QED BY <2>1 DEF ChoiceInd, WaitsFresh
<1>4. RepliesFresh'
  <2>1. \A k \in DOMAIN outbox : outbox[k].flow \in Flows /\ ~Idle(outbox[k].flow)
    <3>1. \A k \in DOMAIN outbox : outbox[k] \in Replies
      <4>1. outbox \in Seq(Replies)
        BY DEF LibraryInd, TypesInd
      <4> QED BY <4>1
    <3>2. \A k \in DOMAIN outbox : outbox[k].flow \in Flows
      BY <3>1 DEF Replies
    <3> QED BY <3>2 DEF LibraryInd, OnePlace, Told
  <2>2. \A k \in DOMAIN outbox : Stale(k) => Stale(k)'
    BY <1>1, <2>1 DEF Stale
  <2> QED BY <2>1, <2>2 DEF ChoiceInd, RepliesFresh
<1> QED BY <1>2, <1>3, <1>4

(* What a flow that starts leaves of the others.                            *)
StartsAlone(f, calls) ==
  /\ f \notin Unsettled /\ todo'[f] = calls /\ Asks(f)' /\ ~Sent(f)
  /\ calls[1].do = "settings" =>
       payload'[f] = [snapshot.settings EXCEPT ![calls[1].field] = calls[1].value]
  /\ \A g \in Flows : g # f =>
       /\ todo'[g] = todo[g] /\ payload'[g] = payload[g]
       /\ Asks(g)' <=> Asks(g)
  /\ snapshot # None /\ UNCHANGED <<settings, snapshot>>

LEMMA StartedCommon ==
  ASSUME LibraryInd, ChoiceInd, NEW f \in Flows, NEW calls \in Seq(Calls), calls # <<>>, NEW who,
         Click, Start(f, calls, who), Writes(calls) => Unsettled = {},
         \A i \in DOMAIN calls :
           calls[i].do = "activate" \/ (calls[i].do = "settings" /\ i # 1) => who = "form" \/ f \notin Pages
  PROVE  /\ OneWriter' /\ Wirings' /\ Seen' /\ WaitsFresh' /\ RepliesFresh'
         /\ StartsAlone(f, calls)
<1>1. /\ snapshot # None /\ UNCHANGED <<settings, snapshot, waiting, outbox>>
      /\ Idle(f) /\ Run(f, calls) /\ origin' = [origin EXCEPT ![f] = who]
  BY DEF Click, Start, storeVars
<1>2. snapshot' \in Models
  BY <1>1 DEF LibraryInd, TypesInd
<1>3. /\ todo'[f] = calls
      /\ \A g \in Flows : g # f => todo'[g] = todo[g] /\ payload'[g] = payload[g]
      /\ inbox' = Append(inbox, f)
      /\ calls[1].do = "settings" =>
           payload'[f] = [snapshot'.settings EXCEPT ![calls[1].field] = calls[1].value]
  BY <1>1, <1>2, Running DEF LibraryInd
<1>4. Begins(f)
  BY <1>1, <1>3 DEF Begins, Idle
<1>5. Asks(f)' /\ \A g \in Flows : g # f => (Asks(g)' <=> Asks(g))
  BY <1>4, BeginsPlace DEF LibraryInd
<1>6. /\ origin'[f] = who
      /\ \A g \in Flows : g # f => origin'[g] = origin[g]
  BY <1>1 DEF LibraryInd, TypesInd
<1>7. f \notin Unsettled
  BY <1>1, WritersWrite, NoneWrites DEF Idle
<1>8. OneWriter'
  <2>1. \A g \in Flows : g # f => (Writes(todo[g])' <=> Writes(todo[g]))
    BY <1>3 DEF Writes
  <2>2. Writes(todo[f])' <=> Writes(calls)
    BY <1>3 DEF Writes
  <2>3. Unsettled' = {g \in Flows : Writes(todo[g])'}
    BY DEF Unsettled, Writes
  <2> QED BY <2>1, <2>2, <2>3, WritersWrite DEF ChoiceInd, OneWriter
<1>9. Wirings'
  BY <1>3, <1>6 DEF ChoiceInd, Wirings, Flows
<1>10. Seen' /\ WaitsFresh' /\ RepliesFresh'
  <2>1. \A g \in Flows : ~Idle(g) => ~Idle(g)' /\ todo'[g][1] = todo[g][1] /\ payload'[g] = payload[g]
    BY <1>1, <1>3 DEF Idle
  <2> QED BY <1>1, <2>1, FirstsStay
<1>11. StartsAlone(f, calls)
  BY <1>1, <1>3, <1>5, <1>7 DEF StartsAlone, Sent, Setting
<1> QED BY <1>8, <1>9, <1>10, <1>11

(* A page's flow that starts with another call.                             *)
LEMMA StartedQuiet ==
  ASSUME LibraryInd, ChoiceInd, NEW f \in Pages, NEW calls, NEW who \in Configs \cup {"form", None},
         Fits(f, calls, who, minted), calls[1].do # "settings",
         Click, Start(f, calls, who), Writes(calls) => Unsettled = {}, UNCHANGED intent,
         \A i \in DOMAIN calls :
           calls[i].do = "activate" \/ (calls[i].do = "settings" /\ i # 1) => who = "form"
  PROVE  ChoiceInd'
<1>1. f \in Flows /\ calls \in Seq(Calls) /\ calls # <<>>
  BY DEF Flows, Fits
<1>2. OneWriter' /\ Wirings' /\ Seen' /\ WaitsFresh' /\ RepliesFresh' /\ StartsAlone(f, calls)
  BY <1>1, StartedCommon
<1>3. {f} \in SUBSET Pages /\ \A g \in {f} : ~Sent(g) /\ ~Sent(g)'
  BY <1>2 DEF StartsAlone, Sent, Setting
<1>4. /\ UNCHANGED <<settings, intent>>
      /\ \A g \in Flows \ {f} :
           todo'[g] = todo[g] /\ payload'[g] = payload[g] /\ (Asks(g)' <=> Asks(g))
  BY <1>2 DEF StartsAlone
<1>5. PagesSend' /\ ChainSends' /\ ChainEnds' /\ Settled'
  BY <1>3, <1>4, QuietKeeps
<1> QED BY <1>2, <1>5 DEF ChoiceInd

LEMMA Uncrossed ==
  ASSUME NEW S, Crossing(S), ~overlapped'
  PROVE  Unsettled \subseteq S /\ ~overlapped
BY DEF Crossing

LEMMA NothingUnsettled ==
  ASSUME LibraryInd, ChoiceInd, Unsettled = {}
  PROVE  /\ todo[Chrome] = <<>> /\ ~Chained /\ settings = intent
         /\ \A g \in Flows : ~Setting(g) /\ ~Behind(g)
         /\ snapshot # None => snapshot.settings = settings
BY Agreed

LEMMA SettingKeepsChoices ==
  ASSUME LibraryInd, ChoiceInd, NEW f \in Pages, NEW field, NEW value, Set(field, value) \in Sets,
         ChangeSetting(f, field, value), ~overlapped'
  PROVE  ChoiceInd'
<1> PICK calls : calls = <<Set(field, value), Get("settings")>>
  OBVIOUS
<1>1. /\ Click /\ snapshot # None /\ f \in Flows
      /\ intent' = [intent EXCEPT ![field] = value] /\ Crossing({})
      /\ Start(f, calls, None)
  BY DEF ChangeSetting, Click, Flows
<1>2. Unsettled = {}
  BY <1>1, Uncrossed
<1>3. Fits(f, calls, None, minted)
  BY Shapes
<1>4. /\ calls \in Seq(Calls) /\ calls # <<>>
      /\ calls[1].do = "settings" /\ calls[1].field = field /\ calls[1].value = value
      /\ \A i \in DOMAIN calls : calls[i].do \in {"settings", "activate"} => calls[i].do = "settings" /\ i = 1
  <2>1. /\ Set(field, value).do = "settings" /\ Set(field, value).field = field
        /\ Set(field, value).value = value /\ Get("settings").do = "get"
    BY DEF Set, Get
  <2>2. DOMAIN calls = 1 .. 2 /\ calls[1] = Set(field, value) /\ calls[2] = Get("settings")
    OBVIOUS
  <2> QED BY <1>3, <2>1, <2>2 DEF Fits
<1>5. OneWriter' /\ Wirings' /\ Seen' /\ WaitsFresh' /\ RepliesFresh' /\ StartsAlone(f, calls)
  BY <1>1, <1>2, <1>4, StartedCommon
<1>6. /\ todo[Chrome] = <<>> /\ settings = intent /\ snapshot.settings = settings
      /\ \A g \in Flows : ~Setting(g)
  BY <1>1, <1>2, NothingUnsettled
<1>7. payload'[f] = intent'
  BY <1>1, <1>4, <1>5, <1>6 DEF StartsAlone
<1>8. Sent(f)' /\ (\A g \in Flows \ {f} : ~Sent(g)') /\ todo'[Chrome] = <<>>
  <2>1. f # Chrome /\ Chrome \in Flows
    BY ChromeAssumption DEF Flows
  <2> QED BY <1>4, <1>5, <1>6, <2>1 DEF StartsAlone, Sent, Setting, Idle
<1> QED BY <1>5, <1>7, <1>8, SendingKeeps DEF ChoiceInd

LEMMA ThemeKeepsChoices ==
  ASSUME LibraryInd, ChoiceInd, NEW t \in Themes, ChangeTheme(t), ~overlapped'
  PROVE  ChoiceInd'
<1> PICK more : more = <<Set("theme", t), Get("settings")>>
  OBVIOUS
<1>1. /\ Click /\ snapshot # None /\ intent' = [intent EXCEPT !.theme = t] /\ Crossing({Chrome})
      /\ Chrome \in Flows /\ Chrome \notin Pages /\ Pages \subseteq Flows
  BY ChromeAssumption DEF ChangeTheme, Click, Flows
<1>2. Unsettled \subseteq {Chrome}
  BY <1>1, Uncrossed
<1>3. \A g \in Flows : g # Chrome => ~Setting(g) /\ ~Rereading(g) /\ ~Sent(g)
  BY <1>2, Writers DEF Setting, Rereading, Sent
<1>4. /\ Set("theme", t).do = "settings" /\ Set("theme", t).field = "theme"
      /\ Set("theme", t).value = t /\ Get("settings").do = "get"
      /\ Set("theme", t) \in Calls /\ Get("settings") \in Calls
  BY CallsMade DEF Reasons, Set, Get
<1>5. /\ more \in Seq(Calls) /\ more # <<>> /\ Len(more) = 2
      /\ more[1] = Set("theme", t) /\ more[2] = Get("settings")
  BY <1>4
<1>6. CASE Idle(Chrome)
  <2>1. Start(Chrome, more, None)
    BY <1>6 DEF ChangeTheme
  <2>2. Unsettled = {}
    BY <1>2, <1>6, WritersWrite, NoneWrites DEF Idle
  <2>3. OneWriter' /\ Wirings' /\ Seen' /\ WaitsFresh' /\ RepliesFresh' /\ StartsAlone(Chrome, more)
    BY <1>1, <1>5, <2>1, <2>2, StartedCommon
  <2>4. settings = intent /\ snapshot.settings = settings
    BY <1>1, <2>2, NothingUnsettled
  <2>5. payload'[Chrome] = [settings EXCEPT !.theme = t]
    BY <1>4, <1>5, <2>3, <2>4 DEF StartsAlone
  <2>6. todo'[Chrome] = more /\ settings' = settings /\ Asks(Chrome)'
    BY <2>3 DEF StartsAlone
  <2>7. Sent(Chrome)' /\ Chained' /\ LastTheme' = t
    BY <1>4, <1>5, <2>6 DEF Sent, Setting, Idle, Chained, LastTheme
  <2>8. \A g \in Pages : ~Sent(g)'
    BY <1>1, <1>3, <2>3 DEF StartsAlone, Sent, Setting, Idle
  <2>9. PagesSend' /\ Settled'
    BY <2>7, <2>8 DEF PagesSend, Settled
  <2>10. ChainSends'
    BY <1>4, <1>5, <2>5, <2>6 DEF ChainSends
  <2>11. ChainEnds'
    BY <1>1, <2>4, <2>6, <2>7 DEF ChainEnds
  <2> QED BY <2>3, <2>9, <2>10, <2>11 DEF ChoiceInd
<1>7. CASE ~Idle(Chrome)
  <2>1. /\ todo' = [todo EXCEPT ![Chrome] = @ \o more]
        /\ UNCHANGED <<payload, inbox, origin, settings, snapshot, waiting, outbox>>
    BY <1>1, <1>7 DEF ChangeTheme, Click, storeVars
  <2>2. /\ todo[Chrome] \in Seq(Calls) /\ todo[Chrome] # <<>> /\ ChromeCalls(todo[Chrome])
        /\ IdsKnown(todo[Chrome], minted)
    BY <1>1, <1>7 DEF LibraryInd, TypesInd, Idle, FlowCalls, FlowOf, Minted
  <2>3. /\ todo'[Chrome] = todo[Chrome] \o more
        /\ \A g \in Flows : g # Chrome => todo'[g] = todo[g]
    BY <1>1, <2>1 DEF LibraryInd, TypesInd
  <2> PICK next : next = todo'[Chrome]
    OBVIOUS
  <2>4. /\ next # <<>> /\ next[1] = todo[Chrome][1] /\ Len(next) = Len(todo[Chrome]) + 2
        /\ next[Len(next) - 1] = Set("theme", t) /\ Len(todo[Chrome]) \in Nat /\ Len(todo[Chrome]) > 0
    <3>1. Lengthened(todo[Chrome], t, next)
      BY <2>3 DEF Lengthened
    <3>2. Len(todo[Chrome]) \in Nat /\ Len(todo[Chrome]) > 0
      BY <2>2
    <3> QED BY <2>2, <3>1, <3>2, ChainGrows
  <2>5. Chained' /\ LastTheme' = t
    <3>1. Len(next) > 2
      BY <2>4
    <3> QED BY <1>4, <2>4, <3>1 DEF Chained, LastTheme
  <2>6. \A g \in Flows :
          /\ ~Idle(g) => ~Idle(g)' /\ todo'[g][1] = todo[g][1] /\ payload'[g] = payload[g]
          /\ Sent(g)' <=> Sent(g)
    BY <1>7, <2>1, <2>3, <2>4 DEF Idle, Sent, Setting, Asks
  <2>7. Seen' /\ WaitsFresh' /\ RepliesFresh'
    BY <2>1, <2>6, FirstsStay
  <2>8. OneWriter'
    <3>1. Unsettled' \subseteq {Chrome}
      <4>1. \A g \in Flows : g # Chrome => (Writes(todo[g])' <=> Writes(todo[g]))
        BY <2>3 DEF Writes
      <4>2. Unsettled' = {g \in Flows : Writes(todo[g])'}
        BY DEF Unsettled, Writes
      <4> QED BY <1>2, <4>1, <4>2, WritersWrite
    <3> QED BY <3>1 DEF OneWriter
  <2>9. Wirings'
    BY <1>1, <2>1, <2>3 DEF ChoiceInd, Wirings
  <2>10. PagesSend' /\ Settled'
    BY <1>1, <1>3, <2>5, <2>6 DEF PagesSend, Settled
  <2>11. ChainSends'
    BY <1>1, <2>1, <2>4, <2>6 DEF ChoiceInd, ChainSends
  <2>12. ChainEnds'
    <3>1. settings \in Settings
      BY DEF LibraryInd, StoreInd, StoreTypeOK
    <3>2. intent' = [settings EXCEPT !.theme = t]
      <4>1. CASE Chained
        <5>1. intent = [settings EXCEPT !.theme = LastTheme]
          BY <4>1 DEF ChoiceInd, ChainEnds
        <5> QED BY <1>1, <3>1, <5>1, ThemeTwice
      <4>2. CASE ~Chained
        <5>1. settings = intent
          BY <1>1, <1>3, <4>2 DEF ChoiceInd, Settled
        <5> QED BY <1>1, <5>1
      <4> QED BY <4>1, <4>2
    <3> QED BY <2>1, <2>5, <3>2 DEF ChainEnds
  <2> QED BY <2>7, <2>8, <2>9, <2>10, <2>11, <2>12 DEF ChoiceInd
<1> QED BY <1>6, <1>7

(* What is left for the form sets what the form's own flow was to set.      *)
LEMMA TimeoutRest ==
  ASSUME NEW calls \in Seq(Calls), calls # <<>>, calls[1].do \in {"save", "test"},
         NEW rest, rest = IF calls[1].do = "save" THEN <<Get("provider")>> ELSE Tail(calls)
  PROVE  /\ Writes(rest) => Writes(calls)
         /\ rest # <<>> /\ rest[1].do = "settings" => calls[1].do = "test" /\ Writes(rest)
<1>1. CASE calls[1].do = "save"
  <2>1. DOMAIN rest = {1} /\ rest[1] = Get("provider")
    BY <1>1
  <2>2. Get("provider").do = "get" /\ Get("provider").reason \notin MicReasons \cup {"settings"}
    BY DEF Get, MicReasons
  <2> QED BY <1>1, <2>1, <2>2 DEF Writes
<1>2. CASE calls[1].do # "save"
  <2>1. /\ rest \in Seq(Calls)
        /\ \A i \in DOMAIN rest : i + 1 \in DOMAIN calls /\ rest[i] = calls[i + 1]
    BY <1>2, RestAt
  <2>2. rest # <<>> => 1 \in DOMAIN rest
    BY <2>1
  <2> QED BY <1>2, <2>1, <2>2 DEF Writes
<1> QED BY <1>1, <1>2

LEMMA TimeoutKeepsChoices ==
  ASSUME LibraryInd, ChoiceInd, NEW f \in Pages, NEW g \in Pages, VerifyTimesOut(f, g)
  PROVE  ChoiceInd'
<1> PICK call : call = Head(todo[f])
  OBVIOUS
<1> PICK rest : rest = IF call.do = "save" THEN <<Get("provider")>> ELSE Tail(todo[f])
  OBVIOUS
<1> DEFINE sent == Head(rest).do = "settings"
<1>1. /\ origin[f] = "form" /\ Idle(g) /\ call.do \in {"save", "test"}
      /\ todo' = [todo EXCEPT ![f] = <<call>>, ![g] = rest]
      /\ payload' = [payload EXCEPT ![g] =
           IF sent THEN [snapshot.settings EXCEPT ![Head(rest).field] = Head(rest).value] ELSE None]
      /\ intent' = IF sent THEN [intent EXCEPT ![Head(rest).field] = Head(rest).value] ELSE intent
      /\ inbox' = Append(inbox, g)
      /\ origin' = [origin EXCEPT ![f] = None, ![g] = "form"]
      /\ UNCHANGED <<settings, snapshot, waiting, outbox>>
  BY DEF VerifyTimesOut, storeVars
<1>2. /\ f \in Flows /\ g \in Flows /\ f # g /\ snapshot # None
      /\ todo[f] # <<>> /\ call = todo[f][1] /\ call \in Calls
      /\ Fits(g, rest, "form", minted)
  BY <1>1, TimeoutShape
<1>3. rest \in Seq(Calls) /\ rest # <<>> /\ Head(rest) = rest[1] /\ todo[f] \in Seq(Calls)
  BY <1>2 DEF Fits, LibraryInd, TypesInd
<1>4. /\ \A h \in Flows \ {g} : payload'[h] = payload[h]
      /\ todo'[f] = <<call>> /\ todo'[g] = rest
      /\ \A h \in Flows \ {f, g} : todo'[h] = todo[h] /\ origin'[h] = origin[h]
      /\ origin'[g] = "form"
  BY <1>1, <1>2 DEF LibraryInd, TypesInd
<1>5. DOMAIN todo'[f] = {1} /\ todo'[f][1] = call /\ todo'[f] # <<>>
  BY <1>4
<1>6. Begins(g)
  BY <1>1, <1>2, <1>3, <1>4, <1>5 DEF Begins, Idle
<1>7. Asks(g)' /\ \A h \in Flows : h # g => (Asks(h)' <=> Asks(h))
  BY <1>2, <1>6, BeginsPlace DEF LibraryInd
<1>8. Seen' /\ WaitsFresh' /\ RepliesFresh'
  <2>1. \A h \in Flows : ~Idle(h) => ~Idle(h)' /\ todo'[h][1] = todo[h][1] /\ payload'[h] = payload[h]
    BY <1>1, <1>2, <1>4, <1>5 DEF Idle
  <2> QED BY <1>1, <2>1, FirstsStay
<1>9. /\ Writes(rest) => f \in Unsettled
      /\ rest[1].do = "settings" => Writes(rest)
  <2>1. /\ rest = IF todo[f][1].do = "save" THEN <<Get("provider")>> ELSE Tail(todo[f])
        /\ todo[f][1].do \in {"save", "test"}
    BY <1>1, <1>2
  <2>2. /\ Writes(rest) => Writes(todo[f])
        /\ rest # <<>> /\ rest[1].do = "settings" => Writes(rest)
    BY <1>2, <1>3, <2>1, TimeoutRest
  <2> QED BY <1>2, <1>3, <2>2, WritersWrite
<1>10. OneWriter'
  <2>1. \A h \in Flows \ {f, g} : Writes(todo[h])' <=> Writes(todo[h])
    BY <1>4 DEF Writes
  <2>2. ~Writes(todo[f])'
    BY <1>1, <1>5 DEF Writes
  <2>3. Writes(todo[g])' <=> Writes(rest)
    BY <1>4 DEF Writes
  <2>4. Unsettled' = {h \in Flows : Writes(todo[h])'}
    BY DEF Unsettled, Writes
  <2>5. \A h \in Unsettled' : (h = g /\ f \in Unsettled) \/ (h # f /\ h \in Unsettled)
    BY <1>9, <2>1, <2>2, <2>3, <2>4, WritersWrite
  <2> QED BY <2>5 DEF ChoiceInd, OneWriter
<1>11. Wirings'
  <2>1. Pages \subseteq Flows
    BY DEF Flows
  <2> QED BY <1>1, <1>4, <1>5, <2>1 DEF ChoiceInd, Wirings
<1>12. ~Sent(f) /\ ~Sent(f)' /\ ~Sent(g)
  BY <1>1, <1>2, <1>5 DEF Sent, Setting
<1>13. CASE ~sent
  <2>1. ~Sent(g)'
    BY <1>3, <1>4, <1>13 DEF Sent, Setting
  <2>2. {f, g} \in SUBSET Pages /\ \A h \in {f, g} : ~Sent(h) /\ ~Sent(h)'
    BY <1>12, <2>1
  <2>3. \A h \in Flows \ {f, g} :
          todo'[h] = todo[h] /\ payload'[h] = payload[h] /\ (Asks(h)' <=> Asks(h))
    BY <1>4, <1>7
  <2>4. UNCHANGED <<settings, intent>>
    BY <1>1, <1>13
  <2> QED BY <2>2, <2>3, <2>4, <1>8, <1>10, <1>11, QuietKeeps DEF ChoiceInd
<1>14. CASE sent
  <2>1. f \in Unsettled
    BY <1>3, <1>9, <1>14
  <2>2. \A h \in Unsettled : ~Setting(h) /\ ~Rereading(h)
    <3>1. ~Setting(f) /\ ~Rereading(f)
      BY <1>1, <1>2 DEF Setting, Rereading, Get
    <3> QED BY <2>1, <3>1 DEF ChoiceInd, OneWriter
  <2>3. /\ todo[Chrome] = <<>> /\ settings = intent /\ snapshot.settings = settings
        /\ \A h \in Flows : ~Setting(h)
    BY <1>2, <2>2, Agreed
  <2>4. payload'[g] = intent'
    BY <1>1, <1>2, <1>14, <2>3 DEF LibraryInd, TypesInd
  <2>5. Sent(g)' /\ todo'[Chrome] = <<>>
    <3>1. Chrome \in Flows \ {f, g}
      BY ChromeAssumption DEF Flows
    <3> QED BY <1>3, <1>4, <1>7, <1>14, <2>3, <3>1 DEF Sent, Setting, Idle
  <2>6. \A h \in Flows \ {g} : ~Sent(h)'
    BY <1>4, <1>12, <2>3 DEF Sent, Setting, Idle
  <2> QED BY <2>4, <2>5, <2>6, <1>8, <1>10, <1>11, SendingKeeps DEF ChoiceInd
<1> QED BY <1>13, <1>14

(* The form's flow saves its config first and sets nothing unless activated.*)
LEMMA FormSavesWrite ==
  ASSUME NEW req \in Requests, NEW id \in Configs \cup {None},
         NEW cap \in Capabilities, NEW activate \in BOOLEAN, NEW calls,
         calls = <<Save(id, req), Test(id, <<>>)>>
                 \o (IF activate THEN <<Activate(cap), Get("settings")>> ELSE <<>>) \o <<Get("provider")>>
  PROVE  calls[1].do = "save" /\ (~activate => ~Writes(calls))
<1>1. PICK set \in Calls : set = Save(id, req) /\ set.do = "save"
  BY CallsMade DEF Save
<1>2. PICK test \in Calls : test = Test(id, <<>>) /\ test.do = "test"
  BY CallsMade DEF Test
<1>3. PICK last \in Calls : last = Get("provider") /\ last.do = "get" /\ last.reason \notin MicReasons \cup {"settings"}
  BY CallsMade DEF Reasons, Get, MicReasons
<1>4. PICK wire \in Calls : wire = Activate(cap)
  BY CallsMade
<1>5. PICK settled \in Calls : settled = Get("settings")
  BY CallsMade DEF Reasons
<1>6. PICK first : first = <<set, test>> /\ first \in Seq(Calls)
  <2>1. <<set, test>> \in Seq(Calls)
    OBVIOUS
  <2> QED BY <2>1
<1>7. CASE activate
  <2>1. PICK four : four = first \o <<wire, settled>> /\ four \in Seq(Calls) /\ four[1] = set /\ Len(four) = 4
    <3>1. first \o <<wire, settled>> \in Seq(Calls)
      BY <1>6
    <3>2. (first \o <<wire, settled>>)[1] = set /\ Len(first \o <<wire, settled>>) = 4
      BY <1>6
    <3> QED BY <3>1, <3>2
  <2>2. calls = four \o <<last>>
    BY <1>1, <1>2, <1>3, <1>4, <1>5, <1>6, <1>7, <2>1
  <2>3. calls[1] = four[1]
    BY <2>1, <2>2
  <2> QED BY <1>1, <1>7, <2>1, <2>3
<1>8. CASE ~activate
  <2>1. calls = first \o <<last>>
    <3>1. calls = first \o <<>> \o <<last>>
      BY <1>1, <1>2, <1>3, <1>6, <1>8
    <3>2. first \o <<>> = first
      BY <1>6
    <3> QED BY <3>1, <3>2
  <2>2. Len(calls) = 3 /\ DOMAIN calls = 1 .. 3 /\ calls[1] = set /\ calls[2] = test /\ calls[3] = last
    <3>1. Len(first) = 2 /\ first[1] = set /\ first[2] = test /\ first \in Seq(Calls)
      BY <1>6
    <3>2. /\ Len(calls) = Len(first) + 1 /\ calls[Len(first) + 1] = last /\ calls \in Seq(Calls)
          /\ \A i \in 1 .. Len(first) : calls[i] = first[i]
      BY <2>1, <3>1, OneMore
    <3>3. calls[3] = last /\ \A i \in 1 .. 2 : calls[i] = first[i]
      BY <3>1, <3>2
    <3> QED BY <3>1, <3>2, <3>3
  <2>3. ~Writes(calls)
    BY <1>1, <1>2, <1>3, <2>2 DEF Writes
  <2> QED BY <1>1, <2>2, <2>3
<1> QED BY <1>7, <1>8

LEMMA SaveFormKeepsChoices ==
  ASSUME LibraryInd, ChoiceInd, NEW f \in Pages, NEW cap \in Capabilities, NEW key \in Keys \cup {None},
         NEW activate \in BOOLEAN, SaveForm(f, cap, key, activate), ~overlapped'
  PROVE  ChoiceInd'
<1> PICK req : req = [capability |-> cap, is_default |-> cap = "omni" /\ form.is_default, key |-> key]
  OBVIOUS
<1> PICK id : id = form.id
  OBVIOUS
<1>1. /\ Click /\ form # None /\ (form.id = None => key # None) /\ UNCHANGED intent
      /\ activate => Crossing({})
  BY DEF SaveForm
<1>2. /\ form \in Forms /\ id \in minted \cup {None} /\ id \in Configs \cup {None}
  BY <1>1, FormShape
<1>3. req \in Requests /\ (id = None => req.key # None)
  BY <1>1, <1>2 DEF Forms, Requests
<1>4. PICK calls : calls = <<Save(id, req), Test(id, <<>>)>>
                            \o (IF activate THEN <<Activate(cap), Get("settings")>> ELSE <<>>) \o <<Get("provider")>>
  OBVIOUS
<1>5. Start(f, calls, "form")
  BY <1>4 DEF SaveForm
<1>6. Fits(f, calls, "form", minted)
  BY <1>2, <1>3, <1>4, FormSavesFit
<1>7. calls[1].do # "settings" /\ (~activate => ~Writes(calls))
  BY <1>2, <1>3, <1>4, FormSavesWrite
<1>8. activate => Unsettled = {}
  BY <1>1, Uncrossed
<1>9. Writes(calls) => Unsettled = {}
  BY <1>7, <1>8
<1> QED BY <1>1, <1>5, <1>6, <1>7, <1>9, StartedQuiet

LEMMA UserKeepsChoices ==
  ASSUME LibraryInd, ChoiceInd, UserStep, ~overlapped'
  PROVE  ChoiceInd'
<1>1. ASSUME NEW t \in Themes, ChangeTheme(t) PROVE ChoiceInd'
  BY <1>1, ThemeKeepsChoices
<1>2. ASSUME NEW forms, TurnForm(forms) PROVE ChoiceInd'
  <2>1. UNCHANGED <<settings, snapshot, waiting, outbox, intent, todo, payload, origin, inbox>>
    BY <1>2 DEF TurnForm, Click, storeVars
  <2>2. Seen' /\ WaitsFresh' /\ RepliesFresh'
    BY <2>1, FirstsStay DEF Idle
  <2>3. OneWriter' /\ Wirings'
    BY <2>1 DEF ChoiceInd, OneWriter, Wirings, Unsettled
  <2>4. PagesSend' /\ ChainSends' /\ ChainEnds' /\ Settled'
    <3>1. \A g \in Flows \ {} :
            todo'[g] = todo[g] /\ payload'[g] = payload[g] /\ (Asks(g)' <=> Asks(g))
      BY <2>1 DEF Asks
    <3>2. {} \in SUBSET Pages
      OBVIOUS
    <3> QED BY <2>1, <3>1, <3>2, QuietKeeps
  <2> QED BY <2>2, <2>3, <2>4 DEF ChoiceInd
<1>3. ASSUME NEW f \in Pages, ChangeEngineMode(f) \/ ClearSlot(f) PROVE ChoiceInd'
  <2>1. ASSUME NEW mode \in EngineModes, ChangeSetting(f, "engine_mode", mode) PROVE ChoiceInd'
    BY <2>1, SettingKeepsChoices DEF Sets
  <2>2. ASSUME NEW cap \in Capabilities, ChangeSetting(f, cap, None) PROVE ChoiceInd'
    BY <2>2, SettingKeepsChoices DEF Sets
  <2> QED BY <1>3, <2>1, <2>2 DEF ChangeEngineMode, ClearSlot
<1>4. ASSUME NEW f \in Pages, NEW c \in Configs, SetActive(f, c) PROVE ChoiceInd'
  <2> PICK cap : cap = snapshot.config[c].capability
    OBVIOUS
  <2>1. cap \in Capabilities /\ ChangeSetting(f, cap, c)
    BY <1>4, SnapshotShape DEF SetActive, Cards, Rows
  <2>2. Set(cap, c) \in Sets
    BY <2>1 DEF Sets
  <2> QED BY <2>1, <2>2, SettingKeepsChoices
<1>5. ASSUME NEW f \in Pages, NEW c \in Configs, Reverify(f, c) PROVE ChoiceInd'
  <2> PICK calls : calls = <<Test(c, <<>>), Get("provider")>>
    OBVIOUS
  <2>1. /\ Click /\ snapshot # None /\ c \in Existing(snapshot.config)
        /\ UNCHANGED intent /\ Start(f, calls, c)
    BY <1>5 DEF Reverify, Click, Cards
  <2>2. Fits(f, calls, c, minted)
    BY <2>1, SnapshotShape, Shapes
  <2>3. /\ \A i \in DOMAIN calls : calls[i].do \in {"test", "get"} /\ (calls[i].do = "get" => calls[i] = Get("provider"))
        /\ calls[1].do = "test"
    BY DEF Test, Get
  <2>4. ~Writes(calls)
    BY <2>3 DEF Writes, Get, MicReasons
  <2>5. \A i \in DOMAIN calls : calls[i].do # "activate" /\ calls[i].do # "settings"
    BY <2>3
  <2> QED BY <2>1, <2>2, <2>3, <2>4, <2>5, StartedQuiet
<1>6. ASSUME NEW f \in Pages, NEW c \in Configs, SwitchModel(f, c) PROVE ChoiceInd'
  <2> PICK row : row = snapshot.config[c]
    OBVIOUS
  <2> PICK req : req = [capability |-> row.capability,
                        is_default |-> row.capability = "omni" /\ row.is_default, key |-> None]
    OBVIOUS
  <2> PICK calls : calls = <<Save(c, req), Test(c, <<Get("provider")>>), Get("provider")>>
    OBVIOUS
  <2>1. /\ Click /\ snapshot # None /\ c \in Existing(snapshot.config)
        /\ UNCHANGED intent /\ Start(f, calls, c)
    BY <1>6 DEF SwitchModel, Click, Cards
  <2>2. c \in minted /\ row \in Rows
    BY <2>1, SnapshotShape
  <2>3. Fits(f, calls, c, minted)
    <3>1. req \in Requests
      BY <2>2 DEF Rows, Requests
    <3> QED BY <2>2, <3>1, NoneAssumption, SavesFit
  <2>4. /\ \A i \in DOMAIN calls :
             calls[i].do \in {"save", "test", "get"} /\ (calls[i].do = "get" => calls[i] = Get("provider"))
        /\ calls[1].do = "save"
    BY DEF Save, Test, Get
  <2>5. ~Writes(calls)
    BY <2>4 DEF Writes, Get, MicReasons
  <2>6. \A i \in DOMAIN calls : calls[i].do # "activate" /\ calls[i].do # "settings"
    BY <2>4
  <2> QED BY <2>1, <2>3, <2>4, <2>5, <2>6, StartedQuiet
<1>7. ASSUME NEW f \in Pages, NEW c \in Configs, RemoveConfig(f, c) PROVE ChoiceInd'
  <2> PICK calls : calls = <<Delete(c), Get("provider")>>
    OBVIOUS
  <2>1. Click /\ UNCHANGED intent /\ Start(f, calls, None)
    BY <1>7 DEF RemoveConfig
  <2>2. Fits(f, calls, None, minted)
    BY Shapes
  <2>3. /\ \A i \in DOMAIN calls :
             calls[i].do \in {"delete", "get"} /\ (calls[i].do = "get" => calls[i] = Get("provider"))
        /\ calls[1].do = "delete"
    BY DEF Delete, Get
  <2>4. ~Writes(calls)
    BY <2>3 DEF Writes, Get, MicReasons
  <2>5. \A i \in DOMAIN calls : calls[i].do # "activate" /\ calls[i].do # "settings"
    BY <2>3
  <2> QED BY <2>1, <2>2, <2>3, <2>4, <2>5, StartedQuiet
<1>8. ASSUME NEW f \in Pages, NEW cap \in Capabilities, NEW key \in Keys \cup {None},
             NEW activate \in BOOLEAN, SaveForm(f, cap, key, activate)
      PROVE  ChoiceInd'
  BY <1>8, SaveFormKeepsChoices
<1>9. ASSUME NEW f \in Pages, NEW reason \in {"voice-terminal", "permissions"}, Refresh(f, reason)
       PROVE  ChoiceInd'
  <2> PICK calls : calls = <<Get(reason)>>
    OBVIOUS
  <2>1. /\ Click /\ UNCHANGED intent /\ Start(f, calls, None)
        /\ reason \in MicReasons => Crossing({})
    BY <1>9 DEF Refresh
  <2>2. Fits(f, calls, None, minted)
    BY Shapes DEF Reasons
  <2>3. DOMAIN calls = {1} /\ calls[1].do = "get" /\ calls[1].reason = reason
    BY DEF Get
  <2>4. Writes(calls) => Unsettled = {}
    BY <2>1, <2>3, Uncrossed DEF Writes
  <2>5. \A i \in DOMAIN calls : calls[i].do # "activate" /\ calls[i].do # "settings"
    BY <2>3
  <2> QED BY <2>1, <2>2, <2>3, <2>4, <2>5, StartedQuiet
<1> QED BY <1>1, <1>2, <1>3, <1>4, <1>5, <1>6, <1>7, <1>8, <1>9 DEF UserStep

LEMMA ChoicesStart ==
  ASSUME Init
  PROVE  ChoiceInd
<1>1. PICK f \in Pages :
        \/ /\ snapshot = None
           /\ todo = [g \in Flows |-> IF g = f THEN <<Get("initial")>> ELSE <<>>]
           /\ inbox = <<f>>
        \/ /\ snapshot = ModelNow
           /\ todo = [g \in Flows |-> <<>>]
           /\ inbox = <<>>
  BY DEF Init
<1>2. intent = settings /\ waiting = {} /\ outbox = <<>>
  BY DEF Init
<1>3. f \in Flows /\ f # Chrome /\ Chrome \in Flows
  BY ChromeAssumption DEF Flows
<1>4. \A g \in Flows :
        /\ g # f => todo[g] = <<>>
        /\ \A i \in DOMAIN todo[g] : i = 1 /\ todo[g][i].do = "get"
  <2>1. Get("initial").do = "get"
    BY DEF Get
  <2>2. \A g \in Flows : todo[g] = <<>> \/ (g = f /\ todo[g] = <<Get("initial")>>)
    BY <1>1
  <2>3. \A i \in DOMAIN <<Get("initial")>> : i = 1 /\ <<Get("initial")>>[i].do = "get"
    BY <2>1
  <2> QED BY <2>2, <2>3
<1>5. \A g \in Flows : ~Setting(g) /\ ~Sent(g)
  <2>1. \A g \in Flows : todo[g] = <<>> \/ (g = f /\ todo[g] = <<Get("initial")>>)
    BY <1>1
  <2>2. <<Get("initial")>>[1].do = "get"
    BY DEF Get
  <2> QED BY <2>1, <2>2 DEF Setting, Sent, Idle
<1>6. OneWriter
  <2>1. \A g \in Flows : g # f => g \notin Unsettled
    BY <1>4, WritersWrite, NoneWrites
  <2> QED BY <2>1 DEF OneWriter, Unsettled
<1>7. Wirings
  <2>1. Pages \subseteq Flows
    BY DEF Flows
  <2> QED BY <1>4, <2>1 DEF Wirings
<1>8. ~Chained
  <2>1. todo[Chrome] = <<>> /\ Len(<<>>) = 0
    BY <1>3, <1>4
  <2> QED BY <1>3, <1>5, <2>1 DEF Chained
<1>9. PagesSend /\ ChainSends /\ ChainEnds /\ Settled
  <2>1. Pages \subseteq Flows
    BY DEF Flows
  <2> QED BY <1>2, <1>3, <1>5, <1>8, <2>1 DEF PagesSend, ChainSends, ChainEnds, Settled
<1>10. Seen
  <2>1. ModelNow.settings = settings
    BY DEF ModelNow
  <2> QED BY <1>1, <2>1 DEF Seen
<1>11. WaitsFresh /\ RepliesFresh
  BY <1>2 DEF WaitsFresh, RepliesFresh
<1> QED BY <1>6, <1>7, <1>9, <1>10, <1>11 DEF ChoiceInd

LEMMA ChoicesSame ==
  ASSUME ChoiceInd, UNCHANGED vars
  PROVE  ChoiceInd'
<1> USE DEF vars, storeVars, uiVars, historyVars, flowVars
<1>1. /\ \A f \in Flows : (Sent(f)' <=> Sent(f)) /\ (Setting(f)' <=> Setting(f)) /\ (Behind(f)' <=> Behind(f))
      /\ Chained' <=> Chained
      /\ LastTheme' = LastTheme /\ Unsettled' = Unsettled
      /\ Chrome \in Flows /\ Pages \subseteq Flows
  BY DEF Sent, Setting, Behind, Rereading, Asks, Told, Idle, Chained, LastTheme, Unsettled, Flows
<1>2. OneWriter' /\ Wirings' /\ WaitsFresh' /\ Seen'
  BY <1>1 DEF ChoiceInd, OneWriter, Wirings, WaitsFresh, Seen
<1>3. PagesSend' /\ ChainSends' /\ ChainEnds' /\ Settled'
  BY <1>1 DEF ChoiceInd, PagesSend, ChainSends, ChainEnds, Settled
<1>4. RepliesFresh'
  BY DEF ChoiceInd, RepliesFresh, Stale, Setting, Idle
<1> QED BY <1>2, <1>3, <1>4 DEF ChoiceInd

LEMMA HistoryGrows ==
  ASSUME LibraryInd, [Next]_vars
  PROVE  (~failed' => ~failed) /\ (~overlapped' => ~overlapped)
<1>1. CASE UNCHANGED vars
  BY <1>1 DEF vars, historyVars
<1>2. CASE MainReceives
  BY <1>2 DEF MainReceives, HandleSettings, HandleSave, HandleDelete, HandleTest, HandleGet, CallFails
<1>3. CASE RendererReceives
  BY <1>3 DEF RendererReceives, historyVars
<1>4. ASSUME NEW f \in Flows, AwaitEnds(f) PROVE (~failed' => ~failed) /\ (~overlapped' => ~overlapped)
  <2>1. CASE TestEnds(f)
    BY <2>1 DEF TestEnds, historyVars
  <2>2. CASE EnumerationEnds(f)
    BY <2>2 DEF EnumerationEnds, historyVars
  <2>3. CASE AwaitFails(f)
    BY <2>3 DEF AwaitFails, CallFails
  <2> QED BY <1>4, <2>1, <2>2, <2>3 DEF AwaitEnds
<1>5. ASSUME NEW f \in Pages, NEW g \in Pages, VerifyTimesOut(f, g)
      PROVE (~failed' => ~failed) /\ (~overlapped' => ~overlapped)
  BY <1>5 DEF VerifyTimesOut, historyVars
<1>6. CASE UserStep
  <2>1. UNCHANGED failed /\ (UNCHANGED overlapped \/ \E S : Crossing(S))
    BY <1>6 DEF UserStep, ChangeTheme, TurnForm, ChangeEngineMode, ClearSlot, SetActive, ChangeSetting,
                Reverify, SwitchModel, RemoveConfig, SaveForm, Refresh, Click
  <2>2. ASSUME NEW S, Crossing(S), ~overlapped' PROVE ~overlapped
    BY <2>2, Uncrossed
  <2> QED BY <2>1, <2>2
<1> QED BY <1>1, <1>2, <1>3, <1>4, <1>5, <1>6 DEF Next

LEMMA ChoicesStep ==
  ASSUME LibraryInd, ChoicesKept, [Next]_vars
  PROVE  ChoicesKept'
<1> SUFFICES ASSUME ~failed', ~overlapped' PROVE ChoiceInd'
  BY DEF ChoicesKept
<1>1. ~failed /\ ~overlapped /\ ChoiceInd
  BY HistoryGrows DEF ChoicesKept
<1> QED BY <1>1, ChoicesSame, MainKeepsChoices, ReplyKeepsChoices, AwaitKeepsChoices, TimeoutKeepsChoices,
           UserKeepsChoices DEF Next

(* While no call failed and no two flows crossed, what each flow is about   *)
(* to send, is sending or has been answered agrees with the user's choices. *)
THEOREM ChoicesInductive == Spec => []ChoicesKept
<1>1. Init => ChoicesKept
  BY ChoicesStart DEF ChoicesKept
<1>2. LibraryInd /\ ChoicesKept /\ [Next]_vars => ChoicesKept'
  BY ChoicesStep
<1> QED BY <1>1, <1>2, LibraryInductive, PTL DEF Spec

(* A setting the user chose, a theme on the chain among them, is what the   *)
(* store and the window end up with, unless a call failed or two flows      *)
(* crossed: mutateAppSettings never sends back what it did not mean to.     *)
THEOREM ChoiceIsKept == Spec => []ChosenIsKept
<1>1. LibraryInd /\ ChoicesKept => ChosenIsKept
  <2> SUFFICES ASSUME LibraryInd, ChoicesKept, Rest, ~failed, ~overlapped
               PROVE  settings = intent /\ (snapshot # None => snapshot.settings = settings)
    BY DEF ChosenIsKept
  <2>1. ChoiceInd
    BY DEF ChoicesKept
  <2>2. \A f \in Flows : Idle(f)
    BY DEF Rest, Busy
  <2>3. Unsettled = {}
    BY <2>2, WritersWrite, NoneWrites DEF Idle
  <2> QED BY <2>1, <2>3, NothingUnsettled
<1> QED BY <1>1, LibraryInductive, ChoicesInductive, PTL
=============================================================================
