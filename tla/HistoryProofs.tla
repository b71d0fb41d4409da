---------------------------- MODULE HistoryProofs ----------------------------
(***************************************************************************)
(* What HistoryPage promises, for any records and any number of messages on *)
(* their way: a row is hidden exactly while its delete is under way, the    *)
(* page catches up with the store, and only a delete that is still wanted   *)
(* reaches it.                                                              *)
(***************************************************************************)
EXTENDS HistoryPage, TLAPS

Causes == Records \cup {"voice", "permissions", "clear"}

Requests ==
  ({"delete"} \X Records) \cup {<<"clear", "clear">>} \cup ({"fetch"} \X Causes)

Replies ==
  {reply \in [kind : {"model", "noModel", "done", "failed"}, cause : Causes,
              rows : SUBSET Records] :
     reply.kind \in {"done", "failed"} => reply.cause \in Records \cup {"clear"}}

PageTypeOK ==
  /\ rows \subseteq Records /\ made \subseteq Records
  /\ model \subseteq Records /\ removed \subseteq Records
  /\ deletion \in [Records -> {"none", "undoable", "calling"}]
  /\ offer \subseteq Records
  /\ clearing \in {"none", "confirm", "calling"}
  /\ toMain \in Seq(Requests) /\ toPage \in Seq(Replies)
  /\ enumerating \subseteq SUBSET Records
  /\ wanted \in [Records -> {"keep", "delete"}]
  /\ outdated \in BOOLEAN

(* A record's delete is one request or one reply at a time, from the call to *)
(* the refresh that follows it; nothing of it is on its way otherwise.      *)
On(causes, r) == \E i \in DOMAIN causes : causes[i] = r
Once(causes, r) == \A i, j \in DOMAIN causes : causes[i] = r /\ causes[j] = r => i = j

Asking == [i \in DOMAIN toMain |-> toMain[i][2]]
Answering == [i \in DOMAIN toPage |-> toPage[i].cause]

OneCall(r) ==
  /\ Once(Asking, r) /\ Once(Answering, r)
  /\ ~(On(Asking, r) /\ On(Answering, r))
  /\ deletion[r] = "calling" <=> On(Asking, r) \/ On(Answering, r)

CallsMatch ==
  \A r \in Records :
    /\ OneCall(r)
    /\ r \in removed <=> deletion[r] # "none"
    /\ deletion[r] # "none" => wanted[r] = "delete"

(* What was read of the store was read of records dictated by then.         *)
ReadsAreOld ==
  /\ rows \subseteq made
  /\ \A i \in DOMAIN toPage : toPage[i].rows \subseteq made
  /\ \A read \in enumerating : read \subseteq made

(* A reply that brings the page to the store, or tells it that it is not.   *)
Brings(reply) ==
  reply.kind \in {"done", "noModel"} \/ (reply.kind = "model" /\ reply.rows = rows)

Reading == \E j \in DOMAIN toMain : toMain[j][1] = "fetch" /\ toMain[j][2] # "permissions"

Coming(i) == Reading \/ \E j \in DOMAIN toPage : j > i /\ Brings(toPage[j])

(* The page has the stored records, or something is coming that will tell it *)
(* of them, or it is known to be outdated.  A reply that is itself no longer *)
(* true has such a thing behind it, or the page stays outdated to its end.  *)
CatchesUp == outdated \/ model = rows \/ Coming(0)

StaleUntil(i) ==
  /\ outdated
  /\ \A j \in DOMAIN toPage :
       j <= i /\ toPage[j].kind = "model" => toPage[j].rows # rows

RepliesCatchUp ==
  \A i \in DOMAIN toPage :
    toPage[i].kind = "model" /\ toPage[i].cause # "permissions" =>
      toPage[i].rows = rows \/ Coming(i) \/ StaleUntil(i)

PageInd == PageTypeOK /\ CallsMatch /\ ReadsAreOld /\ CatchesUp /\ RepliesCatchUp

-----------------------------------------------------------------------------
(* Queues.                                                                  *)
Pushed(s, t, m) ==
  /\ Len(s) \in Nat /\ Len(t) = Len(s) + 1
  /\ DOMAIN s = 1 .. Len(s) /\ DOMAIN t = 1 .. Len(t)
  /\ t[Len(t)] = m /\ \A i \in 1 .. Len(s) : t[i] = s[i]

Popped(s, t) ==
  /\ Len(s) \in Nat \ {0} /\ Len(t) = Len(s) - 1
  /\ DOMAIN s = 1 .. Len(s) /\ DOMAIN t = 1 .. Len(t)
  /\ \A i \in 1 .. Len(t) : t[i] = s[i + 1]

LEMMA Pushing ==
  ASSUME NEW S, NEW s \in Seq(S), NEW m \in S
  PROVE  Append(s, m) \in Seq(S) /\ Pushed(s, Append(s, m), m)
BY DEF Pushed

LEMMA Popping ==
  ASSUME NEW S, NEW s \in Seq(S), s # <<>>
  PROVE  Tail(s) \in Seq(S) /\ Popped(s, Tail(s)) /\ Head(s) = s[1] /\ s[1] \in S
BY DEF Popped

LEMMA PoppedAt ==
  ASSUME NEW s, NEW t, Popped(s, t)
  PROVE  /\ \A i \in DOMAIN t : i + 1 \in DOMAIN s /\ t[i] = s[i + 1] /\ i \in Nat /\ i >= 1
         /\ \A i \in DOMAIN s : i # 1 => i - 1 \in DOMAIN t /\ t[i - 1] = s[i]
         /\ 1 \in DOMAIN s /\ \A i \in DOMAIN s : i \in Nat /\ i >= 1
<1> USE DEF Popped
<1>1. ASSUME NEW i \in DOMAIN t
      PROVE  i + 1 \in DOMAIN s /\ t[i] = s[i + 1] /\ i \in Nat /\ i >= 1
  OBVIOUS
<1>2. ASSUME NEW i \in DOMAIN s, i # 1 PROVE i - 1 \in DOMAIN t /\ t[i - 1] = s[i]
  <2>1. i - 1 \in DOMAIN t /\ (i - 1) + 1 = i
    BY <1>2
  <2> QED BY <1>1, <2>1
<1> QED BY <1>1, <1>2

LEMMA PushedAt ==
  ASSUME NEW s, NEW t, NEW m, Pushed(s, t, m)
  PROVE  /\ \A i \in DOMAIN t :
              i \in Nat /\ ((i \in DOMAIN s /\ t[i] = s[i]) \/ (i = Len(t) /\ t[i] = m))
         /\ \A i \in DOMAIN s : i \in DOMAIN t /\ t[i] = s[i] /\ i < Len(t)
         /\ Len(t) \in DOMAIN t /\ t[Len(t)] = m
<1> USE DEF Pushed
<1>1. ASSUME NEW i \in DOMAIN t
      PROVE  i \in Nat /\ ((i \in DOMAIN s /\ t[i] = s[i]) \/ (i = Len(t) /\ t[i] = m))
  <2>1. CASE i = Len(t)
    BY <2>1
  <2>2. CASE i # Len(t)
    <3>1. i \in 1 .. Len(s)
      BY <2>2
    <3>2. i \in Nat
      BY <3>1
    <3>3. i \in DOMAIN s /\ t[i] = s[i]
      BY <3>1
    <3> HIDE DEF Pushed
    <3> QED BY <3>2, <3>3
  <2> QED BY <2>1, <2>2
<1>2. ASSUME NEW i \in DOMAIN s PROVE i \in DOMAIN t /\ t[i] = s[i] /\ i < Len(t)
  OBVIOUS
<1>3. Len(t) \in DOMAIN t /\ t[Len(t)] = m
  OBVIOUS
<1> QED BY <1>1, <1>2, <1>3

-----------------------------------------------------------------------------
(* Types.                                                                   *)
LEMMA CausesApart == Records \cap {"voice", "permissions", "clear"} = {}
BY PageAssumption

LEMMA TypeInit ==
  ASSUME Init
  PROVE  PageTypeOK
<1>1. toMain \in Seq(Requests) /\ toPage \in Seq(Replies)
  BY DEF Init
<1> QED BY <1>1, PageAssumption DEF Init, PageTypeOK

LEMMA Replying ==
  ASSUME PageTypeOK, NEW kind \in {"model", "noModel", "done", "failed"}, NEW cause \in Causes,
         NEW records \in SUBSET Records, Reply(kind, cause, records),
         kind \in {"done", "failed"} => cause \in Records \cup {"clear"}
  PROVE  /\ toPage' \in Seq(Replies)
         /\ Pushed(toPage, toPage', [kind |-> kind, cause |-> cause, rows |-> records])
<1> DEFINE reply == [kind |-> kind, cause |-> cause, rows |-> records]
<1>1. reply \in Replies
  BY DEF Replies
<1>2. toPage \in Seq(Replies) /\ toPage' = Append(toPage, reply)
  BY DEF PageTypeOK, Reply
<1> HIDE DEF reply
<1>3. toPage' \in Seq(Replies) /\ Pushed(toPage, toPage', reply)
  BY <1>1, <1>2, Pushing
<1> QED BY <1>3 DEF reply

LEMMA AskingFor ==
  ASSUME PageTypeOK, NEW request \in Requests, Ask(request)
  PROVE  toMain' \in Seq(Requests) /\ Pushed(toMain, toMain', request)
BY Pushing DEF Ask, PageTypeOK

LEMMA RequestShape ==
  ASSUME NEW request \in Requests
  PROVE  /\ request = <<request[1], request[2]>>
         /\ \/ request[1] = "delete" /\ request[2] \in Records
            \/ request[1] = "clear" /\ request[2] = "clear"
            \/ request[1] = "fetch" /\ request[2] \in Causes
BY DEF Requests

LEMMA ReplyShape ==
  ASSUME NEW reply \in Replies
  PROVE  /\ reply.kind \in {"model", "noModel", "done", "failed"}
         /\ reply.cause \in Causes /\ reply.rows \subseteq Records
         /\ reply.kind \in {"done", "failed"} => reply.cause \in Records \cup {"clear"}
BY DEF Replies

(* The kinds of step, by what they do to the store, the messages and the    *)
(* deletes.                                                                 *)
Untouched(r) ==
  deletion'[r] = deletion[r] /\ (r \in removed' <=> r \in removed) /\ wanted'[r] = wanted[r]

Idles ==
  /\ UNCHANGED <<rows, made, model, wireVars, outdated>>
  /\ \A r \in Records :
       \/ Untouched(r)
       \/ /\ deletion[r] = "none" /\ deletion'[r] = "undoable"
          /\ r \in removed' /\ wanted'[r] = "delete"
       \/ /\ deletion[r] = "undoable" /\ deletion'[r] = "none"
          /\ r \notin removed'

Commits(r) ==
  /\ UNCHANGED <<rows, made, model, removed, toPage, enumerating, wanted, outdated>>
  /\ deletion[r] = "undoable" /\ deletion' = [deletion EXCEPT ![r] = "calling"]
  /\ Pushed(toMain, toMain', <<"delete", r>>)

AddsRow ==
  \E r \in Records : r \notin made /\ rows' = rows \cup {r} /\ made' = made \cup {r}

AsksFor(kind, cause) ==
  /\ UNCHANGED <<model, removed, deletion, toPage, enumerating, wanted, outdated>>
  /\ Pushed(toMain, toMain', <<kind, cause>>)
  /\ cause \in {"voice", "permissions", "clear"}
  /\ UNCHANGED <<rows, made>> \/ (AddsRow /\ kind = "fetch" /\ cause = "voice")

RecordsQuietly ==
  /\ AddsRow /\ outdated' = TRUE
  /\ UNCHANGED <<model, removed, deletion, wireVars, wanted>>

Answers(reply) ==
  /\ UNCHANGED <<made, model, removed, deletion, enumerating, wanted, outdated>>
  /\ toMain # <<>> /\ Popped(toMain, toMain')
  /\ Pushed(toPage, toPage', reply) /\ reply.cause = toMain[1][2]
  /\ reply.rows \in {{}, rows}
  /\ \/ toMain[1][1] # "fetch" /\ reply.kind = "failed" /\ rows' = rows
     \/ /\ toMain[1][1] # "fetch" /\ reply.kind = "done"
        /\ \/ toMain[1] = <<"delete", reply.cause>> /\ rows' = rows \ {reply.cause}
           \/ toMain[1][1] = "clear" /\ rows' = {}
     \/ /\ toMain[1][1] = "fetch" /\ rows' = rows
        /\ reply.kind = "noModel" \/ (reply.kind = "model" /\ reply.rows = rows)

Enumerates ==
  /\ UNCHANGED <<rows, made, model, removed, deletion, toPage, wanted, outdated>>
  /\ toMain # <<>> /\ Popped(toMain, toMain') /\ toMain[1] = <<"fetch", "permissions">>
  /\ enumerating' = {rows}

Lists(reply) ==
  /\ UNCHANGED <<rows, made, model, removed, deletion, toMain, wanted, outdated>>
  /\ Pushed(toPage, toPage', reply) /\ enumerating' = {}
  /\ reply.kind = "model" /\ reply.cause = "permissions" /\ reply.rows \in enumerating

Receives ==
  /\ UNCHANGED <<rows, made, enumerating>>
  /\ toPage # <<>> /\ Popped(toPage, toPage') /\ Head(toPage) = toPage[1]

Frees(cause) ==
  \A r \in Records :
    IF r = cause THEN deletion'[r] = "none" /\ r \notin removed' ELSE Untouched(r)

Lands(reply) ==
  /\ Receives /\ reply = toPage[1] /\ UNCHANGED toMain
  /\ Frees(reply.cause)
  /\ \/ /\ reply.kind = "model" /\ model' = reply.rows
        /\ outdated' = (model' # rows /\ (outdated \/ reply.cause = "permissions"))
     \/ reply.kind = "noModel" /\ model' = model /\ outdated' = TRUE
     \/ reply.kind = "failed" /\ UNCHANGED <<model, outdated>>

Refetches(reply) ==
  /\ Receives /\ reply = toPage[1] /\ reply.kind = "done"
  /\ reply.cause # "permissions"
  /\ Pushed(toMain, toMain', <<"fetch", reply.cause>>)
  /\ UNCHANGED <<model, removed, deletion, wanted, outdated>>

Sorts ==
  \/ Idles
  \/ \E r \in Records : Commits(r)
  \/ \E kind, cause \in {"fetch", "clear", "voice", "permissions"} : AsksFor(kind, cause)
  \/ RecordsQuietly
  \/ \E reply \in Replies : Answers(reply) \/ Lists(reply) \/ Lands(reply) \/ Refetches(reply)
  \/ Enumerates
  \/ PageEnds

LEMMA PageSteps ==
  ASSUME PageTypeOK, [Next]_vars
  PROVE  PageTypeOK' /\ Sorts
<1> USE DEF pageVars, wireVars
<1>1. CASE UNCHANGED vars
  <2>1. Idles
    BY <1>1 DEF Idles, vars, Untouched
  <2> QED BY <1>1, <2>1 DEF vars, PageTypeOK, Sorts
<1>2. ASSUME NEW r \in Records, Dictate(r) PROVE PageTypeOK' /\ Sorts
  <2>1. AddsRow /\ UNCHANGED <<model, removed, deletion, offer, clearing, toPage, enumerating, wanted>>
    BY <1>2 DEF Dictate, AddsRow
  <2>2. rows' \subseteq Records /\ made' \subseteq Records
    BY <1>2 DEF Dictate, PageTypeOK
  <2>3. CASE Ask(<<"fetch", "voice">>) /\ UNCHANGED outdated
    <3>1. <<"fetch", "voice">> \in Requests
      BY DEF Requests, Causes
    <3>2. toMain' \in Seq(Requests) /\ Pushed(toMain, toMain', <<"fetch", "voice">>)
      BY <2>3, <3>1, AskingFor
    <3>3. AsksFor("fetch", "voice")
      BY <2>1, <2>3, <3>2 DEF AsksFor
    <3> QED BY <2>1, <2>2, <2>3, <3>2, <3>3 DEF PageTypeOK, Sorts
  <2>4. CASE UNCHANGED toMain /\ outdated' = TRUE
    <3>1. RecordsQuietly
      BY <2>1, <2>4 DEF RecordsQuietly
    <3> QED BY <2>1, <2>2, <2>4, <3>1 DEF PageTypeOK, Sorts
  <2> QED BY <1>2, <2>3, <2>4 DEF Dictate
<1>3. ASSUME NEW r \in Records, DeleteRow(r) PROVE PageTypeOK' /\ Sorts
  <2>1. Idles
    BY <1>3 DEF DeleteRow, Idles, Untouched, Deletes, Wants, PageTypeOK
  <2>2. PageTypeOK'
    BY <1>3 DEF DeleteRow, Deletes, Wants, PageTypeOK
  <2> QED BY <2>1, <2>2 DEF Sorts
<1>4. ASSUME NEW r \in Records, Undo(r) PROVE PageTypeOK' /\ Sorts
  <2>1. Idles
    BY <1>4 DEF Undo, Idles, Untouched, Deletes, Wants, PageTypeOK
  <2>2. PageTypeOK'
    BY <1>4 DEF Undo, Deletes, Wants, PageTypeOK
  <2> QED BY <2>1, <2>2 DEF Sorts
<1>5. ASSUME NEW r \in Records, Expire(r) PROVE PageTypeOK' /\ Sorts
  <2>1. <<"delete", r>> \in Requests
    BY DEF Requests
  <2>2. toMain' \in Seq(Requests) /\ Pushed(toMain, toMain', <<"delete", r>>)
    BY <1>5, <2>1, AskingFor DEF Expire
  <2>3. Commits(r)
    BY <1>5, <2>2 DEF Expire, Commits, Deletes
  <2>4. PageTypeOK'
    BY <1>5, <2>2 DEF Expire, Deletes, PageTypeOK
  <2> QED BY <2>3, <2>4 DEF Sorts
<1>6. ASSUME NEW r \in Records, AlertExpires(r) PROVE PageTypeOK' /\ Sorts
  <2>1. Idles
    BY <1>6 DEF AlertExpires, Idles, Untouched
  <2>2. PageTypeOK'
    BY <1>6 DEF AlertExpires, PageTypeOK
  <2> QED BY <2>1, <2>2 DEF Sorts
<1>7. ASSUME AskToClear PROVE PageTypeOK' /\ Sorts
  <2>1. Idles
    BY <1>7 DEF AskToClear, Idles, Untouched
  <2>2. PageTypeOK'
    BY <1>7 DEF AskToClear, PageTypeOK
  <2> QED BY <2>1, <2>2 DEF Sorts
<1>8. ASSUME AnswerClear PROVE PageTypeOK' /\ Sorts
  <2>1. CASE clearing' = "none" /\ UNCHANGED toMain
    <3>1. Idles
      BY <1>8, <2>1 DEF AnswerClear, Idles, Untouched
    <3> QED BY <1>8, <2>1, <3>1 DEF AnswerClear, PageTypeOK, Sorts
  <2>2. CASE clearing' = "calling" /\ Ask(<<"clear", "clear">>)
    <3>1. <<"clear", "clear">> \in Requests
      BY DEF Requests
    <3>2. toMain' \in Seq(Requests) /\ Pushed(toMain, toMain', <<"clear", "clear">>)
      BY <2>2, <3>1, AskingFor
    <3>3. AsksFor("clear", "clear")
      BY <1>8, <3>2 DEF AnswerClear, AsksFor
    <3> QED BY <1>8, <2>2, <3>2, <3>3 DEF AnswerClear, PageTypeOK, Sorts
  <2> QED BY <1>8, <2>1, <2>2 DEF AnswerClear
<1>9. ASSUME RefreshSlowly PROVE PageTypeOK' /\ Sorts
  <2>1. <<"fetch", "permissions">> \in Requests
    BY DEF Requests, Causes
  <2>2. toMain' \in Seq(Requests) /\ Pushed(toMain, toMain', <<"fetch", "permissions">>)
    BY <1>9, <2>1, AskingFor DEF RefreshSlowly
  <2>3. AsksFor("fetch", "permissions")
    BY <1>9, <2>2 DEF RefreshSlowly, AsksFor
  <2> QED BY <1>9, <2>2, <2>3 DEF RefreshSlowly, PageTypeOK, Sorts
<1>10. ASSUME MainHandles PROVE PageTypeOK' /\ Sorts
  <2>1. /\ toMain' \in Seq(Requests) /\ Popped(toMain, toMain') /\ toMain # <<>>
        /\ Head(toMain) = toMain[1] /\ toMain[1] \in Requests
        /\ UNCHANGED <<made, model, removed, deletion, offer, clearing, wanted, outdated>>
    BY <1>10, Popping DEF MainHandles, PageTypeOK
  <2>0. rows \subseteq Records
    BY DEF PageTypeOK
  <2>2. /\ toMain[1] = <<toMain[1][1], toMain[1][2]>> /\ toMain[1][2] \in Causes
        /\ toMain[1][1] = "delete" => toMain[1][2] \in Records
        /\ toMain[1][1] = "clear" => toMain[1][2] = "clear"
    BY <2>1, RequestShape DEF Causes
  <2>3. ASSUME NEW kind \in {"model", "noModel", "done", "failed"}, NEW records \in SUBSET Records,
               Reply(kind, toMain[1][2], records), rows' \subseteq Records, UNCHANGED enumerating,
               kind \in {"done", "failed"} => toMain[1][2] \in Records \cup {"clear"}
        PROVE  /\ PageTypeOK'
               /\ [kind |-> kind, cause |-> toMain[1][2], rows |-> records] \in Replies
               /\ Pushed(toPage, toPage', [kind |-> kind, cause |-> toMain[1][2], rows |-> records])
    <3>1. [kind |-> kind, cause |-> toMain[1][2], rows |-> records] \in Replies
      BY <2>2, <2>3 DEF Replies
    <3>2. /\ toPage' \in Seq(Replies)
          /\ Pushed(toPage, toPage', [kind |-> kind, cause |-> toMain[1][2], rows |-> records])
      BY <2>2, <2>3, Replying
    <3> QED BY <2>1, <2>3, <3>1, <3>2 DEF PageTypeOK
  <2>4. CASE MainDeletes
    <3>1. toMain[1] = <<"delete", toMain[1][2]>> /\ toMain[1][2] \in Records /\ UNCHANGED enumerating
      BY <2>1, <2>2, <2>4 DEF MainDeletes
    <3>2. CASE rows' = rows \ {toMain[1][2]} /\ Reply("done", toMain[1][2], {})
      <4> DEFINE reply == [kind |-> "done", cause |-> toMain[1][2], rows |-> {}]
      <4>1. PageTypeOK' /\ reply \in Replies /\ Pushed(toPage, toPage', reply)
        BY <2>0, <2>3, <3>1, <3>2
      <4>2. Answers(reply)
        BY <2>1, <3>1, <3>2, <4>1 DEF Answers
      <4> HIDE DEF reply
      <4> QED BY <4>1, <4>2 DEF Sorts
    <3>3. CASE UNCHANGED rows /\ Reply("failed", toMain[1][2], {})
      <4> DEFINE reply == [kind |-> "failed", cause |-> toMain[1][2], rows |-> {}]
      <4>1. PageTypeOK' /\ reply \in Replies /\ Pushed(toPage, toPage', reply)
        BY <2>0, <2>3, <3>1, <3>3
      <4>2. Answers(reply)
        BY <2>1, <3>1, <3>3, <4>1 DEF Answers
      <4> HIDE DEF reply
      <4> QED BY <4>1, <4>2 DEF Sorts
    <3> QED BY <2>1, <2>4, <3>2, <3>3 DEF MainDeletes
  <2>5. CASE MainClears
    <3>1. toMain[1][1] = "clear" /\ toMain[1][2] = "clear" /\ UNCHANGED enumerating
      BY <2>1, <2>2, <2>5 DEF MainClears
    <3>2. CASE rows' = {} /\ Reply("done", "clear", {})
      <4> DEFINE reply == [kind |-> "done", cause |-> toMain[1][2], rows |-> {}]
      <4>1. PageTypeOK' /\ reply \in Replies /\ Pushed(toPage, toPage', reply)
        BY <2>3, <3>1, <3>2
      <4>2. Answers(reply)
        BY <2>1, <3>1, <3>2, <4>1 DEF Answers
      <4> HIDE DEF reply
      <4> QED BY <4>1, <4>2 DEF Sorts
    <3>3. CASE UNCHANGED rows /\ Reply("failed", "clear", {})
      <4> DEFINE reply == [kind |-> "failed", cause |-> toMain[1][2], rows |-> {}]
      <4>1. PageTypeOK' /\ reply \in Replies /\ Pushed(toPage, toPage', reply)
        BY <2>0, <2>3, <3>1, <3>3
      <4>2. Answers(reply)
        BY <2>1, <3>1, <3>3, <4>1 DEF Answers
      <4> HIDE DEF reply
      <4> QED BY <4>1, <4>2 DEF Sorts
    <3> QED BY <2>5, <3>2, <3>3 DEF MainClears
  <2>6. CASE MainReads
    <3>1. toMain[1] = <<"fetch", toMain[1][2]>> /\ UNCHANGED rows
      BY <2>1, <2>2, <2>6 DEF MainReads
    <3>2. CASE Reply("model", toMain[1][2], rows) /\ UNCHANGED enumerating
      <4> DEFINE reply == [kind |-> "model", cause |-> toMain[1][2], rows |-> rows]
      <4>1. PageTypeOK' /\ reply \in Replies /\ Pushed(toPage, toPage', reply)
        BY <2>0, <2>3, <3>1, <3>2
      <4>2. Answers(reply)
        BY <2>1, <3>1, <3>2, <4>1 DEF Answers
      <4> HIDE DEF reply
      <4> QED BY <4>1, <4>2 DEF Sorts
    <3>3. CASE toMain[1][2] = "permissions" /\ enumerating' = {rows} /\ UNCHANGED toPage
      <4>1. Enumerates
        BY <2>1, <3>1, <3>3 DEF Enumerates
      <4>2. PageTypeOK'
        BY <2>1, <3>1, <3>3 DEF PageTypeOK
      <4> QED BY <4>1, <4>2 DEF Sorts
    <3>4. CASE Reply("noModel", toMain[1][2], {}) /\ UNCHANGED enumerating
      <4> DEFINE reply == [kind |-> "noModel", cause |-> toMain[1][2], rows |-> {}]
      <4>1. PageTypeOK' /\ reply \in Replies /\ Pushed(toPage, toPage', reply)
        BY <2>0, <2>3, <3>1, <3>4
      <4>2. Answers(reply)
        BY <2>1, <3>1, <3>4, <4>1 DEF Answers
      <4> HIDE DEF reply
      <4> QED BY <4>1, <4>2 DEF Sorts
    <3> QED BY <2>1, <2>6, <3>2, <3>3, <3>4 DEF MainReads
  <2> QED BY <1>10, <2>4, <2>5, <2>6 DEF MainHandles
<1>11. ASSUME MicrophonesListed PROVE PageTypeOK' /\ Sorts
  <2>1. PICK read \in enumerating : Reply("model", "permissions", read)
    BY <1>11 DEF MicrophonesListed
  <2> DEFINE reply == [kind |-> "model", cause |-> "permissions", rows |-> read]
  <2>2. read \in SUBSET Records
    BY DEF PageTypeOK
  <2>3. reply \in Replies
    BY <2>2 DEF Replies, Causes
  <2>4. toPage' \in Seq(Replies) /\ Pushed(toPage, toPage', reply)
    BY <2>1, <2>2, Replying DEF Causes
  <2>5. Lists(reply)
    BY <1>11, <2>4 DEF MicrophonesListed, Lists
  <2>6. PageTypeOK'
    BY <1>11, <2>4 DEF MicrophonesListed, PageTypeOK
  <2> HIDE DEF reply
  <2> QED BY <2>3, <2>5, <2>6 DEF Sorts
<1>12. ASSUME PageHandles PROVE PageTypeOK' /\ Sorts
  <2> DEFINE reply == toPage[1]
  <2>1. /\ toPage' \in Seq(Replies) /\ Receives /\ reply \in Replies /\ Head(toPage) = reply
        /\ UNCHANGED <<rows, made, offer, enumerating>>
    BY <1>12, Popping DEF PageHandles, PageTypeOK, Receives
  <2> HIDE DEF reply
  <2>2. /\ reply.cause \in Causes /\ reply.rows \subseteq Records
        /\ reply.kind \in {"done", "failed"} => reply.cause \in Records \cup {"clear"}
    BY <2>1, ReplyShape
  <2>3. reply = toPage[1]
    BY DEF reply
  <2>4. ASSUME Landed(reply.cause)
        PROVE  /\ UNCHANGED <<wanted, toMain>> /\ Frees(reply.cause)
               /\ clearing' \in {"none", "confirm", "calling"}
               /\ removed' \subseteq Records
               /\ deletion' \in [Records -> {"none", "undoable", "calling"}]
    BY <2>4 DEF Landed, Frees, Untouched, Deletes, PageTypeOK
  <2>5. CASE /\ reply.kind = "model" /\ model' = reply.rows
             /\ outdated' = (model' # rows /\ (outdated \/ reply.cause = "permissions"))
             /\ Landed(reply.cause)
    <3>1. Lands(reply)
      BY <2>1, <2>3, <2>4, <2>5 DEF Lands
    <3> QED BY <2>1, <2>2, <2>4, <2>5, <3>1 DEF PageTypeOK, Sorts
  <2>6. CASE reply.kind = "noModel" /\ model' = model /\ outdated' = TRUE /\ Landed(reply.cause)
    <3>1. Lands(reply)
      BY <2>1, <2>3, <2>4, <2>6 DEF Lands
    <3> QED BY <2>1, <2>2, <2>4, <2>6, <3>1 DEF PageTypeOK, Sorts
  <2>7. CASE reply.kind = "done" /\ Mutated(reply.cause)
    <3>1. <<"fetch", reply.cause>> \in Requests /\ reply.cause # "permissions"
      BY <2>2, <2>7, CausesApart DEF Requests
    <3>2. toMain' \in Seq(Requests) /\ Pushed(toMain, toMain', <<"fetch", reply.cause>>)
      BY <2>7, <3>1, AskingFor DEF Mutated
    <3>3. Refetches(reply)
      BY <2>1, <2>3, <2>7, <3>1, <3>2 DEF Refetches, Mutated
    <3> QED BY <2>1, <2>7, <3>2, <3>3 DEF Mutated, PageTypeOK, Sorts
  <2>8. CASE reply.kind = "failed" /\ reply.cause \in Records /\ DeleteFailed(reply.cause)
    <3>1. Frees(reply.cause)
      BY <2>8 DEF DeleteFailed, Frees, Untouched, Deletes, Wants, PageTypeOK
    <3>2. Lands(reply)
      BY <2>1, <2>3, <2>8, <3>1 DEF Lands, DeleteFailed
    <3> QED BY <2>1, <2>8, <3>2 DEF DeleteFailed, Deletes, Wants, PageTypeOK, Sorts
  <2>9. CASE /\ reply.kind = "failed" /\ reply.cause = "clear" /\ clearing' = "none"
             /\ UNCHANGED <<model, removed, deletion, wanted, outdated, toMain>>
    <3>1. Frees(reply.cause)
      BY <2>9, CausesApart DEF Frees, Untouched
    <3>2. Lands(reply)
      BY <2>1, <2>3, <2>9, <3>1 DEF Lands
    <3> QED BY <2>1, <2>9, <3>2 DEF PageTypeOK, Sorts
  <2> QED BY <1>12, <2>1, <2>5, <2>6, <2>7, <2>8, <2>9 DEF PageHandles
<1>13. ASSUME PageEnds PROVE PageTypeOK' /\ Sorts
  <2>1. toMain' \in Seq(Requests) /\ toPage' \in Seq(Replies)
    BY <1>13 DEF PageEnds
  <2> QED BY <1>13, <2>1 DEF PageEnds, PageTypeOK, Sorts
<1> QED BY <1>1, <1>2, <1>3, <1>4, <1>5, <1>6, <1>7, <1>8, <1>9, <1>10, <1>11, <1>12, <1>13 DEF Next

-----------------------------------------------------------------------------
(* The deletes and their calls.                                             *)
LEMMA PushedOn ==
  ASSUME NEW q, NEW t, NEW c, NEW r, Pushed(q, t, c)
  PROVE  /\ c # r => (On(t, r) <=> On(q, r)) /\ (Once(q, r) => Once(t, r))
         /\ c = r /\ ~On(q, r) => On(t, r) /\ Once(t, r)
<1>1. /\ \A i \in DOMAIN t : (i \in DOMAIN q /\ t[i] = q[i]) \/ (i = Len(t) /\ t[i] = c)
      /\ \A i \in DOMAIN q : i \in DOMAIN t /\ t[i] = q[i]
      /\ Len(t) \in DOMAIN t /\ t[Len(t)] = c
  BY PushedAt
<1> QED BY <1>1 DEF On, Once

LEMMA PoppedOn ==
  ASSUME NEW q, NEW t, NEW r, Popped(q, t)
  PROVE  /\ q[1] # r => (On(t, r) <=> On(q, r))
         /\ Once(q, r) => Once(t, r)
         /\ q[1] = r => On(q, r)
         /\ q[1] = r /\ Once(q, r) => ~On(t, r)
<1>1. /\ \A i \in DOMAIN t : i + 1 \in DOMAIN q /\ t[i] = q[i + 1] /\ i \in Nat /\ i >= 1
      /\ \A i \in DOMAIN q : i # 1 => i - 1 \in DOMAIN t /\ t[i - 1] = q[i]
      /\ 1 \in DOMAIN q
  BY PoppedAt
<1>2. q[1] # r => (On(t, r) <=> On(q, r))
  BY <1>1 DEF On
<1>3. ASSUME Once(q, r) PROVE Once(t, r)
  <2>1. ASSUME NEW i \in DOMAIN t, NEW j \in DOMAIN t, t[i] = r, t[j] = r PROVE i = j
    <3>1. i + 1 = j + 1
      BY <1>1, <1>3, <2>1 DEF Once
    <3> QED BY <1>1, <3>1
  <2> QED BY <2>1 DEF Once
<1>4. ASSUME q[1] = r, Once(q, r), NEW i \in DOMAIN t, t[i] = r PROVE FALSE
  <2>1. i + 1 = 1
    BY <1>1, <1>4 DEF Once
  <2> QED BY <1>1, <2>1
<1> QED BY <1>1, <1>2, <1>3, <1>4 DEF On

LEMMA CausesPushed ==
  ASSUME PageTypeOK
  PROVE  /\ \A request : Pushed(toMain, toMain', request) => Pushed(Asking, Asking', request[2])
         /\ \A reply : Pushed(toPage, toPage', reply) => Pushed(Answering, Answering', reply.cause)
         /\ Popped(toMain, toMain') => Popped(Asking, Asking') /\ Asking[1] = toMain[1][2]
         /\ Popped(toPage, toPage') => Popped(Answering, Answering') /\ Answering[1] = toPage[1].cause
         /\ UNCHANGED toMain => UNCHANGED Asking
         /\ UNCHANGED toPage => UNCHANGED Answering
<1>1. ASSUME NEW request, Pushed(toMain, toMain', request)
      PROVE  Pushed(Asking, Asking', request[2])
  BY <1>1 DEF Pushed, Asking
<1>2. ASSUME NEW reply, Pushed(toPage, toPage', reply)
      PROVE  Pushed(Answering, Answering', reply.cause)
  BY <1>2 DEF Pushed, Answering
<1>3. ASSUME Popped(toMain, toMain')
      PROVE  Popped(Asking, Asking') /\ Asking[1] = toMain[1][2]
  BY <1>3 DEF Popped, Asking
<1>4. ASSUME Popped(toPage, toPage')
      PROVE  Popped(Answering, Answering') /\ Answering[1] = toPage[1].cause
  BY <1>4 DEF Popped, Answering
<1>5. (UNCHANGED toMain => UNCHANGED Asking) /\ (UNCHANGED toPage => UNCHANGED Answering)
  BY DEF Asking, Answering
<1> QED BY <1>1, <1>2, <1>3, <1>4, <1>5

(* One record, as CallsMatch has it.                                        *)
Matches(r) ==
  /\ OneCall(r)
  /\ r \in removed <=> deletion[r] # "none"
  /\ deletion[r] # "none" => wanted[r] = "delete"

LEMMA MatchesKept ==
  ASSUME PageTypeOK, Sorts, NEW r \in Records, Matches(r), deletion' \in [Records -> {"none", "undoable", "calling"}]
  PROVE  Matches(r)'
<1> USE DEF Matches, OneCall
<1>1. CASE Idles
  BY <1>1, CausesPushed DEF Idles, Untouched, wireVars
<1>2. ASSUME NEW s \in Records, Commits(s) PROVE Matches(r)'
  <2>1. Pushed(Asking, Asking', s) /\ UNCHANGED Answering
    BY <1>2, CausesPushed DEF Commits
  <2>2. CASE s = r
    <3>1. ~On(Asking, r) /\ deletion'[r] = "calling"
      BY <1>2, <2>2 DEF Commits, PageTypeOK
    <3> QED BY <1>2, <2>1, <2>2, <3>1, PushedOn DEF Commits
  <2>3. CASE s # r
    BY <1>2, <2>1, <2>3, PushedOn DEF Commits, PageTypeOK
  <2> QED BY <2>2, <2>3
<1>3. ASSUME NEW kind, NEW cause, AsksFor(kind, cause) PROVE Matches(r)'
  <2>1. Pushed(Asking, Asking', cause) /\ UNCHANGED Answering /\ cause # r
    BY <1>3, CausesPushed, CausesApart DEF AsksFor
  <2> QED BY <1>3, <2>1, PushedOn DEF AsksFor
<1>4. CASE RecordsQuietly
  BY <1>4, CausesPushed DEF RecordsQuietly, wireVars
<1>5. ASSUME NEW reply \in Replies, Answers(reply) PROVE Matches(r)'
  <2>1. /\ Popped(Asking, Asking') /\ Asking[1] = reply.cause
        /\ Pushed(Answering, Answering', reply.cause)
        /\ UNCHANGED <<removed, deletion, wanted>>
    BY <1>5, CausesPushed DEF Answers
  <2>2. CASE reply.cause = r
    BY <2>1, <2>2, PushedOn, PoppedOn
  <2>3. CASE reply.cause # r
    BY <2>1, <2>3, PushedOn, PoppedOn
  <2> QED BY <2>2, <2>3
<1>6. ASSUME NEW reply \in Replies, Lists(reply) PROVE Matches(r)'
  <2>1. Pushed(Answering, Answering', reply.cause) /\ UNCHANGED Asking /\ reply.cause # r
    BY <1>6, CausesPushed, CausesApart DEF Lists
  <2> QED BY <1>6, <2>1, PushedOn DEF Lists
<1>7. ASSUME NEW reply \in Replies, Lands(reply) PROVE Matches(r)'
  <2>1. Popped(Answering, Answering') /\ Answering[1] = reply.cause /\ UNCHANGED Asking
    BY <1>7, CausesPushed DEF Lands, Receives
  <2>2. CASE reply.cause = r
    <3>1. ~On(Asking, r) /\ ~On(Answering', r)
      BY <2>1, <2>2, PoppedOn
    <3>2. deletion'[r] = "none" /\ r \notin removed'
      BY <1>7, <2>2 DEF Lands, Frees
    <3> QED BY <2>1, <3>1, <3>2, PoppedOn
  <2>3. CASE reply.cause # r
    <3>1. Untouched(r)
      BY <1>7, <2>3 DEF Lands, Frees
    <3> QED BY <2>1, <2>3, <3>1, PoppedOn DEF Untouched
  <2> QED BY <2>2, <2>3
<1>8. ASSUME NEW reply \in Replies, Refetches(reply) PROVE Matches(r)'
  <2>1. /\ Popped(Answering, Answering') /\ Answering[1] = reply.cause
        /\ Pushed(Asking, Asking', reply.cause)
    BY <1>8, CausesPushed DEF Refetches, Receives
  <2>2. CASE reply.cause = r
    BY <1>8, <2>1, <2>2, PushedOn, PoppedOn DEF Refetches
  <2>3. CASE reply.cause # r
    BY <1>8, <2>1, <2>3, PushedOn, PoppedOn DEF Refetches
  <2> QED BY <2>2, <2>3
<1>9. CASE Enumerates
  <2>1. Popped(Asking, Asking') /\ Asking[1] # r /\ UNCHANGED Answering
    BY <1>9, CausesPushed, CausesApart DEF Enumerates
  <2> QED BY <1>9, <2>1, PoppedOn DEF Enumerates
<1>10. CASE PageEnds
  <2>1. DOMAIN Asking' = {} /\ DOMAIN Answering' = {}
    BY <1>10 DEF PageEnds, Asking, Answering
  <2> QED BY <1>10, <2>1 DEF PageEnds, On, Once
<1> QED BY <1>1, <1>2, <1>3, <1>4, <1>5, <1>6, <1>7, <1>8, <1>9, <1>10 DEF Sorts

LEMMA CallsKept ==
  ASSUME PageTypeOK, CallsMatch, [Next]_vars
  PROVE  CallsMatch'
<1>1. CallsMatch <=> \A r \in Records : Matches(r)
  BY DEF CallsMatch, Matches
<1>2. \A r \in Records : Matches(r)'
  BY <1>1, PageSteps, MatchesKept DEF PageTypeOK
<1> QED BY <1>2 DEF CallsMatch, Matches

-----------------------------------------------------------------------------
(* The view of the store.                                                   *)
LEMMA ReadsKept ==
  ASSUME PageTypeOK, ReadsAreOld, [Next]_vars
  PROVE  ReadsAreOld'
<1> USE DEF ReadsAreOld
<1>0. Sorts
  BY PageSteps
<1>1. ASSUME UNCHANGED <<toPage, enumerating>>, UNCHANGED <<rows, made>> \/ AddsRow PROVE ReadsAreOld'
  BY <1>1 DEF AddsRow
<1>2. CASE Idles
  BY <1>1, <1>2 DEF Idles, wireVars
<1>3. ASSUME NEW s \in Records, Commits(s) PROVE ReadsAreOld'
  BY <1>1, <1>3 DEF Commits
<1>4. ASSUME NEW kind, NEW cause, AsksFor(kind, cause) PROVE ReadsAreOld'
  BY <1>1, <1>4 DEF AsksFor
<1>5. CASE RecordsQuietly
  BY <1>1, <1>5 DEF RecordsQuietly, wireVars
<1>6. ASSUME NEW reply \in Replies, Pushed(toPage, toPage', reply), reply.rows \subseteq made,
             rows' \subseteq rows, made' = made, enumerating' \subseteq enumerating
      PROVE  ReadsAreOld'
  BY <1>6, PushedAt
<1>7. ASSUME NEW reply \in Replies, Answers(reply) PROVE ReadsAreOld'
  <2>1. /\ Pushed(toPage, toPage', reply) /\ reply.rows \in {{}, rows}
        /\ rows' \subseteq rows /\ UNCHANGED <<made, enumerating>>
    BY <1>7 DEF Answers
  <2> QED BY <1>6, <2>1
<1>8. ASSUME NEW reply \in Replies, Lists(reply) PROVE ReadsAreOld'
  BY <1>6, <1>8 DEF Lists
<1>9. ASSUME Receives PROVE ReadsAreOld'
  BY <1>9, PoppedAt DEF Receives
<1>10. ASSUME NEW reply \in Replies, Lands(reply) \/ Refetches(reply) PROVE ReadsAreOld'
  BY <1>9, <1>10 DEF Lands, Refetches
<1>11. CASE Enumerates
  BY <1>11 DEF Enumerates
<1>12. CASE PageEnds
  BY <1>12 DEF PageEnds
<1> QED BY <1>0, <1>2, <1>3, <1>4, <1>5, <1>7, <1>8, <1>10, <1>11, <1>12 DEF Sorts

(* What is coming stays on its way, or has come.                            *)
LEMMA ReadingKept ==
  ASSUME PageTypeOK
  PROVE  /\ \A request : Pushed(toMain, toMain', request) => (Reading => Reading')
         /\ \A cause : cause # "permissions" /\ Pushed(toMain, toMain', <<"fetch", cause>>) => Reading'
         /\ Popped(toMain, toMain') /\ (toMain[1][1] # "fetch" \/ toMain[1][2] = "permissions")
              => (Reading => Reading')
<1>1. ASSUME NEW request, Pushed(toMain, toMain', request), Reading PROVE Reading'
  BY <1>1, PushedAt DEF Reading
<1>2. ASSUME NEW cause, cause # "permissions", Pushed(toMain, toMain', <<"fetch", cause>>)
      PROVE  Reading'
  <2>1. \E i \in DOMAIN toMain' : toMain'[i] = <<"fetch", cause>>
    BY <1>2, PushedAt
  <2> QED BY <1>2, <2>1 DEF Reading
<1>3. ASSUME Popped(toMain, toMain'), toMain[1][1] # "fetch" \/ toMain[1][2] = "permissions", Reading
      PROVE  Reading'
  <2>1. PICK i \in DOMAIN toMain : toMain[i][1] = "fetch" /\ toMain[i][2] # "permissions"
    BY <1>3 DEF Reading
  <2>2. i - 1 \in DOMAIN toMain' /\ toMain'[i - 1] = toMain[i]
    BY <1>3, <2>1, PoppedAt
  <2> QED BY <2>1, <2>2 DEF Reading
<1> QED BY <1>1, <1>2, <1>3

(* The page as it is, with the store as it is: nothing is lost of what is   *)
(* coming.                                                                  *)
LEMMA Undisturbed ==
  ASSUME PageTypeOK, CatchesUp, RepliesCatchUp,
         UNCHANGED <<rows, model, toPage>>, outdated' = outdated, Reading => Reading'
  PROVE  CatchesUp' /\ RepliesCatchUp'
<1>1. \A i : Coming(i) => Coming(i)'
  BY DEF Coming, Brings
<1>2. \A i : StaleUntil(i) => StaleUntil(i)'
  BY DEF StaleUntil
<1> QED BY <1>1, <1>2 DEF CatchesUp, RepliesCatchUp

(* A read is on its way: it will bring everything.                          *)
LEMMA ReadingBrings ==
  ASSUME Reading'
  PROVE  CatchesUp' /\ RepliesCatchUp'
BY DEF CatchesUp, RepliesCatchUp, Coming

LEMMA ViewKept ==
  ASSUME PageTypeOK, ReadsAreOld, CatchesUp, RepliesCatchUp, [Next]_vars
  PROVE  CatchesUp' /\ RepliesCatchUp'
<1>0. Sorts /\ PageTypeOK'
  BY PageSteps
<1>1. CASE Idles
  BY <1>1, Undisturbed DEF Idles, wireVars, Reading
<1>2. ASSUME NEW s \in Records, Commits(s) PROVE CatchesUp' /\ RepliesCatchUp'
  BY <1>2, Undisturbed, ReadingKept DEF Commits
<1>3. ASSUME NEW kind, NEW cause, AsksFor(kind, cause) PROVE CatchesUp' /\ RepliesCatchUp'
  <2>1. CASE UNCHANGED <<rows, made>>
    BY <1>3, <2>1, Undisturbed, ReadingKept DEF AsksFor
  <2>2. CASE kind = "fetch" /\ cause = "voice"
    <3>1. Reading'
      BY <1>3, <2>2, ReadingKept DEF AsksFor
    <3> QED BY <3>1, ReadingBrings
  <2> QED BY <1>3, <2>1, <2>2 DEF AsksFor
<1>4. CASE RecordsQuietly
  <2>1. outdated' = TRUE /\ UNCHANGED toPage
    BY <1>4 DEF RecordsQuietly, wireVars
  <2>2. PICK r \in Records : r \notin made /\ rows' = rows \cup {r}
    BY <1>4 DEF RecordsQuietly, AddsRow
  <2>3. \A j \in DOMAIN toPage : toPage[j].rows # rows'
    BY <2>2 DEF ReadsAreOld
  <2>4. \A i : StaleUntil(i)'
    BY <2>1, <2>3 DEF StaleUntil
  <2> QED BY <2>1, <2>4 DEF CatchesUp, RepliesCatchUp
<1>5. ASSUME NEW reply \in Replies, Pushed(toPage, toPage', reply), Brings(reply)'
      PROVE  /\ CatchesUp'
             /\ \A i \in DOMAIN toPage : Coming(i)'
             /\ reply.kind = "model" /\ reply.cause # "permissions" => reply.rows = rows'
             /\ RepliesCatchUp'
  <2>1. /\ Len(toPage') \in DOMAIN toPage' /\ toPage'[Len(toPage')] = reply /\ Len(toPage') > 0
        /\ \A i \in DOMAIN toPage : i < Len(toPage')
        /\ \A i \in DOMAIN toPage' : i \in DOMAIN toPage \/ i = Len(toPage')
    BY <1>5, PushedAt DEF Pushed
  <2>2. Coming(0)' /\ \A i \in DOMAIN toPage : Coming(i)'
    BY <1>5, <2>1 DEF Coming
  <2>3. reply.kind = "model" => reply.rows = rows'
    BY <1>5 DEF Brings
  <2> QED BY <2>1, <2>2, <2>3 DEF CatchesUp, RepliesCatchUp
<1>6. ASSUME NEW reply \in Replies, Pushed(toPage, toPage', reply), UNCHANGED <<rows, model, outdated>>,
             Reading => Reading', reply.kind # "model" \/ reply.cause = "permissions"
      PROVE  CatchesUp' /\ RepliesCatchUp'
  <2>1. /\ \A i \in DOMAIN toPage : i \in DOMAIN toPage' /\ toPage'[i] = toPage[i] /\ i < Len(toPage')
        /\ \A i \in DOMAIN toPage' :
             (i \in DOMAIN toPage /\ toPage'[i] = toPage[i]) \/ (i = Len(toPage') /\ toPage'[i] = reply)
        /\ \A i \in DOMAIN toPage' : i \in Nat
    BY <1>6, PushedAt
  <2>2. \A i \in Nat : Coming(i) => Coming(i)'
    BY <1>6, <2>1 DEF Coming, Brings
  <2>3. \A i \in DOMAIN toPage : StaleUntil(i) => StaleUntil(i)'
    <3>1. ASSUME NEW i \in DOMAIN toPage, StaleUntil(i), NEW j \in DOMAIN toPage', j <= i
          PROVE  j \in DOMAIN toPage /\ toPage'[j] = toPage[j]
      <4>1. i \in Nat /\ i < Len(toPage') /\ j \in Nat /\ Len(toPage') \in Nat
        BY <1>0, <2>1 DEF PageTypeOK
      <4> QED BY <2>1, <3>1, <4>1
    <3> QED BY <1>6, <3>1 DEF StaleUntil
  <2> QED BY <1>6, <2>1, <2>2, <2>3 DEF CatchesUp, RepliesCatchUp
<1>7. ASSUME NEW reply \in Replies, Answers(reply) PROVE CatchesUp' /\ RepliesCatchUp'
  <2>1. CASE reply.kind = "failed"
    <3>1. toMain[1][1] # "fetch" /\ UNCHANGED <<rows, model, outdated>>
      BY <1>7, <2>1 DEF Answers
    <3>2. Reading => Reading'
      BY <1>7, <3>1, ReadingKept DEF Answers
    <3> QED BY <1>6, <1>7, <2>1, <3>1, <3>2 DEF Answers
  <2>2. CASE reply.kind # "failed"
    <3>1. Brings(reply)'
      BY <1>7, <2>2 DEF Answers, Brings
    <3> QED BY <1>5, <1>7, <3>1 DEF Answers
  <2> QED BY <2>1, <2>2
<1>8. ASSUME NEW reply \in Replies, Lists(reply) PROVE CatchesUp' /\ RepliesCatchUp'
  BY <1>6, <1>8 DEF Lists, Reading
<1>9. CASE Enumerates
  BY <1>9, Undisturbed, ReadingKept DEF Enumerates
<1>10. ASSUME Receives
       PROVE  /\ \A i \in DOMAIN toPage' :
                   /\ i \in Nat /\ i >= 1 /\ i + 1 \in DOMAIN toPage /\ toPage'[i] = toPage[i + 1]
              /\ \A i \in DOMAIN toPage : i # 1 => i - 1 \in DOMAIN toPage' /\ toPage'[i - 1] = toPage[i]
              /\ 1 \in DOMAIN toPage /\ \A i \in DOMAIN toPage : i \in Nat /\ i >= 1
              /\ UNCHANGED rows
  BY <1>10, PoppedAt DEF Receives
<1>11. ASSUME Receives, Reading => Reading', NEW i \in Nat, Coming(i + 1) PROVE Coming(i)'
  <2>1. CASE Reading
    BY <1>11, <2>1 DEF Coming
  <2>2. ASSUME NEW j \in DOMAIN toPage, j > i + 1, Brings(toPage[j]) PROVE Coming(i)'
    <3>1. j - 1 \in DOMAIN toPage' /\ toPage'[j - 1] = toPage[j] /\ j \in Nat /\ UNCHANGED rows
      BY <1>10, <1>11, <2>2
    <3>2. j - 1 > i
      BY <2>2, <3>1
    <3> QED BY <2>2, <3>1, <3>2 DEF Coming, Brings
  <2> QED BY <1>11, <2>1, <2>2 DEF Coming
<1>12. ASSUME Receives, outdated', NEW i \in DOMAIN toPage', StaleUntil(i + 1) PROVE StaleUntil(i)'
  BY <1>10, <1>12 DEF StaleUntil
<1>13. ASSUME NEW reply \in Replies, Lands(reply) PROVE CatchesUp' /\ RepliesCatchUp'
  <2>1. /\ Receives /\ reply = toPage[1] /\ UNCHANGED <<toMain, rows>> /\ (Reading => Reading')
        /\ 1 \in DOMAIN toPage
    BY <1>10, <1>13 DEF Lands, Receives, Reading
  <2>2. reply.kind = "model" => model' = reply.rows
                               /\ outdated' = (model' # rows /\ (outdated \/ reply.cause = "permissions"))
    BY <1>13 DEF Lands
  <2>3. reply.kind # "model" => model' = model /\ (outdated => outdated')
    BY <1>13 DEF Lands
  <2>4. CatchesUp'
    <3>1. CASE reply.kind = "model" /\ reply.rows # rows /\ ~outdated /\ reply.cause # "permissions"
      <4>1. Coming(1)
        BY <2>1, <3>1 DEF RepliesCatchUp, StaleUntil
      <4>2. Coming(0)'
        BY <1>11, <2>1, <4>1
      <4> QED BY <4>2 DEF CatchesUp
    <3>2. CASE reply.kind = "model" /\ ~(reply.rows # rows /\ ~outdated /\ reply.cause # "permissions")
      BY <2>1, <2>2, <3>2 DEF CatchesUp
    <3>3. CASE reply.kind = "noModel"
      BY <1>13, <3>3 DEF Lands, CatchesUp
    <3>4. CASE reply.kind = "failed"
      <4>1. ~Brings(toPage[1])
        BY <2>1, <3>4 DEF Brings
      <4>2. Coming(0) => Coming(1)
        BY <1>10, <2>1, <4>1 DEF Coming
      <4>3. Coming(0) => Coming(0)'
        BY <1>11, <2>1, <4>2
      <4> QED BY <1>13, <2>1, <3>4, <4>3 DEF Lands, CatchesUp
    <3> QED BY <1>13, <3>1, <3>2, <3>3, <3>4 DEF Lands
  <2>5. ASSUME NEW i \in DOMAIN toPage', StaleUntil(i + 1) PROVE StaleUntil(i)'
    <3>1. reply.kind = "model" => reply.rows # rows
      BY <1>10, <2>1, <2>5 DEF StaleUntil
    <3>2. outdated
      BY <2>5 DEF StaleUntil
    <3>3. outdated'
      BY <2>1, <2>2, <2>3, <3>1, <3>2
    <3> QED BY <1>12, <2>1, <2>5, <3>3
  <2>6. \A i \in DOMAIN toPage' : Coming(i + 1) => Coming(i)'
    BY <1>10, <1>11, <2>1
  <2>7. RepliesCatchUp'
    BY <1>10, <2>1, <2>5, <2>6 DEF RepliesCatchUp
  <2> QED BY <2>4, <2>7
<1>14. ASSUME NEW reply \in Replies, Refetches(reply) PROVE CatchesUp' /\ RepliesCatchUp'
  BY <1>14, ReadingKept, ReadingBrings DEF Refetches
<1>15. CASE PageEnds
  BY <1>15 DEF PageEnds, CatchesUp, RepliesCatchUp
<1> QED BY <1>0, <1>1, <1>2, <1>3, <1>4, <1>7, <1>8, <1>9, <1>13, <1>14, <1>15 DEF Sorts

-----------------------------------------------------------------------------
(* What the list derives from its rows, as far as it is no fold over them.  *)
LEMMA Dividing ==
  ASSUME NEW a \in Nat, NEW d \in Nat \ {0}, NEW q \in Nat
  PROVE  a \div d \in Nat /\ (a \div d >= q <=> a >= q * d)
<1> DEFINE e == a \div d
<1>1. e \in Nat /\ a >= e * d /\ a < (e + 1) * d
  OBVIOUS
<1> HIDE DEF e
<1>2. CASE e >= q
  <2>1. e * d >= q * d
    BY <1>1, <1>2
  <2> QED BY <1>1, <1>2, <2>1 DEF e
<1>3. CASE q >= e + 1
  <2>1. q * d >= (e + 1) * d
    BY <1>1, <1>3
  <2> QED BY <1>1, <1>3, <2>1 DEF e
<1> QED BY <1>1, <1>2, <1>3

LEMMA HeadersAreTrue ==
  ASSUME NEW shown \in SUBSET Records
  PROVE  HeadersTellTheDay(shown, Nows)
<1>1. ASSUME NEW now \in Nows, NEW r \in shown
      PROVE  LET label == DayLabel(r, now)[1]
             IN /\ label = "today" => CreatedAt[r] # 0 /\ DayOf(CreatedAt[r]) >= DayOf(now)
                /\ label = "yesterday" => DayOf(CreatedAt[r]) + 1 = DayOf(now)
  <2>1. CreatedAt[r] \in Nat /\ now \in Nat /\ DayLength \in Nat \ {0}
    BY ShapeAssumption DEF Nows
  <2>2. DayOf(CreatedAt[r]) \in Nat /\ DayOf(now) \in Nat
    BY <2>1, Dividing DEF DayOf
  <2> QED BY <2>2 DEF DayLabel
<1> QED BY <1>1 DEF HeadersTellTheDay

LEMMA TodayAgrees ==
  ASSUME NEW counted \in SUBSET Records
  PROVE  HomeCountsToday(counted, Nows)
<1>1. ASSUME NEW now \in Nows, DayOf(now) > 0, NEW r \in counted
      PROVE  CreatedAt[r] \in (DayOf(now) * DayLength) .. now
             <=> DayLabel(r, now)[1] = "today" /\ CreatedAt[r] <= now
  <2>1. CreatedAt[r] \in Nat /\ now \in Nat /\ DayLength \in Nat \ {0}
    BY ShapeAssumption DEF Nows
  <2>2. DayOf(CreatedAt[r]) \in Nat /\ DayOf(now) \in Nat
    BY <2>1, Dividing DEF DayOf
  <2>3. DayOf(CreatedAt[r]) >= DayOf(now) <=> CreatedAt[r] >= DayOf(now) * DayLength
    BY <2>1, <2>2, Dividing DEF DayOf
  <2>4. DayOf(now) * DayLength \in Nat /\ DayOf(now) * DayLength > 0
    BY <1>1, <2>1, <2>2
  <2>5. DayLabel(r, now)[1] = "today"
          <=> CreatedAt[r] # 0 /\ DayOf(CreatedAt[r]) >= DayOf(now)
    BY <2>2 DEF DayLabel
  <2> QED BY <2>1, <2>3, <2>4, <2>5
<1> QED BY <1>1 DEF HomeCountsToday, TodaySessions

-----------------------------------------------------------------------------
LEMMA PageInit ==
  ASSUME Init
  PROVE  PageInd
<1>1. PageTypeOK
  BY TypeInit
<1>2. DOMAIN toMain = {} /\ DOMAIN toPage = {} /\ DOMAIN Asking = {} /\ DOMAIN Answering = {}
  BY DEF Init, Asking, Answering
<1>3. CallsMatch
  BY <1>2 DEF Init, CallsMatch, OneCall, On, Once
<1>4. ReadsAreOld /\ CatchesUp /\ RepliesCatchUp
  BY <1>2 DEF Init, ReadsAreOld, CatchesUp, RepliesCatchUp
<1> QED BY <1>1, <1>3, <1>4 DEF PageInd

(* The inductive invariant: one call at most goes with a record, and while  *)
(* the page does not have what is stored, something on its way will tell it *)
(* or it knows.                                                             *)
THEOREM PageInductive == Spec => []PageInd
<1>1. Init => PageInd
  BY PageInit
<1>2. PageInd /\ [Next]_vars => PageInd'
  BY PageSteps, CallsKept, ReadsKept, ViewKept DEF PageInd
<1> QED BY <1>1, <1>2, PTL DEF Spec

(* The days and the counts of the chips, which are folds and sorts of the   *)
(* rows.                                                                    *)
ListsHold == \A shown \in SUBSET Records : DaysKeepOrder(shown, Nows, Queries) /\ ChipsCountRows(shown)

LEMMA RowsHidden ==
  ASSUME CallsMatch
  PROVE  HiddenWhileDeleted
<1>1. ASSUME NEW r \in Records, deletion[r] = "calling"
      PROVE  Replied(r) \/ \E i \in DOMAIN toMain : toMain[i][2] = r
  BY <1>1 DEF CallsMatch, OneCall, On, Asking, Answering, Replied
<1> QED BY <1>1 DEF CallsMatch, HiddenWhileDeleted

LEMMA ViewFollows ==
  ASSUME PageTypeOK, CallsMatch, CatchesUp
  PROVE  ViewFollowsStore
<1>1. ASSUME Settled, ~outdated PROVE Shown = rows
  <2>1. DOMAIN toMain = {} /\ DOMAIN toPage = {}
    BY <1>1 DEF Settled
  <2>2. model = rows
    BY <1>1, <2>1 DEF CatchesUp, Coming, Reading
  <2>3. removed = {}
    BY <1>1 DEF Settled, CallsMatch, PageTypeOK
  <2> QED BY <2>2, <2>3 DEF Shown
<1> QED BY <1>1 DEF ViewFollowsStore

(* In every state a row is hidden exactly while its delete is under way,    *)
(* and a page at rest that is not known to be outdated shows the stored     *)
(* records; headers and the count of today agree with the clock.            *)
THEOREM PageSafe == ListsHold /\ Spec => []PageInv
<1>1. ListsHold /\ PageInd => PageInv
  <2> SUFFICES ASSUME ListsHold, PageInd PROVE PageInv
    OBVIOUS
  <2>1. Shown \in SUBSET Records /\ model \in SUBSET Records
    BY DEF PageInd, PageTypeOK, Shown
  <2>2. ListIsFaithful
    BY <2>1, HeadersAreTrue, TodayAgrees DEF ListsHold, ListIsFaithful
  <2> QED BY <2>2, RowsHidden, ViewFollows DEF PageInd, PageTypeOK, PageInv
<1>2. ListsHold => []ListsHold
  OBVIOUS
<1> QED BY <1>1, <1>2, PageInductive, PTL

(* What the store loses is what the user last wanted deleted, or everything *)
(* because it was cleared: an undo that was offered in time is kept.        *)
THEOREM DeletesAreWanted == Spec => OnlyWantedDeletes
<1>1. ASSUME PageInd, [Next]_vars, NEW r \in rows \ rows'
      PROVE  wanted[r] = "delete" \/ Head(toMain)[1] = "clear"
  <2>1. Sorts /\ PageTypeOK /\ CallsMatch
    BY <1>1, PageSteps DEF PageInd
  <2>2. PICK reply \in Replies : Answers(reply)
    BY <1>1, <2>1 DEF Sorts, Idles, Commits, AsksFor, RecordsQuietly, AddsRow, Lists, Lands,
                      Refetches, Receives, Enumerates, PageEnds
  <2>3. toMain # <<>> /\ toMain \in Seq(Requests) /\ Head(toMain) = toMain[1] /\ 1 \in DOMAIN toMain
    BY <2>1, <2>2, Popping, PoppedAt DEF Answers, PageTypeOK
  <2>4. \/ toMain[1] = <<"delete", reply.cause>> /\ rows' = rows \ {reply.cause}
        \/ toMain[1][1] = "clear"
    BY <1>1, <2>2 DEF Answers
  <2>5. ASSUME toMain[1] = <<"delete", r>> PROVE wanted[r] = "delete"
    <3>1. On(Asking, r) /\ r \in Records
      BY <1>1, <2>1, <2>3, <2>5 DEF On, Asking, PageTypeOK
    <3> QED BY <2>1, <3>1 DEF CallsMatch, OneCall
  <2> QED BY <1>1, <2>3, <2>4, <2>5
<1>2. PageInd /\ [Next]_vars
      => [\A r \in rows \ rows' : wanted[r] = "delete" \/ Head(toMain)[1] = "clear"]_vars
  BY <1>1
<1> QED BY <1>2, PageInductive, PTL DEF Spec, OnlyWantedDeletes
=============================================================================
