----------------------------- MODULE LocalProofs -----------------------------
(* Proofs about what an operator has beside the services: the page of the  *)
(* cockpit, with its briefings, and the copies of the database.            *)
EXTENDS Cockpit, BriefingPanel, Backup, TLAPS

(***************************************************************************)
(* The page never shows what is older than it has shown, nor evidence older*)
(* than the list, nor other filters than those set by hand, for every set  *)
(* of events and filters and every number of changes.  One call of a kind  *)
(* is listened to at a time (Sole): its answer is therefore newer than what*)
(* the page shows (Ahead), and the evidence it brings is that of the       *)
(* selection and of the revision in the list (Abreast), unless the effect  *)
(* that replaces it is due.                                                *)
(***************************************************************************)

Kinds == {"events", "detail", "query"}

(* What was read is of the key it was asked for, and not of the future.    *)
Read(last, found) ==
  /\ DOMAIN last = found
  /\ \A e \in found : last[e] \in Nat /\ last[e] <= last_changed_at[e]

CallOK(c) ==
  /\ c.kind \in Kinds
  /\ c.kind = "events" => c.arg \in Filters
  /\ c.kind = "detail" => c.arg \in Events
  /\ c.kind = "query" => ~c.answer.read
  /\ c.gen \in Nat /\ c.gen <= filterGeneration
  /\ c.answer.read \in BOOLEAN
  /\ c.answer.read => Read(c.answer.last, Found(c))

DatabaseOK ==
  /\ now \in 0..MaxChanges
  /\ last_changed_at \in [Events -> Nat] /\ \A e \in Events : last_changed_at[e] <= now
ViewOK ==
  /\ params \in Filters /\ selectedId \in Events \cup {NoOne}
  /\ filterGeneration \in Nat /\ chosen \in Filters \cup {NoOne}
ListOK == 
  \/ eventState.key \in Filters /\ Read(eventState.last, Match[eventState.key])
  \/ eventState = Nothing
DetailOK ==
  \/ detailState.key \in Events /\ Read(detailState.last, {detailState.key})
  \/ detailState = Nothing
CallsOK == \A c \in calls : CallOK(c)

Sole == \A c, d \in calls : c.kind = d.kind => c = d

Ahead ==
  \A c \in calls : c.answer.read =>
    /\ c.kind = "events" => \A e \in DOMAIN eventState.last \cap Found(c) : c.answer.last[e] >= eventState.last[e]
    /\ c.kind = "detail" => \A e \in DOMAIN detailState.last \cap Found(c) : c.answer.last[e] >= detailState.last[e]

(* last is of the selected event, and of its revision in the list at least.*)
Covers(key, last) ==
  /\ key = selectedId
  /\ selectedId \in DOMAIN eventState.last => last[selectedId] >= eventState.last[selectedId]

Abreast ==
  "detail" \notin due =>
    /\ \A c \in Of({"detail"}) : c.arg = selectedId /\ (c.answer.read => Covers(c.arg, c.answer.last))
    /\ selectedId # NoOne /\ Of({"detail"}) = {} /\ "detail" \notin errors =>
         Covers(detailState.key, detailState.last)

Unanswered ==
  /\ ManualFiltersStay
  /\ \A c \in calls : c.kind = "query" /\ c.gen = filterGeneration => chosen = NoOne

CockpitTypeInv == DatabaseOK /\ ViewOK /\ ListOK /\ DetailOK /\ CallsOK
CockpitInv == CockpitTypeInv /\ Sole /\ Ahead /\ Abreast /\ Unanswered

LEMMA CallFields ==
  ASSUME NEW kind, NEW arg, NEW gen, NEW answer
  PROVE  /\ Call(kind, arg, gen, answer).kind = kind /\ Call(kind, arg, gen, answer).arg = arg
         /\ Call(kind, arg, gen, answer).gen = gen /\ Call(kind, arg, gen, answer).answer = answer
BY DEF Call

(* The answer is of the time at which the server reads.                    *)
LEMMA ServedCall ==
  ASSUME NEW c, Serve(c)
  PROVE  \E d : /\ calls' = (calls \ {c}) \cup {d}
                /\ d.kind = c.kind /\ d.arg = c.arg /\ d.gen = c.gen /\ Found(d) = Found(c)
                /\ d.answer.read = TRUE
                /\ DOMAIN d.answer.last = Found(c)
                /\ \A e \in Found(c) : d.answer.last[e] = last_changed_at[e]
<1> PICK d : d = Call(c.kind, c.arg, c.gen, Answer(c))
  OBVIOUS
<1>1. d.kind = c.kind /\ d.arg = c.arg /\ d.gen = c.gen /\ d.answer = Answer(c)
  BY CallFields
<1>2. Found(d) = Found(c)
  BY <1>1 DEF Found
<1>3. /\ Answer(c).read = TRUE /\ DOMAIN Answer(c).last = Found(c)
      /\ \A e \in Found(c) : Answer(c).last[e] = last_changed_at[e]
  BY DEF Answer
<1>4. calls' = (calls \ {c}) \cup {d}
  BY DEF Serve
<1> QED BY <1>1, <1>2, <1>3, <1>4

LEMMA NothingRead == Unread.read = FALSE /\ Nothing.key = NoOne /\ DOMAIN Nothing.last = {}
BY DEF Nothing, Unread

LEMMA UnreadCallOK ==
  ASSUME NEW kind \in Kinds, NEW arg, NEW gen \in Nat, gen <= filterGeneration,
         kind = "events" => arg \in Filters, kind = "detail" => arg \in Events
  PROVE  CallOK(Call(kind, arg, gen, Unread))
<1> PICK c : c = Call(kind, arg, gen, Unread)
  OBVIOUS
<1>1. c.kind = kind /\ c.arg = arg /\ c.gen = gen /\ c.answer = Unread
  BY CallFields
<1>2. c.answer.read = FALSE
  BY <1>1, NothingRead
<1> QED BY <1>1, <1>2 DEF CallOK

LEMMA FoundIsOfEvents ==
  ASSUME NEW c, CallOK(c), c.kind # "query" PROVE Found(c) \subseteq Events
BY CockpitAssumption DEF CallOK, Found, Kinds

(* What was read stays of the past.                                        *)
LEMMA ReadStays ==
  ASSUME DatabaseOK, DatabaseOK',
         \A e \in Events : last_changed_at'[e] >= last_changed_at[e],
         NEW last, NEW found \in SUBSET Events, Read(last, found)
  PROVE  Read(last, found)'
BY DEF DatabaseOK, Read

LEMMA DatabaseStep ==
  ASSUME DatabaseOK, [CockpitNext]_cockpitVars
  PROVE  DatabaseOK' /\ \A e \in Events : last_changed_at'[e] >= last_changed_at[e]
<1>1. CASE \E e \in Events : Change(e)
  BY <1>1, CockpitAssumption DEF Change, DatabaseOK
<1>2. CASE UNCHANGED databaseVars
  BY <1>2 DEF databaseVars, DatabaseOK
<1>3. UNCHANGED databaseVars \/ \E e \in Events : Change(e)
  BY DEF CockpitNext, cockpitVars, Select, Serve, ShowEvents, ShowDetail, Fail, ApplyQuestion,
         SetFilters, RunEffects, Refresh, RetryDetail, SubmitQuestion
<1> QED BY <1>1, <1>2, <1>3

LEMMA TypeStep == CockpitTypeInv /\ [CockpitNext]_cockpitVars => CockpitTypeInv'
<1> SUFFICES ASSUME CockpitTypeInv, [CockpitNext]_cockpitVars PROVE CockpitTypeInv'
  OBVIOUS
<1>0. DatabaseOK' /\ \A last : \A found \in SUBSET Events : Read(last, found) => Read(last, found)'
  BY DatabaseStep, ReadStays DEF CockpitTypeInv
<1>a. ASSUME filterGeneration' \in Nat, filterGeneration' >= filterGeneration
      PROVE  \A c : CallOK(c) => CallOK(c)'
  <2> TAKE c
  <2> HAVE CallOK(c)
  <2>1. c.kind # "query" => Found(c) \subseteq Events
    BY FoundIsOfEvents
  <2>2. c.answer.read => Read(c.answer.last, Found(c))'
    BY <1>0, <2>1 DEF CallOK, Found
  <2> QED BY <1>a, <2>2 DEF CallOK, CockpitTypeInv, ViewOK, Kinds, Found
<1>b. eventState' = eventState => ListOK'
  BY <1>0, CockpitAssumption DEF ListOK, CockpitTypeInv
<1>c. detailState' = detailState => DetailOK'
  BY <1>0 DEF DetailOK, CockpitTypeInv
<1>d. calls' \subseteq calls /\ filterGeneration' = filterGeneration => CallsOK'
  BY <1>a DEF CallsOK, CockpitTypeInv, ViewOK
<1>e. UNCHANGED viewVars => ViewOK'
  BY DEF viewVars, ViewOK, CockpitTypeInv
<1> USE DEF readVars, viewVars, CockpitTypeInv
<1>1. CASE UNCHANGED cockpitVars
  BY <1>1, <1>0, <1>b, <1>c, <1>d, <1>e DEF cockpitVars
<1>2. ASSUME NEW e \in Events, Change(e) PROVE CockpitTypeInv'
  BY <1>2, <1>0, <1>b, <1>c, <1>d, <1>e DEF Change
<1>3. ASSUME NEW e \in Events, Select(e) PROVE CockpitTypeInv'
  BY <1>3, <1>0, <1>b, <1>c, <1>d DEF Select, ViewOK
<1>4. ASSUME NEW c \in calls, Serve(c) PROVE CockpitTypeInv'
  <2>1. CallOK(c) /\ Found(c) \subseteq Events
    BY <1>4, FoundIsOfEvents DEF Serve, CallsOK
  <2> PICK d : /\ calls' = (calls \ {c}) \cup {d}
               /\ d.kind = c.kind /\ d.arg = c.arg /\ d.gen = c.gen /\ Found(d) = Found(c)
               /\ d.answer.read = TRUE
               /\ DOMAIN d.answer.last = Found(c)
               /\ \A e \in Found(c) : d.answer.last[e] = last_changed_at[e]
    BY <1>4, ServedCall
  <2>2. Read(d.answer.last, Found(d))
    BY <2>1 DEF Read, DatabaseOK
  <2>3. CallOK(d)
    BY <1>4, <2>1, <2>2 DEF CallOK, Serve
  <2>4. CallOK(d)' /\ \A x \in calls : CallOK(x)'
    BY <1>4, <1>a, <2>3 DEF Serve, CallsOK, ViewOK
  <2>5. CallsOK'
    BY <2>4 DEF CallsOK
  <2> QED BY <1>4, <1>0, <1>b, <1>c, <1>e, <2>5 DEF Serve
<1>5. ASSUME NEW c \in calls, ShowEvents(c) PROVE CockpitTypeInv'
  <2>1. CallOK(c) /\ Found(c) = Match[c.arg]
    BY <1>5 DEF ShowEvents, CallsOK, Found
  <2>2. ListOK'
    BY <1>5, <1>0, <2>1, CockpitAssumption DEF ShowEvents, ListOK, CallOK
  <2> QED BY <1>5, <1>0, <1>c, <1>d, <1>e, <2>2 DEF ShowEvents, End
<1>6. ASSUME NEW c \in calls, ShowDetail(c) PROVE CockpitTypeInv'
  <2>1. CallOK(c) /\ Found(c) = {c.arg}
    BY <1>6 DEF ShowDetail, CallsOK, Found
  <2>2. DetailOK'
    BY <1>6, <1>0, <2>1 DEF ShowDetail, DetailOK, CallOK
  <2> QED BY <1>6, <1>0, <1>b, <1>d, <1>e, <2>2 DEF ShowDetail, End
<1>7. ASSUME NEW c \in calls, Fail(c) PROVE CockpitTypeInv'
  <2>1. ListOK'
    BY <1>7, <1>b DEF Fail, ListOK, Nothing
  <2> QED BY <1>7, <1>0, <1>c, <1>d, <1>e, <2>1 DEF Fail, End
<1>8. ASSUME NEW c \in calls, NEW p \in Filters \cup {NoOne}, ApplyQuestion(c, p) PROVE CockpitTypeInv'
  <2>1. ViewOK'
    BY <1>8 DEF ApplyQuestion, Applies, ViewOK
  <2> QED BY <1>8, <1>0, <1>b, <1>c, <1>d, <2>1 DEF ApplyQuestion, End
<1>9. ASSUME NEW p \in Filters, SetFilters(p) PROVE CockpitTypeInv'
  <2>1. ViewOK' /\ filterGeneration' \in Nat /\ filterGeneration' >= filterGeneration
    BY <1>9 DEF SetFilters, ViewOK
  <2>2. CallsOK'
    BY <1>9, <1>a, <2>1 DEF SetFilters, CallsOK
  <2> QED BY <1>9, <1>0, <1>b, <1>c, <2>1, <2>2 DEF SetFilters
<1>10. CASE RunEffects
  <2>1. \A c \in Asked : CallOK(c)
    BY UnreadCallOK DEF Asked, Kinds, ViewOK
  <2>2. CallsOK'
    BY <1>10, <1>a, <2>1 DEF RunEffects, CallsOK, ViewOK
  <2> QED BY <1>10, <1>0, <1>b, <1>c, <1>e, <2>2 DEF RunEffects
<1>11. CASE Refresh
  BY <1>11, <1>0, <1>b, <1>c, <1>d, <1>e DEF Refresh
<1>12. CASE RetryDetail
  BY <1>12, <1>0, <1>b, <1>c, <1>d, <1>e DEF RetryDetail
<1>13. CASE SubmitQuestion
  <2>1. CallOK(Call("query", NoOne, filterGeneration, Unread))
    BY UnreadCallOK DEF Kinds, ViewOK
  <2>2. CallsOK'
    BY <1>13, <1>a, <2>1 DEF SubmitQuestion, CallsOK, ViewOK
  <2> QED BY <1>13, <1>0, <1>b, <1>c, <2>2 DEF SubmitQuestion, ViewOK
<1> QED
  BY <1>1, <1>2, <1>3, <1>4, <1>5, <1>6, <1>7, <1>8, <1>9, <1>10, <1>11, <1>12, <1>13
     DEF CockpitNext

(* One call of a kind is listened to at a time.                            *)
LEMMA AskedCalls ==
  ASSUME NEW c \in Asked
  PROVE  /\ c.kind \in due /\ c.kind \in {"events", "detail"} /\ ~c.answer.read
         /\ c.kind = "detail" => c.arg = selectedId
         /\ \A d \in Asked : c.kind = d.kind => c = d
BY CallFields, NothingRead DEF Asked

LEMMA SoleStep == CockpitTypeInv /\ Sole /\ [CockpitNext]_cockpitVars => Sole'
<1> SUFFICES ASSUME CockpitTypeInv, Sole, [CockpitNext]_cockpitVars PROVE Sole'
  OBVIOUS
<1>1. CASE calls' \subseteq calls
  BY <1>1 DEF Sole
<1>2. ASSUME NEW c \in calls, Serve(c) PROVE Sole'
  <2> PICK d : calls' = (calls \ {c}) \cup {d} /\ d.kind = c.kind
    BY <1>2, ServedCall
  <2> QED BY DEF Sole
<1>3. CASE RunEffects
  BY <1>3, AskedCalls DEF RunEffects, Sole, Aborted, Of
<1>4. CASE SubmitQuestion
  BY <1>4, CallFields DEF SubmitQuestion, Sole, Aborted, Of
<1>5. calls' \subseteq calls \/ (\E c \in calls : Serve(c)) \/ RunEffects \/ SubmitQuestion
  BY DEF CockpitNext, cockpitVars, Change, Select, ShowEvents, ShowDetail, Fail, ApplyQuestion, End,
         SetFilters, Refresh, RetryDetail
<1> QED BY <1>1, <1>2, <1>3, <1>4, <1>5

(* The answers on their way are newer than what is shown.                  *)
LEMMA ShownIsPast ==
  ASSUME CockpitTypeInv
  PROVE  /\ \A e \in DOMAIN eventState.last :
              e \in Events /\ eventState.last[e] \in Nat /\ eventState.last[e] <= last_changed_at[e]
         /\ \A e \in DOMAIN detailState.last :
              e \in Events /\ detailState.last[e] \in Nat /\ detailState.last[e] <= last_changed_at[e]
BY NothingRead, CockpitAssumption DEF CockpitTypeInv, ListOK, DetailOK, Read

LEMMA AheadStep == CockpitTypeInv /\ Sole /\ Ahead /\ [CockpitNext]_cockpitVars => Ahead'
<1> SUFFICES ASSUME CockpitTypeInv, Sole, Ahead, [CockpitNext]_cockpitVars PROVE Ahead'
  OBVIOUS
<1> USE DEF Ahead, Found, readVars
<1>1. CASE calls' \subseteq calls /\ UNCHANGED readVars
  BY <1>1
<1>2. ASSUME NEW c \in calls, Serve(c) PROVE Ahead'
  <2> PICK d : /\ calls' = (calls \ {c}) \cup {d}
               /\ d.kind = c.kind /\ d.arg = c.arg /\ d.gen = c.gen /\ Found(d) = Found(c)
               /\ d.answer.read = TRUE
               /\ DOMAIN d.answer.last = Found(c)
               /\ \A e \in Found(c) : d.answer.last[e] = last_changed_at[e]
    BY <1>2, ServedCall
  <2> QED BY <1>2, ShownIsPast DEF Serve
<1>3. ASSUME NEW c \in calls, ShowEvents(c) PROVE Ahead'
  BY <1>3 DEF ShowEvents, End, Sole
<1>4. ASSUME NEW c \in calls, ShowDetail(c) PROVE Ahead'
  BY <1>4 DEF ShowDetail, End, Sole
<1>5. ASSUME NEW c \in calls, Fail(c) PROVE Ahead'
  BY <1>5, NothingRead DEF Fail, End
<1>6. CASE RunEffects
  BY <1>6, AskedCalls DEF RunEffects
<1>7. CASE SubmitQuestion
  BY <1>7, CallFields, NothingRead DEF SubmitQuestion
<1>8. \/ calls' \subseteq calls /\ UNCHANGED readVars
      \/ \E c \in calls : Serve(c) \/ ShowEvents(c) \/ ShowDetail(c) \/ Fail(c)
      \/ RunEffects \/ SubmitQuestion
  BY DEF CockpitNext, cockpitVars, Change, Select, ApplyQuestion, End, SetFilters, Refresh, RetryDetail
<1> QED BY <1>1, <1>2, <1>3, <1>4, <1>5, <1>6, <1>7, <1>8

(* The evidence is, or is to be, that of the list's revision.              *)
LEMMA SameRevision ==
  ASSUME CockpitTypeInv, NEW list, Revision(list, selectedId) = Revision(eventState, selectedId),
         \A e \in DOMAIN list.last : list.last[e] \in 0..MaxChanges
  PROVE  /\ selectedId \in DOMAIN list.last <=> selectedId \in DOMAIN eventState.last
         /\ selectedId \in DOMAIN list.last => list.last[selectedId] = eventState.last[selectedId]
<1>1. selectedId \in DOMAIN eventState.last => eventState.last[selectedId] \in 0..MaxChanges
  BY ShownIsPast, CockpitAssumption DEF CockpitTypeInv, DatabaseOK
<1> QED BY <1>1, CockpitAssumption DEF Revision, Undefined

LEMMA AbreastStep == CockpitTypeInv /\ Sole /\ Abreast /\ [CockpitNext]_cockpitVars => Abreast'
<1> SUFFICES ASSUME CockpitTypeInv, Sole, Abreast, [CockpitNext]_cockpitVars PROVE Abreast'
  OBVIOUS
<1> USE DEF Abreast, Of, readVars, viewVars
<1>0. CASE "detail" \in due'
  BY <1>0
<1>1. CASE UNCHANGED cockpitVars
  BY <1>1 DEF cockpitVars, Covers
<1>2. ASSUME NEW e \in Events, Change(e) PROVE Abreast'
  BY <1>2 DEF Change, Covers
<1>3. ASSUME NEW e \in Events, Select(e) PROVE Abreast'
  BY <1>3 DEF Select
<1>4. ASSUME NEW c \in calls, Serve(c) PROVE Abreast'
  <2> PICK d : /\ calls' = (calls \ {c}) \cup {d}
               /\ d.kind = c.kind /\ d.arg = c.arg /\ d.gen = c.gen /\ Found(d) = Found(c)
               /\ d.answer.read = TRUE
               /\ DOMAIN d.answer.last = Found(c)
               /\ \A e \in Found(c) : d.answer.last[e] = last_changed_at[e]
    BY <1>4, ServedCall
  <2>1. d.kind = "detail" /\ d.arg = selectedId => Covers(d.arg, d.answer.last)
    BY ShownIsPast DEF Covers, Found
  <2>2. UNCHANGED <<selectedId, eventState, detailState, errors, due>>
    BY <1>4 DEF Serve
  <2> QED BY <1>4, <2>1, <2>2 DEF Covers
<1>5. ASSUME NEW c \in calls, ShowEvents(c), "detail" \notin due' PROVE Abreast'
  <2>1. CallOK(c) /\ Found(c) = Match[c.arg] /\ Match[c.arg] \subseteq Events
    BY <1>5, CockpitAssumption DEF ShowEvents, CockpitTypeInv, CallsOK, CallOK, Found
  <2>2. eventState'.last = c.answer.last /\ Read(c.answer.last, Found(c))
    BY <1>5, <2>1 DEF ShowEvents, CallOK
  <2>3. \A e \in DOMAIN eventState'.last : eventState'.last[e] \in 0..MaxChanges
    BY <2>1, <2>2, CockpitAssumption DEF Read, CockpitTypeInv, DatabaseOK
  <2>4. Revision(eventState', selectedId) = Revision(eventState, selectedId) /\ due' = due
    BY <1>5 DEF ShowEvents, RevisionMoved
  <2>5. /\ selectedId \in DOMAIN eventState'.last <=> selectedId \in DOMAIN eventState.last
        /\ selectedId \in DOMAIN eventState'.last => eventState'.last[selectedId] = eventState.last[selectedId]
    BY <2>3, <2>4, SameRevision
  <2> QED BY <1>5, <2>4, <2>5 DEF ShowEvents, End, Covers
<1>6. ASSUME NEW c \in calls, ShowDetail(c) PROVE Abreast'
  BY <1>6 DEF ShowDetail, End, Sole, Covers
<1>7. ASSUME NEW c \in calls, Fail(c), "detail" \notin due' PROVE Abreast'
  <2>1. Revision(eventState', selectedId) = Revision(eventState, selectedId) /\ due' = due
    BY <1>7 DEF Fail, RevisionMoved
  <2>2. /\ selectedId \in DOMAIN eventState'.last <=> selectedId \in DOMAIN eventState.last
        /\ selectedId \in DOMAIN eventState'.last => eventState'.last[selectedId] = eventState.last[selectedId]
    <3>1. CASE eventState' = eventState
      BY <3>1
    <3>2. CASE eventState' = Nothing
      BY <3>2, <2>1, SameRevision, NothingRead
    <3> QED BY <1>7, <3>1, <3>2 DEF Fail
  <2> QED BY <1>7, <2>1, <2>2 DEF Fail, End, Covers
<1>8. ASSUME NEW c \in calls, NEW p \in Filters \cup {NoOne}, ApplyQuestion(c, p) PROVE Abreast'
  BY <1>8 DEF ApplyQuestion, End, ParamsMoved, Covers
<1>9. ASSUME NEW p \in Filters, SetFilters(p) PROVE Abreast'
  BY <1>9 DEF SetFilters, ParamsMoved, Covers
<1>10. CASE RunEffects
  <2>1. CASE "detail" \in due /\ selectedId # NoOne
    <3>1. Call("detail", selectedId, 0, Unread) \in Asked
      BY <2>1 DEF Asked
    <3>2. \A c \in calls' : c.kind = "detail" => c.arg = selectedId /\ ~c.answer.read
      BY <1>10, <2>1, AskedCalls DEF RunEffects, Aborted
    <3>3. Of({"detail"})' # {}
      BY <1>10, <3>1, CallFields DEF RunEffects
    <3> QED BY <1>10, <3>2, <3>3 DEF RunEffects
  <2>2. CASE "detail" \in due /\ selectedId = NoOne
    BY <1>10, <2>2, AskedCalls DEF RunEffects, Aborted
  <2>3. CASE "detail" \notin due
    <3>1. \A c : c.kind = "detail" => (c \in calls' <=> c \in calls)
      BY <1>10, <2>3, AskedCalls DEF RunEffects, Aborted
    <3> QED BY <1>10, <2>3, <3>1 DEF RunEffects, Covers
  <2> QED BY <2>1, <2>2, <2>3
<1>11. CASE Refresh
  BY <1>11 DEF Refresh
<1>12. CASE RetryDetail
  BY <1>12 DEF RetryDetail
<1>13. CASE SubmitQuestion
  <2>1. \A c : c.kind = "detail" => (c \in calls' <=> c \in calls)
    BY <1>13, CallFields DEF SubmitQuestion, Aborted
  <2> QED BY <1>13, <2>1 DEF SubmitQuestion, Covers
<1> QED
  BY <1>0, <1>1, <1>2, <1>3, <1>4, <1>5, <1>6, <1>7, <1>8, <1>9, <1>10, <1>11, <1>12, <1>13
     DEF CockpitNext

(* An answer to a question is applied in its own generation only.          *)
LEMMA UnansweredStep == CockpitTypeInv /\ Sole /\ Unanswered /\ [CockpitNext]_cockpitVars => Unanswered'
<1> SUFFICES ASSUME CockpitTypeInv, Sole, Unanswered, [CockpitNext]_cockpitVars PROVE Unanswered'
  OBVIOUS
<1> USE DEF Unanswered, ManualFiltersStay
<1>1. CASE UNCHANGED viewVars /\ \A c \in calls' : c.kind = "query" => c \in calls
  BY <1>1 DEF viewVars
<1>2. ASSUME NEW e \in Events, Select(e) PROVE Unanswered'
  BY <1>2 DEF Select
<1>3. ASSUME NEW c \in calls, NEW p \in Filters \cup {NoOne}, ApplyQuestion(c, p) PROVE Unanswered'
  BY <1>3 DEF ApplyQuestion, Applies, End
<1>4. ASSUME NEW p \in Filters, SetFilters(p) PROVE Unanswered'
  BY <1>4 DEF SetFilters, CockpitTypeInv, ViewOK, CallsOK, CallOK
<1>5. CASE SubmitQuestion
  BY <1>5 DEF SubmitQuestion
<1>6. ASSUME NEW c \in calls, Serve(c) PROVE UNCHANGED viewVars /\ \A x \in calls' : x.kind = "query" => x \in calls
  BY <1>6, ServedCall DEF Serve
<1>7. CASE RunEffects
  BY <1>7, AskedCalls, <1>1 DEF RunEffects
<1>8. \/ UNCHANGED viewVars /\ calls' \subseteq calls
      \/ (\E e \in Events : Select(e)) \/ (\E c \in calls : Serve(c))
      \/ (\E c \in calls, p \in Filters \cup {NoOne} : ApplyQuestion(c, p))
      \/ (\E p \in Filters : SetFilters(p)) \/ SubmitQuestion \/ RunEffects
  BY DEF CockpitNext, cockpitVars, Change, ShowEvents, ShowDetail, Fail, End, Refresh, RetryDetail
<1> QED BY <1>1, <1>2, <1>3, <1>4, <1>5, <1>6, <1>7, <1>8

LEMMA CockpitInitInv == CockpitInit => CockpitInv
<1> SUFFICES ASSUME CockpitInit PROVE CockpitInv
  OBVIOUS
<1> USE DEF CockpitInit
<1>1. DatabaseOK /\ ViewOK /\ ListOK /\ DetailOK
  BY CockpitAssumption DEF DatabaseOK, ViewOK, ListOK, DetailOK
<1>2. CallsOK
  BY UnreadCallOK, CockpitAssumption DEF CallsOK, Kinds
<1>3. Sole /\ Unanswered
  BY CallFields DEF Sole, Unanswered, ManualFiltersStay
<1>4. Ahead /\ Abreast
  BY CallFields, NothingRead DEF Ahead, Abreast, Of
<1> QED BY <1>1, <1>2, <1>3, <1>4 DEF CockpitInv, CockpitTypeInv

LEMMA CockpitNextInv == CockpitInv /\ [CockpitNext]_cockpitVars => CockpitInv'
BY TypeStep, SoleStep, AheadStep, AbreastStep, UnansweredStep DEF CockpitInv

(* One call of a kind, its answer newer than what is shown, the evidence   *)
(* that of the list (Monitor.tsx: its effects, select, submitQuestion).    *)
THEOREM CockpitInvariant == CockpitSpec => []CockpitInv
BY CockpitInitInv, CockpitNextInv, PTL DEF CockpitSpec

(* Evidence that is not being read is that of the selected event and no    *)
(* older than its row (Monitor.tsx:58, 102-115).                           *)
THEOREM EvidenceCorrect == CockpitSpec => []EvidenceKeepsUp
<1>1. CockpitInv => EvidenceKeepsUp
  BY DEF CockpitInv, Abreast, Covers, EvidenceKeepsUp
<1> QED BY <1>1, CockpitInvariant, PTL

(* Filters set by hand outlive the answer to an earlier question           *)
(* (Monitor.tsx:147, 157-166).                                             *)
THEOREM FiltersCorrect == CockpitSpec => []ManualFiltersStay
<1>1. CockpitInv => ManualFiltersStay
  BY DEF CockpitInv, Unanswered
<1> QED BY <1>1, CockpitInvariant, PTL

(* Lists and evidence never give way to older readings of the same         *)
(* (Monitor.tsx:67-75, 102-115).                                           *)
THEOREM ReadingsCorrect == CockpitSpec => ReadingsNeverGoBack
<1>1. ASSUME CockpitInv, [CockpitNext]_cockpitVars
      PROVE  Newer(eventState', eventState) /\ Newer(detailState', detailState)
  <2>0. ASSUME NEW shown, shown \in {eventState, detailState} PROVE Newer(shown, shown)
    BY <2>0, ShownIsPast, <1>1 DEF Newer, CockpitInv
  <2>1. CASE UNCHANGED readVars
    BY <2>0, <2>1 DEF readVars
  <2>2. ASSUME NEW c \in calls, ShowEvents(c) PROVE Newer(eventState', eventState) /\ detailState' = detailState
    <3>1. /\ eventState'.key = c.arg /\ eventState'.last = c.answer.last
          /\ c.kind = "events" /\ c.answer.read /\ detailState' = detailState
      BY <2>2 DEF ShowEvents
    <3>2. eventState.key = c.arg => DOMAIN eventState.last = Found(c)
      BY <1>1, <3>1, NothingRead, CockpitAssumption
         DEF CockpitInv, CockpitTypeInv, CallsOK, CallOK, ListOK, Read, Found
    <3> QED BY <1>1, <3>1, <3>2 DEF CockpitInv, Ahead, Newer
  <2>3. ASSUME NEW c \in calls, ShowDetail(c) PROVE Newer(detailState', detailState) /\ eventState' = eventState
    <3>1. /\ detailState'.key = c.arg /\ detailState'.last = c.answer.last
          /\ c.kind = "detail" /\ c.answer.read /\ eventState' = eventState
      BY <2>3 DEF ShowDetail
    <3>2. detailState.key = c.arg => DOMAIN detailState.last = Found(c)
      BY <1>1, <3>1, NothingRead, CockpitAssumption
         DEF CockpitInv, CockpitTypeInv, CallsOK, CallOK, DetailOK, Read, Found
    <3> QED BY <1>1, <3>1, <3>2 DEF CockpitInv, Ahead, Newer
  <2>4. ASSUME NEW c \in calls, Fail(c) PROVE Newer(eventState', eventState) /\ detailState' = detailState
    <3>1. eventState' \in {eventState, Nothing} /\ detailState' = detailState
      BY <2>4 DEF Fail
    <3>2. eventState.key = NoOne => DOMAIN eventState.last = {}
      BY <1>1, NothingRead, CockpitAssumption DEF CockpitInv, CockpitTypeInv, ListOK
    <3> QED BY <2>0, <3>1, <3>2, NothingRead DEF Newer
  <2>5. UNCHANGED readVars \/ \E c \in calls : ShowEvents(c) \/ ShowDetail(c) \/ Fail(c)
    BY <1>1 DEF CockpitNext, cockpitVars, Change, Select, Serve, ApplyQuestion, SetFilters, RunEffects,
           Refresh, RetryDetail, SubmitQuestion
  <2> QED BY <2>0, <2>1, <2>2, <2>3, <2>4, <2>5
<1>2. CockpitInv /\ [CockpitNext]_cockpitVars
        => [Newer(eventState', eventState) /\ Newer(detailState', detailState)]_cockpitVars
  BY <1>1
<1> QED BY <1>2, CockpitInvariant, PTL DEF CockpitSpec, ReadingsNeverGoBack

(* BriefingPanel: a briefing that was asked for is newer than the one that *)
(* is shown, and the latest is shown only before any was asked for.        *)
CallState(call) == call.state \in {"none", "asked", "answered"} /\ call.number \in 0..stored

PanelInv ==
  /\ stored \in Nat /\ briefing \in 0..stored /\ briefingGeneration \in Nat
  /\ CallState(reading) /\ CallState(making)
  /\ briefingGeneration = 0 => making.state = "none"
  /\ briefingGeneration = 0 /\ reading.state = "answered" => briefing = 0
  /\ briefingGeneration = 0 /\ reading.state = "asked" => briefing = 0
  /\ making.state = "answered" => making.number >= briefing

LEMMA PanelCalls ==
  /\ Pending.state = "asked" /\ Pending.number = 0 /\ NoCall.state = "none" /\ NoCall.number = 0
  /\ \A n : Answered(n).state = "answered" /\ Answered(n).number = n
BY DEF Pending, NoCall, Answered

LEMMA PanelNextInv ==
  PanelInv /\ [PanelNext]_panelVars => PanelInv' /\ (Reload \/ briefing' >= briefing \/ UNCHANGED panelVars)
<1> SUFFICES ASSUME PanelInv, [PanelNext]_panelVars
             PROVE  PanelInv' /\ (Reload \/ briefing' >= briefing \/ UNCHANGED panelVars)
  OBVIOUS
<1> USE PanelCalls, BriefingsAssumption DEF PanelInv, CallState
<1>1. CASE UNCHANGED panelVars
  BY <1>1 DEF panelVars
<1>2. CASE Reload
  BY <1>2 DEF Reload
<1>3. CASE ReadLatest
  BY <1>3 DEF ReadLatest
<1>4. CASE MakeBriefing
  BY <1>4 DEF MakeBriefing, Store
<1>5. CASE MakeUnseen
  BY <1>5 DEF MakeUnseen, Store
<1>6. CASE ShowLatest
  BY <1>6 DEF ShowLatest, Current
<1>7. CASE LatestFails
  BY <1>7 DEF LatestFails
<1>8. CASE CreateBriefing
  BY <1>8 DEF CreateBriefing
<1>9. CASE ShowMade
  BY <1>9 DEF ShowMade
<1>10. CASE MakingFails
  BY <1>10 DEF MakingFails
<1> QED BY <1>1, <1>2, <1>3, <1>4, <1>5, <1>6, <1>7, <1>8, <1>9, <1>10 DEF PanelNext

(* The briefing shown is never replaced by an older one, in whatever order *)
(* answers arrive (Monitor.tsx:92-99, 172-182).                            *)
THEOREM BriefingCorrect == PanelSpec => BriefingNeverOlder
<1>1. PanelInit => PanelInv
  BY PanelCalls, BriefingsAssumption DEF PanelInit, PanelInv, CallState
<1>2. PanelInv /\ [PanelNext]_panelVars => [Reload \/ briefing' >= briefing]_panelVars
  BY PanelNextInv
<1>3. PanelInv /\ [PanelNext]_panelVars => PanelInv'
  BY PanelNextInv
<1> QED BY <1>1, <1>2, <1>3, PTL DEF PanelSpec, BriefingNeverOlder

(***************************************************************************)
(* What the copies of the database hold, for every number of copies and of *)
(* commits.  A pair of files says the same because expected and the dump   *)
(* are both of the exported state while a backup is under way (UnderWay),  *)
(* and because a dump that is no longer the backup's own has lost its      *)
(* suffix, or is not whole, before it meets another manifest.              *)
(***************************************************************************)

File == [kind : {"none", "part", "damaged", "whole"}, state : Nat]

BackupTypeOK ==
  /\ live \in Nat /\ exported \in Nat /\ began \in Nat /\ expected \in Nat /\ trial \in Nat
  /\ snapshot \in {"none", "open", "lost"}
  /\ step \in {"idle", "export", "fingerprint", "dump", "manifest", "apply", "compare"}
  /\ step # "idle" => copy \in Copies
  /\ detaches \in BOOLEAN
  /\ dump \in [Copies -> File] /\ manifest \in [Copies -> File]
  /\ suffix \in [Copies -> {".dump", ".incomplete"}]

(* What the backup under way has found and written so far.                 *)
UnderWay ==
  /\ step \in {"export", "fingerprint", "dump", "manifest", "apply"} =>
       began <= live /\ suffix[copy] = ".dump"
  /\ step \in {"fingerprint", "dump", "manifest"} => exported \in began..live
  /\ step \in {"dump", "manifest"} => expected = exported
  /\ step = "manifest" => dump[copy] = Holds(exported)
  /\ step = "apply" => Readable(copy) /\ dump[copy].state \in began..live
  /\ step = "compare" => dump[copy].state = trial /\ manifest[copy].state = trial

PairsAgree == \A c \in Copies : Readable(c) => dump[c].state = manifest[c].state
Unwritten == \A c \in Copies : dump[c] = NoFile => suffix[c] = ".dump"

BackupInv ==
  BackupTypeOK /\ UnderWay /\ PairsAgree /\ Unwritten /\ verdict # "differs"

LEMMA FilesAreFiles ==
  /\ NoFile \in File /\ Partly \in File /\ Damaged \in File
  /\ \A n \in Nat : Holds(n) \in File /\ Holds(n).kind = "whole" /\ Holds(n).state = n
  /\ NoFile.kind = "none" /\ Partly.kind = "part" /\ Damaged.kind = "damaged"
  /\ \A n \in Nat : Holds(n) # NoFile /\ Partly # NoFile /\ Damaged # NoFile
BY DEF File, NoFile, Partly, Damaged, Holds

LEMMA BackupInitInv == BackupInit => BackupInv
<1> SUFFICES ASSUME BackupInit PROVE BackupInv
  OBVIOUS
<1> USE DEF BackupInit
<1>1. BackupTypeOK
  BY FilesAreFiles DEF BackupTypeOK
<1>2. UnderWay
  BY DEF UnderWay
<1>3. PairsAgree /\ Unwritten
  BY FilesAreFiles DEF PairsAgree, Unwritten, Readable
<1> QED BY <1>1, <1>2, <1>3 DEF BackupInv

LEMMA BackupNextInv == BackupInv /\ [BackupNext]_backupVars => BackupInv'
<1> SUFFICES ASSUME BackupInv, [BackupNext]_backupVars PROVE BackupInv'
  OBVIOUS
<1> USE FilesAreFiles, CommitsAssumption
<1> USE DEF BackupInv, BackupTypeOK, UnderWay, PairsAgree, Unwritten, Readable, Go
<1>1. CASE UNCHANGED backupVars
  BY <1>1 DEF backupVars, commandVars, fileVars, trialVars
<1>2. CASE Commit
  BY <1>2 DEF Commit, commandVars, fileVars, trialVars
<1>3. CASE DatabaseRestarts
  BY <1>3 DEF DatabaseRestarts, commandVars, fileVars, trialVars
<1>4. ASSUME NEW c \in Copies, Damage(c) PROVE BackupInv'
  BY <1>4 DEF Damage, commandVars, trialVars
<1>5. ASSUME NEW c \in Copies, Deleted(c) PROVE BackupInv'
  BY <1>5 DEF Deleted, commandVars, trialVars
<1>6. ASSUME NEW c \in Copies, NEW apply \in BOOLEAN, Begin(c, apply) PROVE BackupInv'
  BY <1>6 DEF Begin, fileVars
<1>7. CASE Export
  BY <1>7 DEF Export, fileVars, trialVars
<1>8. CASE Fingerprint
  BY <1>8 DEF Fingerprint, Fingerprinted, trialVars
<1>9. CASE Dump
  BY <1>9 DEF Dump, trialVars
<1>10. CASE Manifest
  BY <1>10 DEF Manifest, AfterBackup, trialVars
<1>11. CASE BackupFails
  BY <1>11 DEF BackupFails, trialVars
<1>12. CASE Killed
  BY <1>12 DEF Killed, fileVars, trialVars
<1>13. CASE Apply
  BY <1>13 DEF Apply, fileVars, trialVars
<1>14. ASSUME NEW c \in Copies, Restore(c) PROVE BackupInv'
  <2>1. dump[c].state \in Nat
    BY DEF File
  <2> QED BY <1>14, <2>1 DEF Restore, fileVars
<1>15. CASE Compare
  BY <1>15 DEF Compare, fileVars
<1> QED
  BY <1>1, <1>2, <1>3, <1>4, <1>5, <1>6, <1>7, <1>8, <1>9, <1>10, <1>11, <1>12, <1>13,
     <1>14, <1>15 DEF BackupNext

(* The invariant holds throughout: what the files of a backup under way    *)
(* hold, whatever is committed, fails, is killed or damaged (manage.py     *)
(* backup, restore_check, main).                                           *)
THEOREM BackupInvariant == BackupSpec => []BackupInv
BY BackupInitInv, BackupNextInv, PTL DEF BackupSpec

(* A dump and a manifest that restore-check accepts describe one state     *)
(* (manage.py:138-157), for any number of copies and commits.              *)
THEOREM PairsCorrect == BackupSpec => []PairsDescribeOneState
<1>1. BackupInv => PairsDescribeOneState
  BY DEF BackupInv, PairsAgree, PairsDescribeOneState
<1> QED BY <1>1, BackupInvariant, PTL

(* detach-source --apply writes its decision only behind a copy of the     *)
(* database as it was before (manage.py:265-268).                          *)
THEOREM AppliedCorrect == BackupSpec => AppliedAfterCopy
<1>1. BackupInv /\ [BackupNext]_backupVars
        => [step = "apply" /\ live' # live =>
              Readable(copy) /\ dump[copy].state \in began..live]_backupVars
  BY DEF BackupInv, UnderWay
<1> QED BY <1>1, BackupInvariant, PTL DEF BackupSpec, AppliedAfterCopy
=============================================================================
