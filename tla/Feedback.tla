------------------------------ MODULE Feedback ------------------------------
(***************************************************************************)
(* What is handed in about one appointment: images as evidence, by the     *)
(* tenant during and after the service or by the customer afterwards, and  *)
(* the customer's survey.  An image is kept by an external store, outside  *)
(* the transaction that records it.                                        *)
(***************************************************************************)
EXTENDS Naturals

CONSTANTS
  Clients,    \* requests served at the same time
  Vacant,     \* no request, no document
  FileIds,    \* storage keys the store may give
  EntryKeys,  \* idempotency keys
  Contents    \* images, ratings and comments, as the fingerprint sees them

Scopes == {"SERVICE", "SURVEY"}
Prints == (Scopes \X Contents) \cup (Contents \X (EntryKeys \cup {Vacant}))

\* The two documents, what a request keeps between its steps, and an answer.
EvidenceRow == [scope : Scopes, file : FileIds, print : Prints,
                actor : {"CUSTOMER", "TENANT_USER"}]
SurveyRow == [evidence : EntryKeys \cup {Vacant}, key : EntryKeys, print : Prints]
Handled ==
  [stage : {"store"}, scope : Scopes, key : EntryKeys, print : Prints]
    \cup [stage : {"record"}, scope : Scopes, file : FileIds, key : EntryKeys,
          print : Prints]
    \cup [stage : {"undo"}, file : FileIds, key : EntryKeys, print : Prints,
          duplicate : BOOLEAN]
    \cup [stage : {"survey"}, evidence : EntryKeys \cup {Vacant},
          key : EntryKeys, print : Prints]

ASSUME VacantAssumption == Vacant \notin EvidenceRow \cup SurveyRow \cup Handled

VARIABLES
  visit,     \* the appointment's status
  open,      \* whether the tenant is active
  evidence,  \* the evidence recorded under each key
  survey,    \* the survey response
  timeline,  \* timeline events of evidence and survey
  store,     \* images in the store
  client,    \* what each request is doing
  answers,   \* successful answers: to which request, with which document
  strays,    \* images left behind by a death or a failed deletion
  unacked    \* images of rows whose commit was not acknowledged

feedbackVars == <<visit, open, evidence, survey, timeline, store, client,
                  answers, strays, unacked>>

\* The customer hands in evidence for the survey, the tenant for the service.
actorOf(scope) == IF scope = "SURVEY" THEN "CUSTOMER" ELSE "TENANT_USER"

\* A customer's request finds the appointment only while the tenant is active.
load(scope) == scope = "SERVICE" \/ open

assertStatus(scope) ==
  visit \in IF scope = "SURVEY" THEN {"COMPLETED"}
            ELSE {"IN_PROGRESS", "COMPLETED", "NO_SHOW"}

\* Storage keys on record.
recorded == {evidence[k].file : k \in {k \in EntryKeys : evidence[k] # Vacant}}

\* Mutated form: the fingerprint of a repeated request is not compared.
replayViewAny(key, print) ==
  {[print |-> print, key |-> key, kind |-> "evidence", row |-> evidence[key]]}

\* The answer to a request whose key has evidence already: none, a conflict,
\* if it was a different request.
replayView(key, print) ==
  IF evidence[key].print = print
  THEN {[print |-> print, key |-> key, kind |-> "evidence",
         row |-> evidence[key]]}
  ELSE {}

\* The two documents of the feedback effects: the timeline event (the audit
\* event goes with it) in the transaction of the row.
recordEffects(kind, key) == timeline' = timeline \cup {<<kind, key>>}

-----------------------------------------------------------------------------
(* Evidence *)

\* Checks and the look for an earlier upload with the key, before the image
\* goes to the store; the file policy has already passed the content.
upload(w) ==
  /\ client[w] = Vacant
  /\ \E scope \in Scopes, key \in EntryKeys, content \in Contents :
       LET print == <<scope, content>>
       IN /\ load(scope) /\ assertStatus(scope)
          /\ IF evidence[key] # Vacant
             THEN answers' = answers \cup replayView(key, print) /\ UNCHANGED client
             ELSE /\ client' = [client EXCEPT ![w] =
                       [stage |-> "store", scope |-> scope, print |-> print,
                        key |-> key]]
                  /\ UNCHANGED answers
  /\ UNCHANGED <<visit, open, evidence, survey, timeline, store, strays, unacked>>

\* The store may refuse, or keep the image and answer with something the code
\* does not accept.
uploadPrivateImage(w) ==
  /\ client[w] # Vacant /\ client[w].stage = "store"
  /\ \/ /\ client' = [client EXCEPT ![w] = Vacant]
        /\ UNCHANGED <<store, strays>>
     \/ LET f == CHOOSE f \in FileIds \ (store \cup recorded) : TRUE IN
          /\ FileIds \ (store \cup recorded) # {}
          /\ store' = store \cup {f}
          /\ \/ /\ client' = [client EXCEPT ![w] =
                     [stage |-> "record", scope |-> @.scope, file |-> f,
                      print |-> @.print, key |-> @.key]]
                /\ UNCHANGED strays
             \/ /\ client' = [client EXCEPT ![w] = Vacant]
                /\ strays' = strays \cup {f}
  /\ UNCHANGED <<visit, open, evidence, survey, timeline, answers, unacked>>

\* The transaction: the appointment is checked again, the key decides which of
\* two uploads is recorded.  It may fail for another reason, or succeed
\* without the driver ever learning it.
recordEvidence(w) ==
  /\ client[w] # Vacant /\ client[w].stage = "record"
  /\ LET t == client[w]
         row == [scope |-> t.scope, file |-> t.file, print |-> t.print,
                 actor |-> actorOf(t.scope)]
         undo(dup) == [stage |-> "undo", file |-> t.file, print |-> t.print,
                       key |-> t.key, duplicate |-> dup]
     IN \/ /\ load(t.scope) /\ assertStatus(t.scope) /\ evidence[t.key] = Vacant
           /\ evidence' = [evidence EXCEPT ![t.key] = row]
           /\ recordEffects("evidence", t.key)
           /\ \/ /\ client' = [client EXCEPT ![w] = Vacant]
                 /\ answers' = answers \cup {[print |-> t.print,
                                              key |-> t.key,
                                              kind |-> "evidence",
                                              row |-> row]}
                 /\ UNCHANGED unacked
              \/ /\ client' = [client EXCEPT ![w] = undo(FALSE)]
                 /\ unacked' = unacked \cup {t.file}
                 /\ UNCHANGED answers
        \/ /\ \E dup \in {FALSE, evidence[t.key] # Vacant} :
                client' = [client EXCEPT ![w] = undo(dup)]
           /\ UNCHANGED <<evidence, timeline, answers, unacked>>
  /\ UNCHANGED <<visit, open, survey, store, strays>>

\* Mutated form: the image deleted is the one recorded under the key.
undoOther(w) ==
  /\ client[w] # Vacant /\ client[w].stage = "undo"
  /\ LET t == client[w]
         f == IF t.duplicate THEN evidence[t.key].file ELSE t.file
     IN /\ \/ store' = store \ {f} /\ UNCHANGED strays
           \/ strays' = strays \cup {t.file} /\ UNCHANGED store
        /\ answers' = answers \cup
             (IF t.duplicate THEN replayView(t.key, t.print) ELSE {})
  /\ client' = [client EXCEPT ![w] = Vacant]
  /\ UNCHANGED <<visit, open, evidence, survey, timeline, unacked>>

\* After any failure of the transaction its image is deleted, if the store
\* obliges; if the key was taken, the request is answered as a repetition.
undoUpload(w) ==
  /\ client[w] # Vacant /\ client[w].stage = "undo"
  /\ LET t == client[w]
     IN /\ \/ store' = store \ {t.file} /\ UNCHANGED strays
           \/ strays' = strays \cup {t.file} /\ UNCHANGED store
        /\ answers' = answers \cup
             (IF t.duplicate THEN replayView(t.key, t.print) ELSE {})
  /\ client' = [client EXCEPT ![w] = Vacant]
  /\ UNCHANGED <<visit, open, evidence, survey, timeline, unacked>>

-----------------------------------------------------------------------------
(* Survey *)

\* What a survey may refer to: nothing, or the customer's own evidence.
surveyEvidence ==
  {Vacant} \cup {k \in EntryKeys : /\ evidence[k] # Vacant
                                   /\ evidence[k].scope = "SURVEY"
                                   /\ evidence[k].actor = "CUSTOMER"}

\* The answer when there is a response: none, a conflict, unless it is a repetition.
assertReplay(key, print) ==
  IF survey.key = key /\ survey.print = print
  THEN {[print |-> print, key |-> key, kind |-> "survey", row |-> survey]}
  ELSE {}

\* The transaction decides on its snapshot ...
submit(w) ==
  /\ client[w] = Vacant
  /\ load("SURVEY") /\ visit = "COMPLETED"
  /\ \E key \in EntryKeys, content \in Contents, e \in surveyEvidence :
       LET print == <<content, e>>
       IN IF survey # Vacant
          THEN answers' = answers \cup assertReplay(key, print) /\ UNCHANGED client
          ELSE /\ client' = [client EXCEPT ![w] =
                    [stage |-> "survey", print |-> print, evidence |-> e,
                     key |-> key]]
               /\ UNCHANGED answers
  /\ UNCHANGED <<visit, open, evidence, survey, timeline, store, strays, unacked>>

\* ... and commits, unless the unique index knows a response by then.
createSurvey(w) ==
  /\ client[w] # Vacant /\ client[w].stage = "survey"
  /\ LET t == client[w]
         row == [print |-> t.print, evidence |-> t.evidence, key |-> t.key]
     IN IF survey # Vacant
        THEN /\ answers' = answers \cup assertReplay(t.key, t.print)
             /\ UNCHANGED <<survey, timeline>>
        ELSE /\ survey' = row
             /\ recordEffects("survey", t.key)
             /\ answers' = answers \cup {[print |-> t.print, key |-> t.key,
                                          kind |-> "survey", row |-> row]}
  /\ client' = [client EXCEPT ![w] = Vacant]
  /\ UNCHANGED <<visit, open, evidence, store, strays, unacked>>

-----------------------------------------------------------------------------
(* The surroundings *)

\* The process serving a request dies.
feedbackLost(w) ==
  /\ client[w] # Vacant
  /\ strays' = IF client[w].stage \in {"record", "undo"}
               THEN strays \cup {client[w].file} ELSE strays
  /\ client' = [client EXCEPT ![w] = Vacant]
  /\ UNCHANGED <<visit, open, evidence, survey, timeline, store, answers, unacked>>

\* The appointment goes its way (Booking) and so does the tenant (Tenancy).
serveAppointment ==
  /\ \/ visit = "CONFIRMED" /\ visit' = "IN_PROGRESS"
     \/ visit = "IN_PROGRESS" /\ visit' \in {"COMPLETED", "NO_SHOW"}
  /\ UNCHANGED <<open, evidence, survey, timeline, store, client, answers,
                 strays, unacked>>

toggleTenant ==
  /\ open' = ~open
  /\ UNCHANGED <<visit, evidence, survey, timeline, store, client, answers,
                 strays, unacked>>

FeedbackInit ==
  /\ visit = "CONFIRMED" /\ open = TRUE
  /\ evidence = [k \in EntryKeys |-> Vacant]
  /\ survey = Vacant
  /\ client = [w \in Clients |-> Vacant]
  /\ timeline = {} /\ store = {} /\ answers = {} /\ strays = {} /\ unacked = {}

FeedbackNext ==
  \/ \E w \in Clients :
       \/ upload(w) \/ uploadPrivateImage(w) \/ recordEvidence(w) \/ undoUpload(w)
       \/ submit(w) \/ createSurvey(w) \/ feedbackLost(w)
  \/ serveAppointment
  \/ toggleTenant

FeedbackSpec == FeedbackInit /\ [][FeedbackNext]_feedbackVars

-----------------------------------------------------------------------------
(* Properties *)

\* The store and the records agree although no transaction spans them: the
\* image of recorded evidence is there, unless the acknowledgement of its
\* commit was lost and the upload undone; an image without record belongs to
\* an upload under way, or to one that died or could not delete it.
StoreMatchesRecords ==
  LET held == {client[w].file : w \in {w \in Clients : client[w] # Vacant
                                   /\ client[w].stage \in {"record", "undo"}}}
  IN /\ recorded \ unacked \subseteq store
     /\ store \subseteq recorded \cup held \cup strays

\* A key stands for one request: every successful answer under it, first or
\* repeated, is to the same request and with the same document, that document
\* is on record, and it is on the timeline once; there is one survey.
FeedbackOnce ==
  /\ \A a, b \in answers :
       (a.kind = b.kind /\ (a.key = b.key \/ a.kind = "survey")) => a = b
  /\ \A a \in answers :
       a.row = IF a.kind = "survey" THEN survey ELSE evidence[a.key]
  /\ timeline = {<<"evidence", k>> : k \in {k \in EntryKeys : evidence[k] # Vacant}}
                \cup (IF survey = Vacant THEN {} ELSE {<<"survey", survey.key>>})
=============================================================================
