----------------------------- MODULE TrailReader -----------------------------
(***************************************************************************)
(* The web app's reader of the audit trail (apps/web/src/lib/hcs.ts, use-hcs *)
(* and audit-trail.tsx): it follows the mirror node's pages newest first, up *)
(* to a bound, joins the chunks of each submission and keeps what it can     *)
(* decode, while the API and the payment gate go on writing.                 *)
(*                                                                           *)
(* External: the topic, onto which the chunks of submissions that run at the *)
(* same time may interleave, and the mirror node, which pages back from the  *)
(* oldest message it has handed out.                                         *)
(***************************************************************************)
EXTENDS Integers, Sequences, SequencesExt, Totals

CONSTANTS
  Submissions,   \* everything ever submitted to the topic
  ChunksOf,      \* submission -> number of its chunks
  Marked,        \* attestations of the invoice on screen that carry a logo
  Plain,         \* attestations of it without one
  PageSize,      \* messages on a page of the mirror node
  MAX_PAGES

VARIABLES
  topic,    \* the messages, oldest first: [of, number]
  cursor,   \* position of the oldest message fetched, Absent when nothing is read
  fetched,  \* the messages fetched, newest first
  trail,    \* what the query last answered: submissions, Absent before
  covers,   \* history: the positions of the topic that answer covers
  topicError    \* the query's error

CONSTANT Absent

ASSUME ReaderAssumption ==
  /\ ChunksOf \in [Submissions -> Nat \ {0}]
  /\ Marked \subseteq Submissions /\ Plain \subseteq Submissions
  /\ PageSize \in Nat \ {0} /\ MAX_PAGES \in Nat \ {0}
  /\ Absent \notin Nat \cup Submissions /\ Absent \notin Seq(Submissions)

readerVars == <<topic, cursor, fetched, trail, covers, topicError>>

Message == [of: Submissions, number: Nat \ {0}]
Written(s) == Cardinality({i \in DOMAIN topic : topic[i].of = s})

ReaderTypeOK ==
  /\ topic \in Seq(Message) /\ fetched \in Seq(Message)
  /\ cursor \in {Absent} \cup 1 .. Len(topic) + 1
  /\ trail \in Seq(Submissions) \cup {Absent}
  /\ covers \subseteq 1 .. Len(topic) /\ topicError \in BOOLEAN
  \* what is fetched is what the topic holds there
  /\ IF cursor = Absent THEN fetched = <<>>
     ELSE Len(fetched) + cursor - 1 <= Len(topic)
          /\ fetched = Reverse(SubSeq(topic, cursor, cursor + Len(fetched) - 1))

ReaderInit ==
  /\ topic = <<>> /\ cursor = Absent /\ fetched = <<>>
  /\ trail = Absent /\ covers = {} /\ topicError = FALSE

-----------------------------------------------------------------------------
(* The next chunk of a submission reaches consensus. *)
Consensus(s) ==
  /\ Written(s) < ChunksOf[s]
  /\ topic' = Append(topic, [of |-> s, number |-> Written(s) + 1])
  /\ UNCHANGED <<cursor, fetched, trail, covers, topicError>>

(* fetchTopic begins: when the page opens, when the cached answer is old, and by
   the button of the error.  The error stays on screen over an older answer. *)
FetchTopic ==
  /\ cursor = Absent
  /\ cursor' = Len(topic) + 1 /\ fetched' = <<>>
  /\ topicError' = (topicError /\ trail # Absent)
  /\ UNCHANGED <<topic, trail, covers>>

PagesRead == (Len(fetched) + PageSize - 1) \div PageSize

(* One page more, for as long as there is a next one and the bound allows. *)
FetchPage ==
  /\ cursor # Absent /\ cursor > 1 /\ PagesRead < MAX_PAGES
  /\ LET from == IF cursor > PageSize THEN cursor - PageSize ELSE 1
     IN  /\ fetched' = fetched \o Reverse(SubSeq(topic, from, cursor - 1))
         /\ cursor' = from
  /\ UNCHANGED <<topic, trail, covers, topicError>>

(* The mirror node answers with an error: the query keeps what it had. *)
FetchFails ==
  /\ cursor # Absent /\ cursor' = Absent /\ fetched' = <<>> /\ topicError' = TRUE
  /\ UNCHANGED <<topic, trail, covers>>

-----------------------------------------------------------------------------
Single(s) == ChunksOf[s] = 1
Parts(w, s) == {w[i].number : i \in {j \in DOMAIN w : w[j].of = s}}

(* Mutant of Complete: the holes of a sparse array are skipped. *)
CompleteSparse(w, s) == Parts(w, s) # {}

(* Complete: every slice of the submission is there. *)
Complete(w, s) == Parts(w, s) = 1 .. ChunksOf[s]

(* joinChunks: messages that are whole in the order they came, then the
   submissions that were split in the order of their first slice. *)
joinChunks(w) ==
  LET whole == Ascending({i \in DOMAIN w : Single(w[i].of)})
      split == Ascending({i \in DOMAIN w : ~Single(w[i].of) /\ Complete(w, w[i].of)
                                           /\ \A j \in 1 .. i - 1 : w[j].of # w[i].of})
  IN  [i \in DOMAIN whole |-> w[whole[i]].of] \o [i \in DOMAIN split |-> w[split[i]].of]

(* The last page is in: the query answers. *)
Answer ==
  /\ cursor # Absent /\ (cursor = 1 \/ PagesRead = MAX_PAGES)
  /\ trail' = joinChunks(fetched) /\ covers' = cursor .. cursor + Len(fetched) - 1
  /\ topicError' = FALSE /\ cursor' = Absent /\ fetched' = <<>>
  /\ UNCHANGED topic

ReaderNext ==
  \/ \E s \in Submissions : Consensus(s)
  \/ FetchTopic \/ FetchPage \/ FetchFails \/ Answer

-----------------------------------------------------------------------------
(* attestationsFor: the rows of the panel, in the order they were decoded;
   logoFor: the first of them with a logo. *)
Rows ==
  LET kept == Ascending({i \in DOMAIN trail : trail[i] \in Marked \cup Plain})
  IN  [i \in DOMAIN kept |-> trail[kept[i]]]
LogoOf(rows) ==
  LET marked == {i \in DOMAIN rows : rows[i] \in Marked}
  IN  IF marked = {} THEN Absent
      ELSE rows[CHOOSE i \in marked : \A j \in marked : i <= j]

(* Panel: what is on screen; the rows oldest first. *)
Panel ==
  IF topicError THEN <<"error">> ELSE IF trail = Absent THEN <<"loading">>
  ELSE IF Rows = <<>> THEN <<"empty">> ELSE <<"rows", Reverse(Rows)>>

At(s, n) == CHOOSE i \in DOMAIN topic : topic[i] = [of |-> s, number |-> n]
Done(s) == Written(s) = ChunksOf[s]

(* A row is a record the issuer submitted, whole and once: neither a page that
   ends between two chunks, nor submissions that interleave, nor a message that
   arrives while the pages are read cuts one or shows it twice
   (hcs.ts:67-111, 136-156). *)
RowsAreRecords ==
  trail # Absent => IsInjective(trail) /\ \A i \in DOMAIN trail : Done(trail[i])

(* "No attestations anchored for this invoice yet" is said only when none was
   whole in what the answer covers, never for a trail that is still being read or
   could not be (audit-trail.tsx:44-53). *)
EmptyMeansNone ==
  Panel = <<"empty">> =>
    /\ trail # Absent
    /\ \A s \in Marked \cup Plain : \E n \in 1 .. ChunksOf[s] :
         \A i \in covers : topic[i] # [of |-> s, number |-> n]

(* Once the topic is quiet the reader has every record whose chunks are all
   among the newest messages it reads back to (hcs.ts:129-156). *)
TrailCatchesUp ==
  <>[][FALSE]_topic /\ []<><<Answer>>_readerVars =>
    <>[](trail # Absent /\ \A s \in Submissions :
           Done(s) /\ At(s, 1) > Len(topic) - PageSize * MAX_PAGES => s \in ToSet(trail))

(* The logo on screen is the issuer's latest that is fully read, whatever order
   the chunks of its submissions came in, except that a logo small enough for one
   message comes before every logo that was split, also before later ones
   (hcs.ts:73-110, 174-176, issuer.ts:44-48). *)
LogoIsTheLatest ==
  trail # Absent /\ LogoOf(Rows) # Absent =>
    LET logo == LogoOf(Rows) IN
    \A s \in ToSet(Rows) \cap Marked :
      \/ Single(logo) /\ ~Single(s)
      \/ (Single(logo) <=> Single(s)) /\ At(s, ChunksOf[s]) <= At(logo, ChunksOf[logo])
=============================================================================
