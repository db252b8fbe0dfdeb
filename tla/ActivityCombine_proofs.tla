----------------------- MODULE ActivityCombine_proofs -----------------------
(***************************************************************************)
(* The exporter prints no row of the programs as malformed, invalid or     *)
(* regressed, and what it calls an observed exchange is about one request, *)
(* for every number of connections, requests, faults, pending groups and   *)
(* rows of a group.                                                        *)
(*                                                                         *)
(* FeedInv is the invariant between two rows of a page: the groups are well*)
(* formed and in the known records, the rest of the stream is in order and *)
(* nothing wrong was printed.  A page is an induction on its rows, by the  *)
(* least row that breaks it.  Combined is the invariant between two steps. *)
(***************************************************************************)
EXTENDS ActivityGroup_proofs

-----------------------------------------------------------------------------
(* A group that finish finds nothing wrong with.                           *)

\* Every later part of a message follows the part before it.
Steps(rows) ==
  \A i \in 2 .. Len(rows) : OfJson(rows[i]) /\ rows[i].part # "method" =>
    NextPart(rows[i - 1].part, rows[i].part) /\ rows[i - 1].side = rows[i].side
Backed(rows) ==
  \A i \in 1 .. Len(rows) : Answers(rows[i]) => \E j \in 1 .. Len(rows) : j < i /\ Confirms(rows[j])
Names == {"reply_before_http_confirmation", "invalid_group"}
Groups == [key : Keys, rows : Seq(KeptRow), issues : SUBSET Names, confirmed : BOOLEAN]
GroupOk(g) ==
  /\ g \in Groups /\ Len(g.rows) > 0 /\ Starts(g.rows[1]) /\ Steps(g.rows)
  /\ g.confirmed => \E i \in 1 .. Len(g.rows) : Confirms(g.rows[i])
  /\ "reply_before_http_confirmation" \notin g.issues => Backed(g.rows)

\* An issue that is not there.
LEMMA IfNone ==
  ASSUME NEW b, NEW n, If(b, n) = {}
  PROVE  ~b
BY DEF If

\* What no issue means.
LEMMA IssuesNone ==
  ASSUME NEW rows, Issues(rows) = {}
  PROVE  /\ ~\E f \in Fields : Cardinality(Field(rows, f[1], f[2])) > 1
         /\ ~\E f \in Fields : Field(rows, f[1], f[2]) = {}
         /\ Cardinality(Producers(rows, 1 .. Len(rows) \ Json(rows))) = 1
         /\ Cardinality(Response(rows, 142)) = 1
<1> DEFINE b1 == \E f \in Fields : Cardinality(Field(rows, f[1], f[2])) > 1
           b2 == \E side \in {1, 2} : Cardinality(Calls(rows, side)) # 1
           b3 == \E f \in Fields : Field(rows, f[1], f[2]) = {}
           b4 == Cardinality(Producers(rows, Json(rows))) # 1
           b5 == Cardinality(Producers(rows, 1 .. Len(rows) \ Json(rows))) # 1 \/ Cardinality(Response(rows, 142)) # 1
           b6 == \E i \in Json(rows) : ~rows[i].good
           b7 == Response(rows, 28) = {} \/ Response(rows, 29) = {}
<1>1. Issues(rows) = If(b1, "duplicate_field") \union If(b2, "missing_or_multiple_json_messages")
                     \union If(b3, "missing_field") \union If(b4, "json_producer_changed")
                     \union If(b5, "missing_or_conflicting_http_confirmation")
                     \union If(b6, "incomplete_field") \union If(b7, "incomplete_http")
  BY DEF Issues
<1> HIDE DEF b1, b2, b3, b4, b5, b6, b7
<1>2. If(b1, "duplicate_field") = {} /\ If(b3, "missing_field") = {}
      /\ If(b5, "missing_or_conflicting_http_confirmation") = {}
  BY <1>1
<1>3. ~b1 /\ ~b3 /\ ~b5 BY <1>2, IfNone
<1> QED BY <1>3 DEF b1, b3, b5

\* A set with at most one element.
LEMMA AtMostOne ==
  ASSUME NEW S, IsFiniteSet(S), ~(Cardinality(S) > 1), NEW a \in S, NEW b \in S
  PROVE  a = b
<1> SUFFICES ASSUME a # b PROVE FALSE OBVIOUS
<1>1. IsFiniteSet({a}) /\ Cardinality({a}) = 1 BY FS_Singleton
<1>2. Cardinality({a} \cup {b}) = 2 BY <1>1, FS_AddElement
<1>3. {a} \cup {b} \in SUBSET S OBVIOUS
<1>4. Cardinality({a} \cup {b}) <= Cardinality(S) BY <1>3, FS_Subset
<1>5. Cardinality(S) \in Nat BY FS_CardinalityType
<1> QED BY <1>2, <1>4, <1>5

\* Sets of indices are finite.
LEMMA IndexFinite ==
  ASSUME NEW n \in Nat, NEW S \in SUBSET (1 .. n)
  PROVE  IsFiniteSet(S)
<1>1. IsFiniteSet(1 .. n) BY FS_Interval
<1> QED BY <1>1, FS_Subset

PartAt(rows, side, k, i) == i \in 1 .. Len(rows) /\ rows[i].side = side /\ rows[i].part = JsonParts[k]

\* Without issues every field of every side is there exactly once.
LEMMA FieldOne ==
  ASSUME NEW rows, Len(rows) \in Nat, Issues(rows) = {}, NEW side \in {1, 2}, NEW k \in 1 .. 4
  PROVE  /\ \E i \in 1 .. Len(rows) : PartAt(rows, side, k, i)
         /\ \A i, j : PartAt(rows, side, k, i) /\ PartAt(rows, side, k, j) => i = j
<1> DEFINE f == <<side, JsonParts[k]>>
           S == Field(rows, side, JsonParts[k])
<1>1. JsonParts[k] # "http_response" BY JsonPart
<1>2. f \in Fields /\ f[1] = side /\ f[2] = JsonParts[k]
  <2>1. JsonParts[k] \in Rows(JsonParts)
    <3>1. Len(JsonParts) = 4 BY DEF JsonParts
    <3> QED BY <3>1 DEF Rows
  <2> QED BY <2>1 DEF Fields
<1> HIDE DEF f
<1>3. ~(Cardinality(S) > 1) /\ S # {} BY <1>2, IssuesNone
<1>4. \A i \in 1 .. Len(rows) : i \in S <=> rows[i].side = side /\ rows[i].part = JsonParts[k]
  BY <1>1 DEF Field, Json
<1>5. S \in SUBSET (1 .. Len(rows)) BY DEF Field, Json
<1> HIDE DEF S
<1>6. IsFiniteSet(S) BY <1>5, IndexFinite
<1>7. \A i, j \in S : i = j BY <1>3, <1>6, AtMostOne
<1> QED BY <1>3, <1>4, <1>5, <1>7 DEF PartAt

\* So is the confirmation.
LEMMA ConfirmOne ==
  ASSUME NEW rows, Len(rows) \in Nat, Issues(rows) = {}
  PROVE  /\ \E i \in 1 .. Len(rows) : Confirms(rows[i])
         /\ \A i, j \in 1 .. Len(rows) : Confirms(rows[i]) /\ Confirms(rows[j]) => i = j
<1> DEFINE S == Response(rows, 142)
<1>1. Cardinality(S) = 1 BY IssuesNone
<1>2. \A i \in 1 .. Len(rows) : i \in S <=> Confirms(rows[i]) BY DEF Response, Json, Confirms
<1>3. S \in SUBSET (1 .. Len(rows)) BY DEF Response
<1> HIDE DEF S
<1>4. IsFiniteSet(S) BY <1>3, IndexFinite
<1>5. PICK x : S = {x} BY <1>1, <1>4, FS_Singleton
<1> QED BY <1>2, <1>3, <1>5

\* And one HTTP producer.
LEMMA ProducerOne ==
  ASSUME NEW rows, Len(rows) \in Nat, Issues(rows) = {}, NEW i \in 1 .. Len(rows),
         NEW j \in 1 .. Len(rows),
         ~OfJson(rows[i]), ~OfJson(rows[j])
  PROVE  rows[i].producer = rows[j].producer
<1> DEFINE S == 1 .. Len(rows) \ Json(rows)
           T == Producers(rows, S)
           f == [x \in S |-> rows[x].producer]
<1>1. Cardinality(T) = 1 BY IssuesNone
<1>2. S \in SUBSET (1 .. Len(rows)) OBVIOUS
<1>3. i \in S /\ j \in S BY DEF Json, OfJson
<1> HIDE DEF S
<1>4. IsFiniteSet(S) BY <1>2, IndexFinite
<1>5. f \in Surjection(S, T) BY DEF Surjection, Producers
<1>6. rows[i].producer \in T /\ rows[j].producer \in T BY <1>3 DEF Producers
<1> HIDE DEF f, T
<1>7. IsFiniteSet(T) BY <1>4, <1>5, FS_Surjection
<1>8. PICK x : T = {x} BY <1>1, <1>7, FS_Singleton
<1> QED BY <1>6, <1>8

\* Only one part comes before a later part of a message.
LEMMA PartBefore ==
  ASSUME NEW k \in 1 .. 3, NEW a, NextPart(a, JsonParts[k + 1])
  PROVE  a = JsonParts[k]
BY DEF NextPart, JsonParts

\* One whole message of a side.
MessageAt(rows, side, a) ==
  /\ a \in 1 .. Len(rows) /\ a + 3 \in 1 .. Len(rows)
  /\ \A k \in 1 .. 4 : rows[a + k - 1].part = JsonParts[k] /\ rows[a + k - 1].side = side

\* The four fields of a side are one message: each follows the one before it.
LEMMA OneMessage ==
  ASSUME NEW rows, Len(rows) \in Nat, Issues(rows) = {}, Steps(rows), rows[1].part = "method",
         NEW side \in {1, 2}
  PROVE  \E a \in 1 .. Len(rows) : MessageAt(rows, side, a)
<1> DEFINE At(i, k) == PartAt(rows, side, k, i)
<1>1. \E i \in 1 .. Len(rows) : At(i, 4)
  <2>1. 4 \in 1 .. 4 OBVIOUS
  <2> QED BY <2>1, FieldOne
<1>2. ASSUME NEW i, NEW k
      PROVE  At(i, k) <=> i \in 1 .. Len(rows) /\ rows[i].side = side /\ rows[i].part = JsonParts[k]
  BY DEF PartAt
<1> HIDE DEF At
<1>3. ASSUME NEW k \in 1 .. 3, NEW i, At(i, k + 1) PROVE i - 1 \in 1 .. Len(rows) /\ At(i - 1, k)
  <2>1. JsonParts[k + 1] # "method" /\ JsonParts[k + 1] # "http_response" BY JsonPart
  <2>0. i \in 1 .. Len(rows) /\ rows[i].side = side /\ rows[i].part = JsonParts[k + 1]
    BY <1>2, <1>3
  <2>2. i \in 2 .. Len(rows) BY <2>0, <2>1
  <2>3. NextPart(rows[i - 1].part, JsonParts[k + 1]) /\ rows[i - 1].side = side
    BY <2>0, <2>1, <2>2 DEF Steps, OfJson
  <2>4. rows[i - 1].part = JsonParts[k] BY <2>3, PartBefore
  <2>5. i - 1 \in 1 .. Len(rows) BY <2>2
  <2> QED BY <1>2, <2>3, <2>4, <2>5
<1>4. PICK d \in 1 .. Len(rows) : At(d, 4) BY <1>1
<1>5. At(d - 1, 3) /\ d - 1 \in 1 .. Len(rows)
  <2>1. 3 \in 1 .. 3 /\ 3 + 1 = 4 OBVIOUS
  <2>2. At(d, 3 + 1) BY <1>4
  <2> QED BY <1>3, <2>1, <2>2
<1>6. At(d - 2, 2) /\ d - 2 \in 1 .. Len(rows)
  <2> DEFINE i == d - 1
  <2>1. 2 \in 1 .. 3 /\ i - 1 = d - 2 OBVIOUS
  <2>2. At(i, 2 + 1) BY <1>5
  <2> HIDE DEF i
  <2>3. At(i - 1, 2) /\ i - 1 \in 1 .. Len(rows) BY <1>3, <2>1, <2>2
  <2> QED BY <2>1, <2>3
<1>7. At(d - 3, 1) /\ d - 3 \in 1 .. Len(rows)
  <2> DEFINE i == d - 2
  <2>1. 1 \in 1 .. 3 /\ i - 1 = d - 3 OBVIOUS
  <2>2. At(i, 1 + 1) BY <1>6
  <2> HIDE DEF i
  <2>3. At(i - 1, 1) /\ i - 1 \in 1 .. Len(rows) BY <1>3, <2>1, <2>2
  <2> QED BY <2>1, <2>3
<1> DEFINE a == d - 3
<1>8. ASSUME NEW k \in 1 .. 4 PROVE At(a + k - 1, k)
  <2>1. k = 1 \/ k = 2 \/ k = 3 \/ k = 4 OBVIOUS
  <2>2. /\ a + 1 - 1 = d - 3 /\ a + 2 - 1 = d - 2 /\ a + 3 - 1 = d - 1 /\ a + 4 - 1 = d OBVIOUS
  <2> HIDE DEF a
  <2> QED BY <1>4, <1>5, <1>6, <1>7, <2>1, <2>2
<1>9. a \in 1 .. Len(rows) /\ a + 3 \in 1 .. Len(rows) BY <1>4, <1>7
<1> HIDE DEF a
<1>10. MessageAt(rows, side, a) BY <1>2, <1>8, <1>9 DEF MessageAt
<1> QED BY <1>9, <1>10

\* A group without issues that ends with the end of a response has the order of Whole.
LEMMA WholeGroup ==
  ASSUME NEW rows \in Seq(KeptRow), Len(rows) > 0, Issues(rows) = {}, Starts(rows[1]),
         Steps(rows), Backed(rows),
         rows[Len(rows)].part = "http_response", rows[Len(rows)].code = 29
  PROVE  Whole(rows)
<1>0. Len(rows) \in Nat /\ 1 \in 1 .. Len(rows) /\ Len(rows) \in 1 .. Len(rows) OBVIOUS
<1>1. rows[1].part = "method" /\ rows[1].side = 1 BY DEF Starts
<1>2. PICK a \in 1 .. Len(rows) : MessageAt(rows, 1, a) BY <1>0, <1>1, OneMessage
<1>3. PICK b \in 1 .. Len(rows) : MessageAt(rows, 2, b) BY <1>0, <1>1, OneMessage
<1>4. JsonParts[1] = "method" BY DEF JsonParts
<1>5. ASSUME NEW side \in {1, 2}, NEW x \in 1 .. Len(rows), MessageAt(rows, side, x)
      PROVE  rows[x].part = "method" /\ rows[x].side = side
  <2>1. 1 \in 1 .. 4 /\ x + 1 - 1 = x OBVIOUS
  <2>2. rows[x + 1 - 1].part = JsonParts[1] /\ rows[x + 1 - 1].side = side
    BY <1>5, <2>1 DEF MessageAt
  <2> QED BY <1>4, <2>1, <2>2
<1>6. rows[a].part = "method" /\ rows[a].side = 1 /\ rows[b].part = "method" /\ rows[b].side = 2
  BY <1>2, <1>3, <1>5
<1>7. a = 1
  <2>1. 1 \in 1 .. 4 /\ 1 \in {1, 2} OBVIOUS
  <2>2. PartAt(rows, 1, 1, 1) /\ PartAt(rows, 1, 1, a) BY <1>0, <1>1, <1>4, <1>6 DEF PartAt
  <2> QED BY <1>0, <2>1, <2>2, FieldOne
<1>8. Answers(rows[b]) BY <1>6 DEF Answers, OfJson
<1>9. PICK h \in 1 .. Len(rows) : h < b /\ Confirms(rows[h]) BY <1>8 DEF Backed
<1>10. h # 1 /\ rows[h].code = 142 BY <1>1, <1>9 DEF Confirms
<1>11. b + 3 < Len(rows)
  <2>1. b + 3 \in 1 .. Len(rows) BY <1>3 DEF MessageAt
  <2>2. 4 \in 1 .. 4 /\ b + 4 - 1 = b + 3 OBVIOUS
  <2>3. rows[b + 4 - 1].part = JsonParts[4] BY <1>3, <2>2 DEF MessageAt
  <2>4. rows[b + 3].part # "http_response" BY <2>2, <2>3 DEF JsonParts
  <2>5. b + 3 # Len(rows) BY <2>4
  <2> QED BY <1>0, <2>1, <2>5
<1>12. a < h /\ h < b BY <1>7, <1>9, <1>10
<1> DEFINE n == Len(rows)
<1>13. /\ a \in 1 .. n /\ h \in 1 .. n /\ b \in 1 .. n /\ n \in 1 .. n /\ b + 3 < n /\ rows[n].code = 29 BY <1>0, <1>11
<1>14. \A i \in 1 .. 4 : /\ rows[a + i - 1].part = JsonParts[i] /\ rows[a + i - 1].side = 1
                         /\ rows[b + i - 1].part = JsonParts[i] /\ rows[b + i - 1].side = 2
  BY <1>2, <1>3 DEF MessageAt
<1> HIDE DEF n
<1>15. n = Len(rows) BY DEF n
<1> QED BY <1>10, <1>12, <1>13, <1>14, <1>15 DEF Whole

\* Its rows are about one request.
InRecs(k, rows, R) == \A i \in 1 .. Len(rows) : <<k, rows[i]>> \in R

\* All its rows belong to the request of its first row.
LEMMA OneRequest ==
  ASSUME NEW R, NEW k, NEW rows \in Seq(KeptRow), Len(rows) > 0, InRecs(k, rows, R), About(R),
         Confirmed(R), Issues(rows) = {}, Starts(rows[1]),
         ~rows[1].hidden
  PROVE  \A r \in Rows(rows) : r.req = rows[1].req
<1>0. Len(rows) \in Nat /\ 1 \in 1 .. Len(rows) OBVIOUS
<1>1. PICK z \in 1 .. Len(rows) : rows[z].side = 2 /\ rows[z].part = JsonParts[1]
  <2>1. 2 \in {1, 2} /\ 1 \in 1 .. 4 OBVIOUS
  <2>2. \E i \in 1 .. Len(rows) : PartAt(rows, 2, 1, i) BY <1>0, <2>1, FieldOne
  <2> QED BY <2>2 DEF PartAt
<1>2. Answers(rows[z]) BY <1>1 DEF Answers, OfJson, JsonParts
<1>3. PICK h \in 1 .. Len(rows) : Confirms(rows[h]) BY <1>0, ConfirmOne
<1>4. ASSUME NEW i \in 1 .. Len(rows) PROVE Native(k, rows[i])
  <2>1. CASE OfJson(rows[i]) BY <2>1 DEF Native
  <2>2. CASE ~OfJson(rows[i])
    <3>1. ~OfJson(rows[h]) BY <1>3 DEF Confirms, OfJson
    <3>2. rows[i].producer = rows[h].producer BY <1>0, <2>2, <3>1, ProducerOne
    <3> DEFINE y == <<k, rows[h]>>
               w == <<k, rows[z]>>
    <3>3. y \in R /\ w \in R /\ y[1] = k /\ w[1] = k /\ y[2] = rows[h] /\ w[2] = rows[z]
      BY DEF InRecs
    <3> HIDE DEF y, w
    <3>4. Native(y[1], y[2]) BY <1>2, <1>3, <3>3 DEF Confirmed
    <3> QED BY <3>1, <3>2, <3>3, <3>4 DEF Native
  <2> QED BY <2>1, <2>2
<1>5. ASSUME NEW i \in 1 .. Len(rows) PROVE rows[i].req = rows[1].req
  <2> DEFINE x == <<k, rows[1]>>
             y == <<k, rows[i]>>
             w == <<k, rows[z]>>
  <2>1. /\ x \in R /\ y \in R /\ w \in R /\ x[1] = k /\ y[1] = k /\ w[1] = k
        /\ x[2] = rows[1] /\ y[2] = rows[i] /\ w[2] = rows[z]
    BY <1>0 DEF InRecs
  <2> HIDE DEF x, y, w
  <2>2. Native(y[1], y[2]) BY <1>4, <2>1
  <2>3. y[2].req = x[2].req BY <1>2, <2>1, <2>2 DEF About
  <2> QED BY <2>1, <2>3
<1> QED BY <1>5 DEF Rows

-----------------------------------------------------------------------------
(* The rows of a page, one by one.                                         *)

St(p, q, o) == [pending |-> p, sequences |-> q, out |-> o]
Cut(p, i) == SubSeq(p, 1, i - 1) \o SubSeq(p, i + 1, Len(p))
Said(o, w) == o \union {[event_type |-> w]}
Closed(o, g, reason) == o \union {Finish(g, reason)}
Flushed(o, p, reason) == o \union {Finish(g, reason) : g \in Rows(p)}

\* The fields of what feed works on.
LEMMA StFields ==
  ASSUME NEW p, NEW q, NEW o
  PROVE  St(p, q, o).pending = p /\ St(p, q, o).sequences = q /\ St(p, q, o).out = o
BY DEF St

\* What Say, Close and Flush do to them.
LEMMA StOps ==
  ASSUME NEW p, NEW q, NEW o, NEW w, NEW i
  PROVE  /\ Say(St(p, q, o), w) = St(p, q, Said(o, w))
         /\ Close(St(p, q, o), i, w) = St(Cut(p, i), q, Closed(o, p[i], w))
         /\ Flush(St(p, q, o), w) = St(<< >>, << >>, Flushed(o, p, w))
<1>1. Say(St(p, q, o), w) = St(p, q, Said(o, w)) BY DEF St, Say, Said
<1>2. Close(St(p, q, o), i, w) = St(Cut(p, i), q, Closed(o, p[i], w))
  <2> DEFINE x == Finish(p[i], w)
             c == Cut(p, i)
  <2>1. Close(St(p, q, o), i, w) = [St(p, q, o) EXCEPT !.out = o \union {x}, !.pending = c]
    BY DEF Close, St, Cut
  <2> HIDE DEF x, c
  <2>2. Close(St(p, q, o), i, w) = St(c, q, o \union {x}) BY <2>1 DEF St
  <2> QED BY <2>2 DEF x, c, Closed
<1>3. Flush(St(p, q, o), w) = St(<< >>, << >>, Flushed(o, p, w)) BY DEF St, Flush, Flushed
<1> QED BY <1>1, <1>2, <1>3

\* A group is taken out of the sequence.
LEMMA CutFacts ==
  ASSUME NEW S, NEW p \in Seq(S), NEW i \in 1 .. Len(p)
  PROVE  /\ Cut(p, i) \in Seq(S) /\ Len(Cut(p, i)) = Len(p) - 1
         /\ \A k \in 1 .. Len(p) - 1 : Cut(p, i)[k] = IF k < i THEN p[k] ELSE p[k + 1]
<1> DEFINE a == SubSeq(p, 1, i - 1)
           b == SubSeq(p, i + 1, Len(p))
<1>1. \A k \in 1 .. Len(p) : p[k] \in S OBVIOUS
<1>2. Len(p) \in Nat /\ i \in Nat /\ i >= 1 /\ i <= Len(p) OBVIOUS
<1>3. /\ a \in Seq(S) /\ Len(a) = i - 1
      /\ \A k \in 1 .. i - 1 : a[k] = p[k]
  <2>1. 1 \in Int /\ i - 1 \in Int /\ \A k \in 1 .. i - 1 : p[k] \in S BY <1>1, <1>2
  <2>2. /\ a \in Seq(S) /\ Len(a) = (IF 1 <= i - 1 THEN i - 1 - 1 + 1 ELSE 0)
        /\ \A k \in 1 .. i - 1 - 1 + 1 : a[k] = p[1 + k - 1]
    BY <2>1, SubSeqProperties
  <2> HIDE DEF a
  <2>3. \A k \in 1 .. i - 1 : k \in 1 .. i - 1 - 1 + 1 /\ 1 + k - 1 = k BY <1>2
  <2>4. Len(a) = i - 1 BY <1>2, <2>2
  <2> QED BY <2>2, <2>3, <2>4
<1>4. /\ b \in Seq(S) /\ Len(b) = Len(p) - i
      /\ \A k \in 1 .. Len(p) - i : b[k] = p[i + k]
  <2>1. i + 1 \in Int /\ Len(p) \in Int /\ \A k \in i + 1 .. Len(p) : p[k] \in S BY <1>1, <1>2
  <2>2. /\ b \in Seq(S) /\ Len(b) = (IF i + 1 <= Len(p) THEN Len(p) - (i + 1) + 1 ELSE 0)
        /\ \A k \in 1 .. Len(p) - (i + 1) + 1 : b[k] = p[(i + 1) + k - 1]
    BY <2>1, SubSeqProperties
  <2> HIDE DEF b
  <2>3. \A k \in 1 .. Len(p) - i : k \in 1 .. Len(p) - (i + 1) + 1 /\ (i + 1) + k - 1 = i + k
    BY <1>2
  <2>4. Len(b) = Len(p) - i
    <3> DEFINE n == Len(p)
    <3>1. n \in Nat /\ i <= n BY <1>2
    <3>2. Len(b) = (IF i + 1 <= n THEN n - (i + 1) + 1 ELSE 0) BY <2>2
    <3> HIDE DEF n
    <3>3. Len(b) = n - i BY <1>2, <3>1, <3>2
    <3> QED BY <3>3 DEF n
  <2> QED BY <2>2, <2>3, <2>4
<1> HIDE DEF a, b
<1>5. /\ a \o b \in Seq(S) /\ Len(a \o b) = Len(a) + Len(b)
      /\ \A k \in 1 .. Len(a) + Len(b) : (a \o b)[k] = IF k <= Len(a) THEN a[k] ELSE b[k - Len(a)]
  BY <1>3, <1>4, ConcatProperties
<1> DEFINE c == a \o b
<1>6. Cut(p, i) = c BY DEF Cut, a, b
<1>7. Len(a) + Len(b) = Len(p) - 1 BY <1>2, <1>3, <1>4
<1> HIDE DEF c
<1>8. ASSUME NEW k \in 1 .. Len(p) - 1 PROVE c[k] = IF k < i THEN p[k] ELSE p[k + 1]
  <2>1. c[k] = IF k <= i - 1 THEN a[k] ELSE b[k - (i - 1)] BY <1>3, <1>5, <1>7 DEF c
  <2>2. CASE k < i
    <3>1. k \in 1 .. i - 1 /\ k <= i - 1 BY <1>2, <2>2
    <3> QED BY <1>3, <2>1, <2>2, <3>1
  <2>3. CASE ~(k < i)
    <3>1. ~(k <= i - 1) /\ k - (i - 1) \in 1 .. Len(p) - i /\ i + (k - (i - 1)) = k + 1
      BY <1>2, <2>3
    <3>2. b[k - (i - 1)] = p[k + 1] BY <1>4, <3>1
    <3> QED BY <2>1, <2>3, <3>1, <3>2
  <2> QED BY <2>2, <2>3
<1>9. c \in Seq(S) /\ Len(c) = Len(p) - 1 BY <1>5, <1>7 DEF c
<1> QED BY <1>6, <1>8, <1>9

-----------------------------------------------------------------------------
(* What the exporter prints.                                               *)

Refused == {"malformed_record", "invalid_frame_binding", "duplicate_or_regressed_sequence"}
Fine(x) ==
  /\ x.event_type \notin Refused
  /\ Observed(x) => /\ Whole(x.rows)
                    /\ x.rows[1].hidden \/ \A r \in Rows(x.rows) : r.req = x.rows[1].req
OutFine(o) == \A x \in o : Fine(x)

\* A diagnostic that refuses nothing may be printed.
LEMMA FineSaid ==
  ASSUME NEW o, OutFine(o), NEW w, w \notin Refused, w # "agent.activity.combined"
  PROVE  OutFine(Said(o, w))
BY DEF OutFine, Said, Fine, Observed

\* The fields of a printed group.
LEMMA FinishIs ==
  ASSUME NEW g, NEW reason
  PROVE  LET x == Finish(g, reason) IN
         /\ x.event_type = "agent.activity.combined" /\ x.rows = g.rows
         /\ reason # "" => x.issues # {}
         /\ reason = "" => x.issues = g.issues \union Issues(g.rows)
BY DEF Finish

\* A group that is closed for a reason is not observed.
LEMMA FineFinish ==
  ASSUME NEW g, NEW reason, reason # ""
  PROVE  Fine(Finish(g, reason))
<1> DEFINE x == Finish(g, reason)
<1>1. x.event_type = "agent.activity.combined" /\ x.issues # {} BY FinishIs
<1> HIDE DEF x
<1>2. Fine(x) BY <1>1 DEF Fine, Observed, Refused
<1> QED BY <1>2 DEF x

\* So a group may be closed for a reason,
LEMMA FineClosed ==
  ASSUME NEW o, OutFine(o), NEW g, NEW reason, reason # ""
  PROVE  OutFine(Closed(o, g, reason))
BY FineFinish DEF OutFine, Closed

\* and all groups may.
LEMMA FineFlushed ==
  ASSUME NEW o, OutFine(o), NEW p, NEW reason, reason # ""
  PROVE  OutFine(Flushed(o, p, reason))
BY FineFinish DEF OutFine, Flushed

\* A group that ends with the end of the response may be closed without one.
LEMMA FineDone ==
  ASSUME NEW o, OutFine(o), NEW g, GroupOk(g), NEW R, InRecs(g.key, g.rows, R), About(R),
         Confirmed(R),
         g.rows[Len(g.rows)].part = "http_response", g.rows[Len(g.rows)].code = 29
  PROVE  OutFine(Closed(o, g, ""))
<1> DEFINE x == Finish(g, "")
<1>1. /\ x.event_type = "agent.activity.combined" /\ x.rows = g.rows
      /\ x.issues = g.issues \union Issues(g.rows)
  BY FinishIs
<1> HIDE DEF x
<1>2. ASSUME Observed(x)
      PROVE  Whole(x.rows) /\ (x.rows[1].hidden \/ \A r \in Rows(x.rows) : r.req = x.rows[1].req)
  <2> DEFINE rows == g.rows
  <2>1. x.issues = {} BY <1>2 DEF Observed
  <2>2. Issues(rows) = {} /\ "reply_before_http_confirmation" \notin g.issues BY <1>1, <2>1
  <2>3. rows \in Seq(KeptRow) /\ Len(rows) > 0 /\ Starts(rows[1]) /\ Steps(rows) /\ Backed(rows)
    BY <2>2 DEF GroupOk, Groups
  <2>4. InRecs(g.key, rows, R) /\ rows[Len(rows)].part = "http_response" /\ rows[Len(rows)].code = 29 OBVIOUS
  <2> HIDE DEF rows
  <2>5. Whole(rows) BY <2>2, <2>3, <2>4, WholeGroup
  <2>6. ~rows[1].hidden => \A r \in Rows(rows) : r.req = rows[1].req
    <3> SUFFICES ASSUME ~rows[1].hidden PROVE \A r \in Rows(rows) : r.req = rows[1].req OBVIOUS
    <3> DEFINE k == g.key
    <3>1. InRecs(k, rows, R) BY <2>4
    <3> HIDE DEF k
    <3> QED BY <2>2, <2>3, <3>1, OneRequest
  <2>7. x.rows = rows BY <1>1 DEF rows
  <2> QED BY <2>5, <2>6, <2>7
<1>3. Fine(x) BY <1>1, <1>2 DEF Fine, Refused
<1> QED BY <1>3 DEF OutFine, Closed, x

-----------------------------------------------------------------------------
(* What feed leaves for the next row.                                      *)

\* A group of the exchange of a row ends with that row.
Ends(p, row) ==
  \A i \in 1 .. Len(p) : p[i].key = Key(row) =>
    LET r == p[i].rows[Len(p[i].rows)]
    IN r.side = row.frame.side /\ r.part = row.ev.part

\* The stream after its first row.
LEMMA TailFacts ==
  ASSUME NEW s \in Seq(Row), Len(s) > 0
  PROVE  /\ Tail(s) \in Seq(Row) /\ Len(Tail(s)) = Len(s) - 1 /\ Len(s) \in Nat
         /\ \A i \in 1 .. Len(Tail(s)) : Tail(s)[i] = s[i + 1] /\ i + 1 \in 1 .. Len(s)
<1>1. s # << >> OBVIOUS
<1>2. Tail(s) \in Seq(Row) /\ Len(Tail(s)) = Len(s) - 1 /\ \A i \in 1 .. Len(Tail(s)) : Tail(s)[i] = s[i + 1]
  BY <1>1, HeadTailProperties
<1>3. Len(s) \in Nat OBVIOUS
<1> DEFINE t == Tail(s)
<1> HIDE DEF t
<1>4. Len(t) = Len(s) - 1 BY <1>2 DEF t
<1>5. \A i \in 1 .. Len(t) : i + 1 \in 1 .. Len(s) BY <1>3, <1>4
<1> QED BY <1>2, <1>3, <1>5 DEF t

\* Without its first row the stream is still in order, given a group of that row ends with it.
LEMMA LogTail ==
  ASSUME NEW src, NEW P, NEW q, NEW p, NEW s, Log(src, q, p, P, s), Len(s) > 0, NEW t,
         t = Tail(s), NEW q2, NEW p2,
         NumbersOk(src, P, q2), NumbersBehind(q2, t),
         s[1] \in Record /\ s[1].frame.exchange # 0 => Ends(p2, s[1])
  PROVE  Log(src, q2, p2, P, t)
<1>1. s \in Seq(Row) BY DEF Log, RowsOk
<1>2. /\ t \in Seq(Row) /\ Len(t) = Len(s) - 1 /\ Len(s) \in Nat
      /\ \A i \in 1 .. Len(t) : t[i] = s[i + 1] /\ i + 1 \in 1 .. Len(s)
  BY <1>1, TailFacts
<1>3. RowsOk(src, P, t)
  <2>1. ASSUME NEW i \in 1 .. Len(t), t[i] \in Record
        PROVE  Accepted(t[i]) /\ Marked(src, P, t[i].source, t[i].ev.inst, t[i].ev.seq)
    <3>1. t[i] = s[i + 1] /\ i + 1 \in 1 .. Len(s) BY <1>2
    <3> QED BY <2>1, <3>1 DEF Log, RowsOk
  <2> QED BY <1>2, <2>1 DEF RowsOk
<1>4. RowsOrdered(t)
  <2> SUFFICES ASSUME NEW i \in 1 .. Len(t), NEW j \in 1 .. Len(t), i < j, t[i] \in Record, t[j] \in Record,
                      t[i].source = t[j].source, t[i].ev.inst = t[j].ev.inst
               PROVE  t[i].ev.seq < t[j].ev.seq
    BY DEF RowsOrdered
  <2>1. t[i] = s[i + 1] /\ i + 1 \in 1 .. Len(s) /\ t[j] = s[j + 1] /\ j + 1 \in 1 .. Len(s) /\ i + 1 < j + 1 BY <1>2
  <2> QED BY <2>1 DEF Log, RowsOrdered
<1>5. RowsLinked(t)
  <2> SUFFICES ASSUME NEW i \in 1 .. Len(t), i > 1, Later(t[i]) PROVE Before(t[i - 1], t[i])
    BY DEF RowsLinked
  <2>1. i - 1 \in 1 .. Len(t) /\ (i - 1) + 1 = i /\ (i + 1) - 1 = i /\ i + 1 > 1 BY <1>2
  <2>2. t[i] = s[i + 1] /\ i + 1 \in 1 .. Len(s) /\ t[i - 1] = s[i] BY <1>2, <2>1
  <2> QED BY <2>1, <2>2 DEF Log, RowsLinked
<1>6. HeadLinked(p2, t)
  <2> SUFFICES ASSUME Len(t) > 0, Later(t[1]), NEW i \in 1 .. Len(p2), p2[i].key = Key(t[1])
               PROVE  LET r == p2[i].rows[Len(p2[i].rows)]
                      IN r.side = t[1].frame.side /\ NextPart(r.part, t[1].ev.part)
    BY DEF HeadLinked
  <2>1. 1 \in 1 .. Len(t) /\ 1 + 1 = 2 /\ 2 - 1 = 1 /\ 2 > 1 BY <1>2
  <2>2. t[1] = s[2] /\ 2 \in 1 .. Len(s) BY <1>2, <2>1
  <2>3. Before(s[1], s[2]) BY <2>1, <2>2 DEF Log, RowsLinked
  <2>4. s[1] \in Record /\ s[1].frame.exchange # 0 /\ Key(s[1]) = Key(s[2]) /\ s[1].frame.side = s[2].frame.side
        /\ NextPart(s[1].ev.part, s[2].ev.part)
    BY <2>3 DEF Before
  <2>5. Ends(p2, s[1]) BY <2>4
  <2> QED BY <2>2, <2>4, <2>5 DEF Ends
<1> QED BY <1>3, <1>4, <1>5, <1>6 DEF Log

\* The sequence numbers.
Noted(q, row) == [x \in DOMAIN q \union {Producer(row)} |-> IF x = Producer(row) THEN row.ev.seq ELSE q[x]]
Shorter(q, q2) == q2 = q \/ DOMAIN q2 = {}

\* Forgotten sequence numbers refuse nothing.
LEMMA NumbersShorter ==
  ASSUME NEW src, NEW P, NEW q, NEW p, NEW s, Log(src, q, p, P, s), Len(s) > 0, NEW q2,
         Shorter(q, q2), NEW t, t = Tail(s)
  PROVE  NumbersOk(src, P, q2) /\ NumbersBehind(q2, s) /\ NumbersBehind(q2, t)
<1>1. NumbersOk(src, P, q2) /\ NumbersBehind(q2, s) BY DEF Log, Shorter, NumbersOk, NumbersBehind
<1>2. s \in Seq(Row) BY DEF Log, RowsOk
<1>3. \A i \in 1 .. Len(t) : t[i] = s[i + 1] /\ i + 1 \in 1 .. Len(s) BY <1>2, TailFacts
<1>4. NumbersBehind(q2, t) BY <1>1, <1>3 DEF NumbersBehind
<1> QED BY <1>1, <1>4

\* Nor does the number of the row just read.
LEMMA NumbersNoted ==
  ASSUME NEW src, NEW P, NEW q, NEW p, NEW s, Log(src, q, p, P, s), Len(s) > 0, NEW q2,
         Shorter(q, q2), NEW t, t = Tail(s),
         NEW row, row = s[1], row \in Record, NEW q3, q3 = Noted(q2, row)
  PROVE  NumbersOk(src, P, q3) /\ NumbersBehind(q3, t)
<1>1. NumbersOk(src, P, q2) /\ NumbersBehind(q2, t) BY NumbersShorter
<1>2. s \in Seq(Row) BY DEF Log, RowsOk
<1>3. \A i \in 1 .. Len(t) : t[i] = s[i + 1] /\ i + 1 \in 1 .. Len(s) BY <1>2, TailFacts
<1>4. 1 \in 1 .. Len(s) BY <1>2
<1> DEFINE x0 == Producer(row)
<1>5. /\ x0 = <<row.source, row.ev.inst, row.ev.run>> /\ x0 \in Nat \X Nat \X Nat /\ row.ev.seq \in Nat
  BY RecordFacts
<1>6. Marked(src, P, row.source, row.ev.inst, row.ev.seq) BY <1>4 DEF Log, RowsOk
<1>7. x0[1] = row.source /\ x0[2] = row.ev.inst BY <1>5
<1> HIDE DEF x0
<1>8. /\ DOMAIN q3 = DOMAIN q2 \union {x0} /\ q3[x0] = row.ev.seq
      /\ \A x \in DOMAIN q2 : x # x0 => q3[x] = q2[x]
  BY DEF Noted, x0
<1>9. NumbersOk(src, P, q3)
  <2>1. DOMAIN q3 \subseteq Nat \X Nat \X Nat BY <1>1, <1>5, <1>8 DEF NumbersOk
  <2>2. ASSUME NEW x \in DOMAIN q3 PROVE q3[x] \in Nat /\ Marked(src, P, x[1], x[2], q3[x])
    <3>1. CASE x = x0 BY <1>5, <1>6, <1>7, <1>8, <3>1
    <3>2. CASE x # x0
      <4>1. x \in DOMAIN q2 /\ q3[x] = q2[x] BY <1>8, <3>2
      <4> QED BY <1>1, <4>1 DEF NumbersOk
    <3> QED BY <3>1, <3>2
  <2> QED BY <2>1, <2>2 DEF NumbersOk
<1>10. NumbersBehind(q3, t)
  <2> SUFFICES ASSUME NEW i \in 1 .. Len(t), t[i] \in Record, Producer(t[i]) \in DOMAIN q3
               PROVE  q3[Producer(t[i])] < t[i].ev.seq
    BY DEF NumbersBehind
  <2>1. CASE Producer(t[i]) = x0
    <3>1. Producer(t[i]) = <<t[i].source, t[i].ev.inst, t[i].ev.run>> BY RecordFacts
    <3>2. t[i].source = row.source /\ t[i].ev.inst = row.ev.inst BY <1>5, <2>1, <3>1
    <3>3. t[i] = s[i + 1] /\ i + 1 \in 1 .. Len(s) /\ 1 < i + 1 BY <1>3
    <3>4. row.ev.seq < t[i].ev.seq BY <1>4, <3>2, <3>3 DEF Log, RowsOrdered
    <3> QED BY <1>8, <2>1, <3>4
  <2>2. CASE Producer(t[i]) # x0
    <3>1. Producer(t[i]) \in DOMAIN q2 /\ q3[Producer(t[i])] = q2[Producer(t[i])] BY <1>8, <2>2
    <3> QED BY <1>1, <3>1 DEF NumbersBehind
  <2> QED BY <2>1, <2>2
<1> QED BY <1>9, <1>10

-----------------------------------------------------------------------------
(* The pending groups.                                                     *)

Unique(p) == \A i, j \in 1 .. Len(p) : p[i].key = p[j].key => i = j
GroupsOk(p) == p \in Seq(Groups) /\ (\A i \in 1 .. Len(p) : GroupOk(p[i])) /\ Unique(p)
GroupRecs(g) == {<<g.key, g.rows[j]>> : j \in 1 .. Len(g.rows)}
Within(p, R) == \A i \in 1 .. Len(p) : GroupRecs(p[i]) \subseteq R

\* All groups but the i-th are fine.
Almost(p, i, R) ==
  /\ p \in Seq(Groups) /\ i \in 1 .. Len(p) /\ Unique(p) /\ Within(p, R)
  /\ \A j \in 1 .. Len(p) : j # i => GroupOk(p[j])

FromRest(c, p, i) == \A k \in 1 .. Len(c) : \E j \in 1 .. Len(p) : j # i /\ c[k] = p[j]
FromPlace(c, p, i) == \A k \in 1 .. Len(c) : \E j \in 1 .. Len(p) : c[k] = p[j] /\ j = (IF k < i THEN k ELSE k + 1)

\* Every group that is left was there before, in the same order.
LEMMA CutElems ==
  ASSUME NEW p \in Seq(Groups), NEW i \in 1 .. Len(p), NEW c, c = Cut(p, i)
  PROVE  /\ c \in Seq(Groups) /\ Len(c) = Len(p) - 1 /\ Len(p) \in Nat
         /\ FromRest(c, p, i) /\ FromPlace(c, p, i)
<1>1. /\ c \in Seq(Groups) /\ Len(c) = Len(p) - 1 /\ Len(p) \in Nat
      /\ \A k \in 1 .. Len(p) - 1 : c[k] = IF k < i THEN p[k] ELSE p[k + 1]
  BY CutFacts, SMTT(40)
<1>2. ASSUME NEW k \in 1 .. Len(c)
      PROVE  \E j \in 1 .. Len(p) : j # i /\ c[k] = p[j] /\ j = (IF k < i THEN k ELSE k + 1)
  <2> DEFINE j == IF k < i THEN k ELSE k + 1
  <2>1. k \in 1 .. Len(p) - 1 BY <1>1
  <2>2. c[k] = p[j] BY <1>1, <2>1
  <2>3. j \in 1 .. Len(p) /\ j # i BY <1>1, <2>1
  <2> QED BY <2>2, <2>3
<1> QED BY <1>1, <1>2 DEF FromRest, FromPlace

\* Without the i-th group all groups are fine, and none has its key.
LEMMA CutOk ==
  ASSUME NEW p, NEW i, NEW R, Almost(p, i, R), NEW c, c = Cut(p, i)
  PROVE  GroupsOk(c) /\ Within(c, R) /\ (\A k \in 1 .. Len(c) : c[k].key # p[i].key) /\ Len(c) = Len(p) - 1
<1>0. p \in Seq(Groups) /\ i \in 1 .. Len(p) /\ Unique(p) BY DEF Almost
<1>1. /\ c \in Seq(Groups) /\ Len(c) = Len(p) - 1 /\ Len(p) \in Nat
      /\ FromRest(c, p, i) /\ FromPlace(c, p, i)
  BY <1>0, CutElems
<1>2. \A k \in 1 .. Len(c) : \E j \in 1 .. Len(p) : j # i /\ c[k] = p[j] BY <1>1 DEF FromRest
<1>3. (\A k \in 1 .. Len(c) : GroupOk(c[k])) /\ Within(c, R) BY <1>2 DEF Almost, Within
<1>4. \A k \in 1 .. Len(c) : c[k].key # p[i].key BY <1>0, <1>2 DEF Unique
<1>5. Unique(c)
  <2> SUFFICES ASSUME NEW k \in 1 .. Len(c), NEW l \in 1 .. Len(c), c[k].key = c[l].key PROVE k = l BY DEF Unique
  <2>1. PICK a \in 1 .. Len(p) : c[k] = p[a] /\ a = (IF k < i THEN k ELSE k + 1)
    BY <1>1 DEF FromPlace
  <2>2. PICK b \in 1 .. Len(p) : c[l] = p[b] /\ b = (IF l < i THEN l ELSE l + 1)
    BY <1>1 DEF FromPlace
  <2>3. a = b BY <1>0, <2>1, <2>2 DEF Unique
  <2>4. i \in Nat BY <1>0
  <2> QED BY <2>1, <2>2, <2>3, <2>4
<1> QED BY <1>1, <1>3, <1>4, <1>5 DEF GroupsOk

\* Fine groups are fine but for any one.
LEMMA GroupsAlmost ==
  ASSUME NEW p, GroupsOk(p), NEW R, Within(p, R), NEW i \in 1 .. Len(p)
  PROVE  Almost(p, i, R)
BY DEF GroupsOk, Almost

\* The i-th group is put right.
Mended(p, i, g) == [p EXCEPT ![i] = g]

\* What becomes of the groups when the i-th is extended.
LEMMA Mend ==
  ASSUME NEW p, NEW i, NEW R, Almost(p, i, R), NEW g \in Groups, g.key = p[i].key, NEW p2,
         p2 = Mended(p, i, g)
  PROVE  /\ p2 \in Seq(Groups) /\ Len(p2) = Len(p) /\ p2[i] = g /\ i \in 1 .. Len(p2)
         /\ Unique(p2) /\ \A j \in 1 .. Len(p2) : j # i => p2[j] = p[j] /\ GroupOk(p2[j]) /\ p2[j].key # g.key
         /\ GroupOk(g) => GroupsOk(p2)
         /\ GroupRecs(g) \subseteq R => Almost(p2, i, R)
         /\ Within(Cut(p2, i), R) /\ GroupsOk(Cut(p2, i)) /\ \A k \in 1 .. Len(Cut(p2, i)) : Cut(p2, i)[k].key # g.key
<1>0. p \in Seq(Groups) /\ i \in 1 .. Len(p) /\ Unique(p) /\ Within(p, R) BY DEF Almost
<1>1. /\ p2 \in Seq(Groups) /\ Len(p2) = Len(p)
      /\ \A j \in 1 .. Len(p) : p2[j] = IF j = i THEN g ELSE p[j]
  BY <1>0, ExceptSeq DEF Mended
<1>2. p2[i] = g /\ i \in 1 .. Len(p2) BY <1>0, <1>1
<1>3. \A j \in 1 .. Len(p2) : p2[j].key = p[j].key BY <1>1
<1>4. Unique(p2) BY <1>0, <1>1, <1>3 DEF Unique
<1>5. ASSUME NEW j \in 1 .. Len(p2), j # i
      PROVE  p2[j] = p[j] /\ GroupOk(p2[j]) /\ p2[j].key # g.key
  <2>1. p2[j] = p[j] /\ j \in 1 .. Len(p) BY <1>1, <1>5
  <2>2. GroupOk(p[j]) BY <1>5, <2>1 DEF Almost
  <2> QED BY <1>0, <1>5, <2>1, <2>2 DEF Unique
<1>6. GroupOk(g) => GroupsOk(p2)
  <2> SUFFICES ASSUME GroupOk(g) PROVE \A j \in 1 .. Len(p2) : GroupOk(p2[j])
    BY <1>1, <1>4 DEF GroupsOk
  <2> QED BY <1>2, <1>5
<1>7. GroupRecs(g) \subseteq R => Almost(p2, i, R)
  <2> SUFFICES ASSUME GroupRecs(g) \subseteq R PROVE Within(p2, R)
    BY <1>1, <1>2, <1>4, <1>5 DEF Almost
  <2> SUFFICES ASSUME NEW j \in 1 .. Len(p2) PROVE GroupRecs(p2[j]) \subseteq R BY DEF Within
  <2>1. CASE j = i BY <1>2, <2>1
  <2>2. CASE j # i BY <1>0, <1>1, <1>5, <2>2 DEF Within
  <2> QED BY <2>1, <2>2
<1> DEFINE R2 == R \union GroupRecs(g)
           c == Cut(p2, i)
<1>8. Almost(p2, i, R2)
  <2> SUFFICES ASSUME NEW j \in 1 .. Len(p2) PROVE GroupRecs(p2[j]) \subseteq R2
    BY <1>1, <1>2, <1>4, <1>5 DEF Almost, Within
  <2>1. CASE j = i BY <1>2, <2>1
  <2>2. CASE j # i BY <1>0, <1>1, <1>5, <2>2 DEF Within
  <2> QED BY <2>1, <2>2
<1>9. GroupsOk(c) /\ \A k \in 1 .. Len(c) : c[k].key # p2[i].key
  <2>1. c = Cut(p2, i) OBVIOUS
  <2> HIDE DEF c, R2
  <2> QED BY <1>8, <2>1, CutOk
<1>10. Within(c, R)
  <2>1. c = Cut(p2, i) OBVIOUS
  <2> HIDE DEF c
  <2>4. p2 \in Seq(Groups) /\ i \in 1 .. Len(p2) BY <1>1, <1>2
  <2>5. FromRest(c, p2, i) BY <2>1, <2>4, CutElems
  <2>2. \A k \in 1 .. Len(c) : \E j \in 1 .. Len(p2) : j # i /\ c[k] = p2[j] BY <2>5 DEF FromRest
  <2>3. \A k \in 1 .. Len(c) : \E j \in 1 .. Len(p) : c[k] = p[j] BY <1>1, <1>5, <2>2
  <2> QED BY <1>0, <2>3 DEF Within
<1> HIDE DEF c
<1>11. Within(c, R) /\ GroupsOk(c) /\ \A k \in 1 .. Len(c) : c[k].key # g.key BY <1>2, <1>9, <1>10
<1>12. Within(Cut(p2, i), R) /\ GroupsOk(Cut(p2, i)) /\ \A k \in 1 .. Len(Cut(p2, i)) : Cut(p2, i)[k].key # g.key
  BY <1>11 DEF c
<1> QED BY <1>1, <1>2, <1>4, <1>5, <1>6, <1>7, <1>12

-----------------------------------------------------------------------------
(* A row of a group.                                                       *)

\* What is kept of a record.
LEMMA KeptOf ==
  ASSUME NEW row \in Record
  PROVE  /\ Kept(row) \in KeptRow /\ Key(row) \in Keys
         /\ Kept(row).part = row.ev.part /\ Kept(row).code = row.ev.code /\ Kept(row).side = row.frame.side
         /\ Http(row) <=> row.ev.part = "http_response"
<1>1. /\ row.ev.req \in Nat /\ row.ev.hidden \in BOOLEAN /\ row.ev.part \in Parts /\ row.ev.code \in Nat
      /\ row.ev.good \in BOOLEAN /\ row.ev.inst \in Nat /\ row.ev.rev \in Nat /\ row.ev.run \in Nat /\ row.source \in Nat
  BY DEF Record, Ev, Pos
<1>2. row.frame.side \in 0 .. 2 /\ row.frame.invocation \in Nat /\ row.frame.owner \in Nat /\ row.frame.exchange \in Nat
  BY DEF Record, Frame
<1> DEFINE v == IF Http(row) THEN 0 ELSE row.frame.invocation
<1>3. v \in Nat BY <1>2
<1>4. Kept(row) = [req |-> row.ev.req, hidden |-> row.ev.hidden, part |-> row.ev.part, code |-> row.ev.code,
                   good |-> row.ev.good, side |-> row.frame.side, producer |-> <<row.ev.inst, row.ev.rev>>,
                   invocation |-> v]
  BY DEF Kept
<1> HIDE DEF v
<1>5. Kept(row) \in KeptRow BY <1>1, <1>2, <1>3, <1>4 DEF KeptRow
<1>6. Key(row) \in Keys BY <1>1, <1>2 DEF Key, Keys
<1> QED BY <1>4, <1>5, <1>6 DEF Http

GrowConfirmed(g, row) ==
  g.confirmed \/ (Http(row) /\ row.ev.code = 142 /\ row.frame.side = 1 /\ row.frame.status = 1)
GrowIssues(g, row) ==
  g.issues
    \union If(~Http(row) /\ row.frame.side = 2 /\ ~GrowConfirmed(g, row), "reply_before_http_confirmation")
    \union If(row.frame.status # 1, "invalid_group")
Grow(g, row) ==
  [key |-> g.key, rows |-> Append(g.rows, Kept(row)), issues |-> GrowIssues(g, row),
   confirmed |-> GrowConfirmed(g, row)]

\* The row goes on with the group.
Fits(g, row) ==
  \/ Len(g.rows) = 0 /\ Starts(Kept(row)) /\ ~g.confirmed
  \/ /\ GroupOk(g)
     /\ Later(row) => /\ g.rows[Len(g.rows)].side = row.frame.side
                      /\ NextPart(g.rows[Len(g.rows)].part, row.ev.part)

\* The fields of an extended group.
LEMMA GrowIs ==
  ASSUME NEW g \in Groups, NEW row \in Record, NEW h, h = Grow(g, row)
  PROVE  /\ h \in Groups /\ h.key = g.key
         /\ Len(h.rows) = Len(g.rows) + 1 /\ Len(g.rows) \in Nat
         /\ h.rows[Len(g.rows) + 1] = Kept(row)
         /\ \A i \in 1 .. Len(g.rows) : h.rows[i] = g.rows[i]
         /\ h.confirmed = GrowConfirmed(g, row)
         /\ h.issues = GrowIssues(g, row)
<1>1. g.rows \in Seq(KeptRow) /\ g.key \in Keys /\ g.issues \in SUBSET Names /\ g.confirmed \in BOOLEAN BY DEF Groups
<1>2. Kept(row) \in KeptRow BY KeptOf
<1> DEFINE rr == Append(g.rows, Kept(row))
           b == GrowConfirmed(g, row)
           x == GrowIssues(g, row)
<1>3. /\ rr \in Seq(KeptRow) /\ Len(rr) = Len(g.rows) + 1 /\ Len(g.rows) \in Nat
      /\ rr[Len(g.rows) + 1] = Kept(row) /\ \A i \in 1 .. Len(g.rows) : rr[i] = g.rows[i]
  BY <1>1, <1>2
<1>4. b \in BOOLEAN BY <1>1 DEF GrowConfirmed
<1>5. x \in SUBSET Names BY <1>1 DEF GrowIssues, If, Names
<1>6. h = [key |-> g.key, rows |-> rr, issues |-> x, confirmed |-> b] BY DEF Grow
<1> HIDE DEF rr, b, x
<1>7. h \in Groups /\ h.key = g.key /\ h.rows = rr /\ h.issues = x /\ h.confirmed = b
  BY <1>1, <1>3, <1>4, <1>5, <1>6 DEF Groups
<1> QED BY <1>3, <1>7 DEF b, x

\* A group that is extended by a row that goes on with it is fine.
LEMMA GrowOk ==
  ASSUME NEW g \in Groups, NEW row \in Record, Fits(g, row), NEW h, h = Grow(g, row),
         row.frame.exchange # 0
  PROVE  GroupOk(h)
<1> DEFINE n == Len(g.rows)
           k == Kept(row)
<1>1. /\ h \in Groups /\ Len(h.rows) = n + 1 /\ n \in Nat /\ h.rows[n + 1] = k
      /\ \A i \in 1 .. n : h.rows[i] = g.rows[i]
      /\ h.confirmed = GrowConfirmed(g, row) /\ h.issues = GrowIssues(g, row)
  BY GrowIs
<1>2. k.part = row.ev.part /\ k.code = row.ev.code /\ k.side = row.frame.side /\ (Http(row) <=> row.ev.part = "http_response")
  BY KeptOf
<1>3. n = Len(g.rows) OBVIOUS
<1>a. n # 0 => GroupOk(g) BY DEF Fits
<1> HIDE DEF n, k
<1>4. \A i \in 1 .. Len(h.rows) : i \in 1 .. n \/ i = n + 1 BY <1>1
<1>5. \A i \in 1 .. n : i \in 1 .. Len(h.rows) BY <1>1
<1>6. n + 1 \in 1 .. Len(h.rows) /\ Len(h.rows) > 0 BY <1>1
<1>7. Starts(h.rows[1])
  <2>1. CASE n = 0
    <3>1. Starts(k) BY <1>3, <2>1 DEF Fits, GroupOk, k
    <3> QED BY <1>1, <2>1, <3>1
  <2>2. CASE n # 0
    <3>1. 1 \in 1 .. n BY <1>1, <2>2
    <3> QED BY <1>1, <1>a, <2>2, <3>1 DEF GroupOk
  <2> QED BY <2>1, <2>2
<1>8. Steps(h.rows)
  <2> SUFFICES ASSUME NEW i \in 2 .. Len(h.rows), OfJson(h.rows[i]), h.rows[i].part # "method"
               PROVE  NextPart(h.rows[i - 1].part, h.rows[i].part) /\ h.rows[i - 1].side = h.rows[i].side
    BY DEF Steps
  <2>1. i \in 1 .. n \/ i = n + 1 BY <1>1
  <2>2. n # 0 BY <1>1
  <2>3. CASE i \in 1 .. n
    <3>1. i \in 2 .. Len(g.rows) /\ i - 1 \in 1 .. n BY <1>1, <1>3, <2>3
    <3>2. h.rows[i] = g.rows[i] /\ h.rows[i - 1] = g.rows[i - 1] BY <1>1, <2>3, <3>1
    <3> QED BY <1>a, <2>2, <3>1, <3>2 DEF GroupOk, Steps
  <2>4. CASE i = n + 1
    <3>1. i - 1 = n /\ n \in 1 .. n BY <1>1, <2>2, <2>4
    <3>2. h.rows[i] = k /\ h.rows[i - 1] = g.rows[n] BY <1>1, <2>4, <3>1
    <3>3. Later(row) BY <1>2, <3>2 DEF Later, OfJson
    <3>4. g.rows[n].side = row.frame.side /\ NextPart(g.rows[n].part, row.ev.part)
      BY <1>3, <2>2, <3>3 DEF Fits
    <3> QED BY <1>2, <3>2, <3>4
  <2> QED BY <2>1, <2>3, <2>4
<1>9. ASSUME g.confirmed PROVE n # 0 /\ \E i \in 1 .. n : Confirms(g.rows[i])
  <2>1. n # 0 BY <1>3, <1>9 DEF Fits, GroupOk
  <2> QED BY <1>3, <1>9, <1>a, <2>1 DEF GroupOk
<1>10. h.confirmed => \E i \in 1 .. Len(h.rows) : Confirms(h.rows[i])
  <2> SUFFICES ASSUME GrowConfirmed(g, row) PROVE \E i \in 1 .. Len(h.rows) : Confirms(h.rows[i])
    BY <1>1
  <2>1. CASE g.confirmed
    <3>1. PICK i \in 1 .. n : Confirms(g.rows[i]) BY <1>9, <2>1
    <3> QED BY <1>1, <1>5, <3>1
  <2>2. CASE ~g.confirmed
    <3>1. Confirms(k) BY <1>2, <2>2 DEF GrowConfirmed, Confirms
    <3> QED BY <1>1, <1>6, <3>1
  <2> QED BY <2>1, <2>2
<1>11. "reply_before_http_confirmation" \notin h.issues => Backed(h.rows)
  <2> SUFFICES ASSUME "reply_before_http_confirmation" \notin GrowIssues(g, row), NEW i \in 1 .. Len(h.rows), Answers(h.rows[i])
               PROVE  \E j \in 1 .. Len(h.rows) : j < i /\ Confirms(h.rows[j])
    BY <1>1 DEF Backed
  <2>1. /\ "reply_before_http_confirmation" \notin g.issues
        /\ ~(~Http(row) /\ row.frame.side = 2 /\ ~GrowConfirmed(g, row))
    BY DEF GrowIssues, If
  <2>2. CASE i \in 1 .. n
    <3>1. n # 0 /\ h.rows[i] = g.rows[i] BY <1>1, <2>2
    <3>2. PICK j \in 1 .. n : j < i /\ Confirms(g.rows[j])
      BY <1>3, <1>a, <2>1, <2>2, <3>1 DEF GroupOk, Backed
    <3> QED BY <1>1, <1>5, <3>2
  <2>3. CASE i = n + 1
    <3>1. Answers(k) BY <1>1, <2>3
    <3>2. ~Http(row) /\ row.frame.side = 2 BY <1>2, <3>1 DEF Answers, OfJson
    <3>3. g.confirmed BY <2>1, <3>2 DEF GrowConfirmed
    <3>4. PICK j \in 1 .. n : Confirms(g.rows[j]) BY <1>9, <3>3
    <3>5. j < i BY <1>1, <2>3
    <3> QED BY <1>1, <1>5, <3>4, <3>5
  <2> QED BY <1>4, <2>2, <2>3
<1> QED BY <1>1, <1>6, <1>7, <1>8, <1>10, <1>11 DEF GroupOk

\* Close, for the group it closes.
LEMMA CloseIs ==
  ASSUME NEW p, NEW q, NEW o, NEW w, NEW i, NEW g, g = p[i]
  PROVE  Close(St(p, q, o), i, w) = St(Cut(p, i), q, Closed(o, g, w))
BY StOps

ExtendWays(x, p2, i, q, o, h, row) ==
  /\ row.frame.phase = 3 => x = St(Cut(p2, i), q, Closed(o, h, ""))
  /\ row.frame.phase = 4 => x = St(Cut(p2, i), q, Closed(o, h, "invalidated"))
  /\ row.frame.phase \notin {3, 4} =>
       \/ x = St(Cut(p2, i), q, Closed(o, h, "record_capacity"))
       \/ x = St(p2, q, o)

\* Extend closes the extended group or keeps it.
LEMMA ExtendIs ==
  ASSUME NEW p \in Seq(Groups), NEW i \in 1 .. Len(p), NEW q, NEW o, NEW row, NEW g, g = p[i],
         NEW h, h = Grow(g, row),
         NEW p2, p2 = Mended(p, i, h), NEW x, x = Extend(St(p, q, o), row, i)
  PROVE  ExtendWays(x, p2, i, q, o, h, row)
<1> DEFINE st == St(p, q, o)
           s1 == St(p2, q, o)
<1>1. st.pending[i] = p[i] BY StFields
<1>2. p2[i] = h
  <2>1. i \in DOMAIN p OBVIOUS
  <2> QED BY <2>1 DEF Mended
<1>3. [st EXCEPT !.pending[i] = h] = s1 BY DEF St, Mended
<1>0. g = p[i] /\ h = Grow(p[i], row) OBVIOUS
<1>4. h = [key |-> p[i].key, rows |-> Append(p[i].rows, Kept(row)),
           issues |-> p[i].issues
                \union If(~Http(row) /\ row.frame.side = 2
                          /\ ~(p[i].confirmed
                               \/ (Http(row) /\ row.ev.code = 142 /\ row.frame.side = 1 /\ row.frame.status = 1)),
                          "reply_before_http_confirmation")
                \union If(row.frame.status # 1, "invalid_group"),
           confirmed |-> p[i].confirmed
                         \/ (Http(row) /\ row.ev.code = 142 /\ row.frame.side = 1 /\ row.frame.status = 1)]
  BY <1>0 DEF Grow, GrowIssues, GrowConfirmed
<1>5. Extend(st, row, i) =
        IF row.frame.phase \in {3, 4} THEN Close(s1, i, IF row.frame.phase = 4 THEN "invalidated" ELSE "")
        ELSE IF Len(p[i].rows) + 1 >= MaxRecords THEN Close(s1, i, "record_capacity")
        ELSE s1
  <2> DEFINE gg == st.pending[i]
             s2 == [st EXCEPT !.pending[i] =
                      [key |-> gg.key, rows |-> Append(gg.rows, Kept(row)),
                       issues |-> gg.issues
                         \union If(~Http(row) /\ row.frame.side = 2
                                   /\ ~(gg.confirmed
                                        \/ (Http(row) /\ row.ev.code = 142 /\ row.frame.side = 1 /\ row.frame.status = 1)),
                                   "reply_before_http_confirmation")
                         \union If(row.frame.status # 1, "invalid_group"),
                       confirmed |-> gg.confirmed
                                     \/ (Http(row) /\ row.ev.code = 142 /\ row.frame.side = 1 /\ row.frame.status = 1)]]
  <2>1. Extend(st, row, i) =
        IF row.frame.phase \in {3, 4} THEN Close(s2, i, IF row.frame.phase = 4 THEN "invalidated" ELSE "")
        ELSE IF Len(gg.rows) + 1 >= MaxRecords THEN Close(s2, i, "record_capacity")
        ELSE s2
    BY DEF Extend
  <2>2. s2 = s1
    <3> HIDE DEF st, s1
    <3> QED BY <1>1, <1>3, <1>4
  <2> HIDE DEF s2, s1, st
  <2> QED BY <1>1, <2>1, <2>2
<1>6. ASSUME NEW w PROVE Close(s1, i, w) = St(Cut(p2, i), q, Closed(o, h, w))
  <2>1. h = p2[i] BY <1>2
  <2> QED BY <2>1, CloseIs
<1> HIDE DEF s1, st
<1> DEFINE w0 == IF row.frame.phase = 4 THEN "invalidated" ELSE ""
<1>w. (row.frame.phase = 3 => w0 = "") /\ (row.frame.phase = 4 => w0 = "invalidated") OBVIOUS
<1>v. row.frame.phase \in {3, 4} => Extend(st, row, i) = Close(s1, i, w0) BY <1>5
<1> HIDE DEF w0
<1>7. row.frame.phase = 3 => Extend(st, row, i) = Close(s1, i, "") BY <1>v, <1>w
<1>8. row.frame.phase = 4 => Extend(st, row, i) = Close(s1, i, "invalidated") BY <1>v, <1>w
<1>9. row.frame.phase \notin {3, 4} => (Extend(st, row, i) = Close(s1, i, "record_capacity") \/ Extend(st, row, i) = s1) BY <1>5
<1>10. x = Extend(st, row, i) BY DEF st
<1>11. s1 = St(p2, q, o) BY DEF s1
<1> QED BY <1>6, <1>7, <1>8, <1>9, <1>10, <1>11 DEF ExtendWays

\* What feeding a row leaves.
Result(x, q, R, row) ==
  \E p2, o2 : x = St(p2, q, o2) /\ GroupsOk(p2) /\ Within(p2, R) /\ OutFine(o2) /\ Ends(p2, row)

\* The programs have emitted the row and the exporter takes it.
Taken(row, R) ==
  /\ row \in Record /\ Accepted(row) /\ row.frame.exchange # 0
  /\ Tells(row) => <<Key(row), Kept(row)>> \in R

\* Extending the group of a row keeps everything the next row needs.
LEMMA ExtendOk ==
  ASSUME NEW p, NEW i, NEW R, Almost(p, i, R), NEW q, NEW o, OutFine(o), NEW row, Taken(row, R),
         Fits(p[i], row),
         p[i].key = Key(row), About(R), Confirmed(R)
  PROVE  Result(Extend(St(p, q, o), row, i), q, R, row)
<1> DEFINE x == Extend(St(p, q, o), row, i)
<1> SUFFICES Result(x, q, R, row) OBVIOUS
<1> DEFINE g == p[i]
           h == Grow(g, row)
           p2 == Mended(p, i, h)
<1>1. g.key = Key(row) OBVIOUS
<1>2. h = Grow(g, row) /\ p2 = Mended(p, i, h) OBVIOUS
<1>4. g = p[i] /\ x = Extend(St(p, q, o), row, i) OBVIOUS
<1> HIDE DEF g, h, p2, x
<1>0. /\ p \in Seq(Groups) /\ i \in 1 .. Len(p) /\ g \in Groups /\ row \in Record /\ row.frame.exchange # 0 /\ Fits(g, row)
      /\ GroupRecs(g) \subseteq R
  BY <1>4 DEF Almost, Taken, Within
<1>a. ExtendWays(x, p2, i, q, o, h, row) BY <1>0, <1>2, <1>4, ExtendIs
<1>3. /\ row.frame.phase = 3 => x = St(Cut(p2, i), q, Closed(o, h, ""))
      /\ row.frame.phase = 4 => x = St(Cut(p2, i), q, Closed(o, h, "invalidated"))
      /\ row.frame.phase \notin {3, 4} =>
           \/ x = St(Cut(p2, i), q, Closed(o, h, "record_capacity"))
           \/ x = St(p2, q, o)
  BY <1>a DEF ExtendWays
<1>5. /\ h \in Groups /\ h.key = Key(row) /\ Len(h.rows) = Len(g.rows) + 1 /\ Len(g.rows) \in Nat
      /\ h.rows[Len(g.rows) + 1] = Kept(row) /\ \A j \in 1 .. Len(g.rows) : h.rows[j] = g.rows[j]
  BY <1>0, <1>1, <1>2, GrowIs
<1>6. GroupOk(h) BY <1>0, <1>2, GrowOk
<1>7. /\ p2 \in Seq(Groups) /\ Len(p2) = Len(p) /\ p2[i] = h /\ i \in 1 .. Len(p2)
      /\ \A j \in 1 .. Len(p2) : j # i => p2[j] = p[j] /\ GroupOk(p2[j]) /\ p2[j].key # h.key
      /\ GroupsOk(p2)
      /\ GroupRecs(h) \subseteq R => Almost(p2, i, R)
      /\ Within(Cut(p2, i), R) /\ GroupsOk(Cut(p2, i)) /\ \A k \in 1 .. Len(Cut(p2, i)) : Cut(p2, i)[k].key # h.key
  <2>1. h.key = p[i].key BY <1>1, <1>4, <1>5
  <2> QED BY <1>2, <1>5, <1>6, <2>1, Mend
<1>8. Ends(Cut(p2, i), row)
  <2>1. \A k \in 1 .. Len(Cut(p2, i)) : Cut(p2, i)[k].key # Key(row) BY <1>5, <1>7
  <2> QED BY <2>1 DEF Ends
<1>9. /\ Kept(row).part = row.ev.part /\ Kept(row).code = row.ev.code /\ Kept(row).side = row.frame.side
      /\ Http(row) <=> row.ev.part = "http_response"
  BY <1>0, KeptOf
<1>10. h.rows[Len(h.rows)] = Kept(row) BY <1>5
<1>11. row.frame.phase # 4 => GroupRecs(h) \subseteq R
  <2> SUFFICES ASSUME row.frame.phase # 4, NEW j \in 1 .. Len(h.rows) PROVE <<h.key, h.rows[j]>> \in R BY DEF GroupRecs
  <2>1. Tells(row) BY <1>0, RecordFacts DEF Tells
  <2>2. <<Key(row), Kept(row)>> \in R BY <2>1 DEF Taken
  <2>3. j \in 1 .. Len(g.rows) \/ j = Len(g.rows) + 1 BY <1>5
  <2>4. CASE j \in 1 .. Len(g.rows)
    <3>1. <<g.key, g.rows[j]>> \in R BY <1>0, <2>4 DEF GroupRecs
    <3> QED BY <1>1, <1>5, <2>4, <3>1
  <2>5. CASE j = Len(g.rows) + 1 BY <1>5, <2>2, <2>5
  <2> QED BY <2>3, <2>4, <2>5
<1>12. ASSUME NEW w, w # "", x = St(Cut(p2, i), q, Closed(o, h, w)) PROVE Result(x, q, R, row)
  <2>1. OutFine(Closed(o, h, w)) BY <1>12, FineClosed
  <2> QED BY <1>7, <1>8, <1>12, <2>1 DEF Result
<1>13. CASE row.frame.phase = 3
  <2>1. row.ev.part = "http_response" /\ row.ev.code = 29
    <3>1. Valid(row) BY <1>0 DEF Taken, Accepted
    <3> QED BY <1>0, <1>9, <1>13, <3>1 DEF Valid
  <2>2. InRecs(h.key, h.rows, R) BY <1>11, <1>13 DEF InRecs, GroupRecs
  <2>3. h.rows[Len(h.rows)].part = "http_response" /\ h.rows[Len(h.rows)].code = 29
    BY <1>9, <1>10, <2>1
  <2>4. OutFine(Closed(o, h, "")) BY <1>6, <2>2, <2>3, FineDone
  <2> QED BY <1>3, <1>7, <1>8, <1>13, <2>4 DEF Result
<1>14. CASE row.frame.phase = 4 BY <1>3, <1>12, <1>14
<1>15. CASE row.frame.phase \notin {3, 4}
  <2>1. Almost(p2, i, R) BY <1>7, <1>11, <1>15
  <2>2. Within(p2, R) BY <2>1 DEF Almost
  <2>3. Ends(p2, row)
    <3> SUFFICES ASSUME NEW k \in 1 .. Len(p2), p2[k].key = Key(row)
                 PROVE  LET r == p2[k].rows[Len(p2[k].rows)] IN r.side = row.frame.side /\ r.part = row.ev.part
      BY DEF Ends
    <3>1. k = i BY <1>5, <1>7
    <3>2. p2[k].rows[Len(p2[k].rows)] = Kept(row) BY <1>7, <1>10, <3>1
    <3> QED BY <1>9, <3>2
  <2>4. x = St(p2, q, o) => Result(x, q, R, row) BY <1>7, <2>2, <2>3 DEF Result
  <2> QED BY <1>3, <1>12, <1>15, <2>4
<1> QED BY <1>13, <1>14, <1>15

\* Either nothing of a state is forgotten, or everything.
Checked(x, p, q, row) ==
  \E p2, q2, o2 : x = St(p2, Noted(q2, row), o2) /\ (p2 = p \/ p2 = << >>) /\ Shorter(q, q2) /\ OutFine(o2)

\* st is p, q or empty.
Leaves(st, p, q) ==
  \E p2, q2, o2 : st = St(p2, q2, o2) /\ (p2 = p \/ p2 = << >>) /\ Shorter(q, q2) /\ OutFine(o2)

Emptied(o) == St(<< >>, << >>, o)

\* Flush forgets the groups and the numbers.
LEMMA FlushIs ==
  ASSUME NEW st, NEW p, NEW q, NEW o, st = St(p, q, o), NEW w
  PROVE  Flush(st, w) = Emptied(Flushed(o, p, w))
BY DEF St, Flush, Flushed, Emptied

\* Say leaves both alone.
LEMMA SayIs ==
  ASSUME NEW st, NEW p, NEW q, NEW o, st = St(p, q, o), NEW w
  PROVE  Say(st, w) = St(p, q, Said(o, w))
BY DEF St, Say, Said

\* Nothing is known of any producer.
LEMMA NoDomain == DOMAIN << >> = {}
<1>1. << >> \in Seq({}) /\ Len(<< >>) = 0 OBVIOUS
<1>2. DOMAIN << >> = 1 .. Len(<< >>) BY <1>1
<1> QED BY <1>1, <1>2

Why(w) == w # ""

\* A flush leaves nothing.
LEMMA FlushLeaves ==
  ASSUME NEW st, NEW p, NEW q, Leaves(st, p, q), NEW w, Why(w)
  PROVE  Leaves(Flush(st, w), p, q)
<1>1. PICK p2, q2, o2 : st = St(p2, q2, o2) /\ OutFine(o2) BY DEF Leaves
<1>a. st = St(p2, q2, o2) BY <1>1
<1>b. Flush(st, w) = Emptied(Flushed(o2, p2, w)) BY <1>a, FlushIs
<1>2. Flush(st, w) = St(<< >>, << >>, Flushed(o2, p2, w)) BY <1>b DEF Emptied
<1>3. OutFine(Flushed(o2, p2, w)) BY <1>1, FineFlushed DEF Why
<1>4. Shorter(q, << >>)
  <2> QED BY NoDomain DEF Shorter
<1> QED BY <1>2, <1>3, <1>4 DEF Leaves

Note(st, row) ==
  [st EXCEPT !.sequences =
     [x \in DOMAIN @ \union {Producer(row)} |-> IF x = Producer(row) THEN row.ev.seq ELSE @[x]]]

\* Noting a number leaves the groups alone.
LEMMA NotedIs ==
  ASSUME NEW st, NEW p, NEW q, NEW o, st = St(p, q, o), NEW row
  PROVE  Note(st, row) = St(p, Noted(q, row), o)
<1> DEFINE n == Noted(q, row)
<1>1. [x \in DOMAIN st.sequences \union {Producer(row)} |-> IF x = Producer(row) THEN row.ev.seq ELSE st.sequences[x]] = n
  BY StFields DEF Noted
<1> HIDE DEF n
<1>2. [st EXCEPT !.sequences = n] = St(p, n, o) BY DEF St
<1> QED BY <1>1, <1>2 DEF n, Note

\* CheckSequence keeps the groups and the numbers or forgets both, and notes the number of the row.
LEMMA CheckIs ==
  ASSUME NEW p, NEW q, NEW o, OutFine(o), NEW row, NEW st, st = St(p, q, o)
  PROVE  Checked(CheckSequence(st, row), p, q, row)
<1> DEFINE gap == (Producer(row) \in DOMAIN st.sequences /\ row.ev.seq # st.sequences[Producer(row)] + 1) \/ row.ev.fails > 0
           s1 == IF gap THEN Flush(st, "producer_gap") ELSE st
           full == Cardinality(DOMAIN s1.sequences) >= Capacity /\ Producer(row) \notin DOMAIN s1.sequences
           s2 == IF full THEN Flush(s1, "producer_capacity") ELSE s1
           x == CheckSequence(st, row)
<1>1. x = Note(s2, row) BY DEF CheckSequence, Note
<1>2. Leaves(st, p, q) BY DEF Leaves, Shorter
<1> HIDE DEF gap, x
<1>3. Leaves(s1, p, q)
  <2>1. CASE gap BY <1>2, <2>1, FlushLeaves DEF Why
  <2>2. CASE ~gap BY <1>2, <2>2
  <2> QED BY <2>1, <2>2
<1> HIDE DEF s1, full
<1>4. Leaves(s2, p, q)
  <2>1. CASE full BY <1>3, <2>1, FlushLeaves DEF Why
  <2>2. CASE ~full BY <1>3, <2>2
  <2> QED BY <2>1, <2>2
<1> HIDE DEF s2
<1>5. PICK p2, q2, o2 : s2 = St(p2, q2, o2) /\ (p2 = p \/ p2 = << >>) /\ Shorter(q, q2) /\ OutFine(o2) BY <1>4 DEF Leaves
<1>6. x = St(p2, Noted(q2, row), o2) BY <1>1, <1>5, NotedIs
<1>7. Checked(x, p, q, row) BY <1>5, <1>6 DEF Checked
<1> QED BY <1>7 DEF x

-----------------------------------------------------------------------------
(* The groups that a row finds.                                            *)

\* A key that no group has.
LEMMA PendingNone ==
  ASSUME NEW p, NEW q, NEW o, NEW k, NEW st, st = St(p, q, o)
  PROVE  /\ Pending(st, k) = {} => \A i \in 1 .. Len(p) : p[i].key # k
         /\ Pending(st, k) # {} => \E i \in 1 .. Len(p) : p[i].key = k
<1>1. st.pending = p BY StFields
<1> QED BY <1>1 DEF Pending

\* The group that the row goes on with ends with the row before it.
HeadOk(p, row) ==
  Later(row) => \A i \in 1 .. Len(p) : p[i].key = Key(row) =>
    LET r == p[i].rows[Len(p[i].rows)]
    IN r.side = row.frame.side /\ NextPart(r.part, row.ev.part)

\* The group of a key.
At(p, i, k) == i \in 1 .. Len(p) /\ p[i].key = k
Lacks(p, k) == \A i \in 1 .. Len(p) : p[i].key # k
Found(st, k) == CHOOSE i \in Pending(st, k) : TRUE

\* The exporter finds the only group of a key.
LEMMA FoundAt ==
  ASSUME NEW p, Unique(p), NEW q, NEW o, NEW i, NEW k, At(p, i, k), NEW st, st = St(p, q, o)
  PROVE  Found(st, k) = i
<1>1. i \in 1 .. Len(p) /\ p[i].key = k BY DEF At
<1>2. st.pending = p BY StFields
<1>3. Pending(st, k) = {j \in 1 .. Len(p) : p[j].key = k} BY <1>2 DEF Pending
<1>4. Pending(st, k) = {i} BY <1>1, <1>3 DEF Unique
<1> QED BY <1>4 DEF Found

Begun(p, g) == Append(p, g)
Vacant(g) == g \in Groups /\ g.rows = << >>

\* A group without rows is begun.
LEMMA AddedTo ==
  ASSUME NEW p, GroupsOk(p), NEW R, Within(p, R), NEW g, Vacant(g), Lacks(p, g.key),
         NEW p2, p2 = Begun(p, g)
  PROVE  \E i : Almost(p2, i, R) /\ p2[i] = g
<1> DEFINE i == Len(p) + 1
<1>0. p \in Seq(Groups) /\ Unique(p) /\ g \in Groups /\ Len(g.rows) = 0 /\ \A k \in 1 .. Len(p) : p[k].key # g.key
  BY DEF GroupsOk, Vacant, Lacks
<1>1. /\ p2 \in Seq(Groups) /\ Len(p2) = i /\ p2[i] = g /\ Len(p) \in Nat
      /\ \A k \in 1 .. Len(p) : p2[k] = p[k]
  BY <1>0 DEF Begun
<1>2. \A k \in 1 .. Len(p2) : k \in 1 .. Len(p) \/ k = i BY <1>1
<1>3. i \in 1 .. Len(p2) BY <1>1
<1> HIDE DEF i
<1>4. Unique(p2)
  <2> SUFFICES ASSUME NEW k \in 1 .. Len(p2), NEW l \in 1 .. Len(p2), p2[k].key = p2[l].key PROVE k = l BY DEF Unique
  <2> QED BY <1>0, <1>1, <1>2 DEF Unique
<1>5. GroupRecs(g) = {} BY <1>0 DEF GroupRecs
<1>6. Within(p2, R) BY <1>1, <1>2, <1>5 DEF Within
<1>7. \A j \in 1 .. Len(p2) : j # i => GroupOk(p2[j]) BY <1>1, <1>2 DEF GroupsOk
<1>8. Almost(p2, i, R) /\ p2[i] = g BY <1>1, <1>3, <1>4, <1>6, <1>7 DEF Almost
<1> QED BY <1>8

NewGroup(row) == [key |-> Key(row), rows |-> << >>, issues |-> {}, confirmed |-> FALSE]

\* Where a start finds room.
Room(x, p, q, R, row) ==
  \E p2, o2 : x = St(p2, q, o2) /\ GroupsOk(p2) /\ Within(p2, R) /\ OutFine(o2) /\ \A i \in 1 .. Len(p2) : p2[i].key # Key(row)

Opened(st) == IF Len(st.pending) >= Capacity THEN Close(st, 1, "capacity") ELSE st

\* The oldest group makes room, which adds no group of the key.
LEMMA OpenedRoom ==
  ASSUME NEW p, GroupsOk(p), NEW R, Within(p, R), NEW q, NEW o, OutFine(o), NEW row,
         \A i \in 1 .. Len(p) : p[i].key # Key(row),
         NEW st, st = St(p, q, o)
  PROVE  Room(Opened(st), p, q, R, row)
<1>1. st.pending = p BY StFields
<1>2. CASE Len(p) >= Capacity
  <2>1. p \in Seq(Groups) BY DEF GroupsOk
  <2>2. 1 \in 1 .. Len(p) BY <1>2, <2>1, CombineAssumption
  <2> DEFINE c == Cut(p, 1)
             g == p[1]
             o2 == Closed(o, g, "capacity")
  <2>3. Close(st, 1, "capacity") = St(c, q, o2) BY CloseIs
  <2>4. OutFine(o2) BY FineClosed
  <2>5. Almost(p, 1, R) BY <2>2, GroupsAlmost
  <2>6. c = Cut(p, 1) OBVIOUS
  <2> HIDE DEF c, g, o2
  <2>7. GroupsOk(c) /\ Within(c, R) BY <2>5, <2>6, CutOk
  <2>8. FromRest(c, p, 1) BY <2>1, <2>2, <2>6, CutElems
  <2>9. \A i \in 1 .. Len(c) : c[i].key # Key(row) BY <2>8 DEF FromRest
  <2>10. Opened(st) = St(c, q, o2) BY <1>1, <1>2, <2>3 DEF Opened
  <2> QED BY <2>4, <2>7, <2>9, <2>10 DEF Room
<1>3. CASE ~(Len(p) >= Capacity)
  <2>1. Opened(st) = st BY <1>1, <1>3 DEF Opened
  <2> QED BY <2>1 DEF Room
<1> QED BY <1>2, <1>3

\* Begin appends a group.
LEMMA BeginIs ==
  ASSUME NEW st, NEW row, NEW p, NEW q, NEW o, Opened(st) = St(p, q, o)
  PROVE  Begin(st, row) = St(Append(p, NewGroup(row)), q, o)
<1> DEFINE s == Opened(st)
           g == NewGroup(row)
<1>1. Begin(st, row) = [s EXCEPT !.pending = Append(s.pending, g)] BY DEF Begin, Opened, NewGroup
<1> HIDE DEF g
<1>2. s.pending = p BY StFields
<1> DEFINE a == Append(p, g)
<1>3. Begin(st, row) = [s EXCEPT !.pending = a] BY <1>1, <1>2
<1> HIDE DEF a
<1>4. [s EXCEPT !.pending = a] = St(a, q, o) BY DEF St
<1> QED BY <1>3, <1>4 DEF a, g

\* The group that it appends.
LEMMA NewGroupFacts ==
  ASSUME NEW row \in Record
  PROVE  /\ NewGroup(row) \in Groups /\ NewGroup(row).key = Key(row) /\ NewGroup(row).rows = << >> /\ Len(NewGroup(row).rows) = 0
         /\ ~NewGroup(row).confirmed
<1>1. Key(row) \in Keys BY KeptOf
<1>2. << >> \in Seq(KeptRow) /\ Len(<< >>) = 0 OBVIOUS
<1>3. {} \in SUBSET Names OBVIOUS
<1> QED BY <1>1, <1>2, <1>3 DEF NewGroup, Groups

\* The first record of a client message may begin a group.
LEMMA StartFits ==
  ASSUME NEW row, NEW R, Taken(row, R), row.frame.phase = 1
  PROVE  row \in Record /\ Starts(Kept(row)) /\ Fits(NewGroup(row), row)
<1>1. row \in Record /\ Valid(row) /\ row.frame.exchange # 0 BY DEF Taken, Accepted
<1>2. row.ev.part = "method" /\ row.frame.side = 1 BY <1>1 DEF Valid
<1>3. Starts(Kept(row)) BY <1>1, <1>2, KeptOf DEF Starts
<1> QED BY <1>1, <1>3, NewGroupFacts DEF Fits

\* A start without a group.
LEMMA StartOk ==
  ASSUME NEW p, GroupsOk(p), NEW R, Within(p, R), NEW q, NEW o, OutFine(o), NEW row,
         Taken(row, R), row.frame.phase = 1,
         \A i \in 1 .. Len(p) : p[i].key # Key(row), About(R), Confirmed(R), NEW st,
         st = St(p, q, o), NEW s1, s1 = Begin(st, row)
  PROVE  Result(Extend(s1, row, Found(s1, Key(row))), q, R, row)
<1>1. Room(Opened(st), p, q, R, row) BY OpenedRoom
<1>2. PICK p2, o2 : /\ Opened(st) = St(p2, q, o2) /\ GroupsOk(p2) /\ Within(p2, R) /\ OutFine(o2)
                    /\ \A i \in 1 .. Len(p2) : p2[i].key # Key(row)
  BY <1>1 DEF Room
<1> DEFINE g == NewGroup(row)
           p3 == Append(p2, g)
           k == Key(row)
<1>3. s1 = St(p3, q, o2)
  <2>1. Opened(st) = St(p2, q, o2) BY <1>2
  <2> QED BY <2>1, BeginIs
<1>4. row \in Record /\ Fits(g, row) BY StartFits
<1>5. g \in Groups /\ g.key = k /\ g.rows = << >> BY <1>4, NewGroupFacts
<1>6. p3 = Begun(p2, g) /\ k = Key(row) BY DEF Begun
<1> HIDE DEF g, p3, k
<1>a. \E i : Almost(p3, i, R) /\ p3[i] = g
  <2>1. Lacks(p2, g.key) BY <1>2, <1>5, <1>6 DEF Lacks
  <2>2. GroupsOk(p2) /\ Within(p2, R) BY <1>2
  <2>3. Vacant(g) BY <1>5 DEF Vacant
  <2> QED BY <1>6, <2>1, <2>2, <2>3, AddedTo
<1>7. PICK i : Almost(p3, i, R) /\ p3[i] = g BY <1>a
<1>8. Unique(p3) /\ i \in 1 .. Len(p3) /\ p3[i].key = k BY <1>5, <1>7 DEF Almost
<1>9. Found(s1, k) = i BY <1>3, <1>8, FoundAt DEF At
<1>10. Fits(p3[i], row) /\ p3[i].key = Key(row) BY <1>4, <1>6, <1>7, <1>8
<1>11. OutFine(o2) BY <1>2
<1>12. Result(Extend(St(p3, q, o2), row, i), q, R, row) BY <1>7, <1>10, <1>11, ExtendOk
<1> QED BY <1>3, <1>6, <1>9, <1>12

\* A row of a pending group.
LEMMA GoesOn ==
  ASSUME NEW p, GroupsOk(p), NEW R, Within(p, R), NEW q, NEW o, OutFine(o), NEW row,
         Taken(row, R), HeadOk(p, row),
         NEW i \in 1 .. Len(p), p[i].key = Key(row), About(R), Confirmed(R), NEW st,
         st = St(p, q, o)
  PROVE  Result(Extend(st, row, Found(st, Key(row))), q, R, row)
<1>1. Almost(p, i, R) /\ Unique(p) /\ GroupOk(p[i]) BY GroupsAlmost DEF GroupsOk
<1>2. Fits(p[i], row) BY <1>1 DEF Fits, HeadOk
<1> DEFINE k == Key(row)
<1>3. p[i].key = k OBVIOUS
<1> HIDE DEF k
<1>4. Found(st, k) = i BY <1>1, <1>3, FoundAt DEF At
<1>5. p[i].key = Key(row) OBVIOUS
<1>6. Result(Extend(St(p, q, o), row, i), q, R, row) BY <1>1, <1>2, <1>5, ExtendOk
<1> QED BY <1>4, <1>6 DEF k

\* A start of a pending group closes it.
LEMMA StartsAgain ==
  ASSUME NEW p, GroupsOk(p), NEW R, Within(p, R), NEW q, NEW o, OutFine(o), NEW row,
         NEW i \in 1 .. Len(p), p[i].key = Key(row), NEW st, st = St(p, q, o)
  PROVE  Result(Say(Close(st, Found(st, Key(row)), "duplicate_start"), "agent.activity"), q, R, row)
<1>1. Almost(p, i, R) /\ Unique(p) BY GroupsAlmost DEF GroupsOk
<1> DEFINE k == Key(row)
           c == Cut(p, i)
           g == p[i]
           o1 == Closed(o, g, "duplicate_start")
           o2 == Said(o1, "agent.activity")
           s1 == Close(st, i, "duplicate_start")
<1>2. p[i].key = k /\ c = Cut(p, i) /\ g = p[i] OBVIOUS
<1>3. OutFine(o1) BY FineClosed
<1> HIDE DEF o1
<1>4. OutFine(o2) BY <1>3, FineSaid DEF Refused
<1>5. s1 = St(c, q, o1) BY CloseIs DEF o1
<1> HIDE DEF s1
<1>6. Say(s1, "agent.activity") = St(c, q, o2) BY <1>5, SayIs
<1> HIDE DEF k, c, g, o2
<1>7. Found(st, k) = i
  <2>1. At(p, i, k) BY <1>2 DEF At
  <2> QED BY <1>1, <2>1, FoundAt
<1>8. GroupsOk(c) /\ Within(c, R) /\ \A j \in 1 .. Len(c) : c[j].key # p[i].key
  BY <1>1, <1>2, CutOk
<1>9. Ends(c, row) BY <1>2, <1>8 DEF Ends
<1>10. Result(Say(s1, "agent.activity"), q, R, row) BY <1>4, <1>6, <1>8, <1>9 DEF Result
<1> QED BY <1>7, <1>10 DEF k, s1

\* Group in all cases.
LEMMA GroupStep ==
  ASSUME NEW p, GroupsOk(p), NEW R, Within(p, R), NEW q, NEW o, OutFine(o), NEW row,
         Taken(row, R), HeadOk(p, row),
         About(R), Confirmed(R), NEW st, st = St(p, q, o)
  PROVE  Result(Group(st, row), q, R, row)
<1> DEFINE there == Pending(st, Key(row)) # {}
<1>1. CASE there
  <2>1. \E i \in 1 .. Len(p) : p[i].key = Key(row) BY <1>1, PendingNone
  <2>2. PICK i \in 1 .. Len(p) : p[i].key = Key(row) BY <2>1
  <2>3. CASE row.frame.phase = 1
    <3> DEFINE x == Say(Close(st, Found(st, Key(row)), "duplicate_start"), "agent.activity")
    <3>1. Group(st, row) = x BY <1>1, <2>3 DEF Group, Found
    <3>2. Result(x, q, R, row) BY <2>2, StartsAgain
    <3> HIDE DEF x
    <3> QED BY <3>1, <3>2
  <2>4. CASE row.frame.phase # 1
    <3> DEFINE x == Extend(st, row, Found(st, Key(row)))
    <3>1. Group(st, row) = x BY <1>1, <2>4 DEF Group, Found
    <3>2. Result(x, q, R, row) BY <2>2, GoesOn
    <3> HIDE DEF x
    <3> QED BY <3>1, <3>2
  <2> QED BY <2>3, <2>4
<1>2. CASE ~there
  <2>1. \A i \in 1 .. Len(p) : p[i].key # Key(row) BY <1>2, PendingNone
  <2>3. CASE row.frame.phase = 1
    <3> DEFINE s1 == Begin(st, row)
               x == Extend(s1, row, Found(s1, Key(row)))
    <3>1. Group(st, row) = x BY <1>2, <2>3 DEF Group, Found
    <3>3. s1 = Begin(st, row) OBVIOUS
    <3> HIDE DEF s1
    <3>2. Result(x, q, R, row) BY <2>1, <2>3, <3>3, StartOk
    <3> HIDE DEF x
    <3> QED BY <3>1, <3>2
  <2>4. CASE row.frame.phase # 1
    <3> DEFINE x == Say(st, "unobserved_start")
               o2 == Said(o, "unobserved_start")
    <3>1. Group(st, row) = x BY <1>2, <2>4 DEF Group, Found
    <3>2. x = St(p, q, o2) BY SayIs
    <3>3. OutFine(o2) BY FineSaid DEF Refused
    <3> HIDE DEF x, o2
    <3>4. Ends(p, row) BY <2>1 DEF Ends
    <3> QED BY <3>1, <3>2, <3>3, <3>4 DEF Result
  <2> QED BY <2>3, <2>4
<1> QED BY <1>1, <1>2

-----------------------------------------------------------------------------
(* A page.                                                                 *)

\* Between two rows, s is what is left of the stream.
FeedInv(src, P, R, p, q, o, s) ==
  /\ GroupsOk(p) /\ Within(p, R) /\ Recs(s) \subseteq R /\ OutFine(o)
  /\ Log(src, q, p, P, s)
FedTo(x, src, P, R, s) == \E p, q, o : x = St(p, q, o) /\ FeedInv(src, P, R, p, q, o, s)

\* No groups are fine.
LEMMA NoGroups ==
  ASSUME NEW R
  PROVE  GroupsOk(<< >>) /\ Within(<< >>, R)
<1>1. << >> \in Seq(Groups) /\ Len(<< >>) = 0 OBVIOUS
<1>2. \A i \in 1 .. Len(<< >>) : FALSE BY <1>1
<1> QED BY <1>1, <1>2 DEF GroupsOk, Within, Unique

NotEmpty(s) == s \in Seq(Row) /\ Len(s) > 0

\* Reading a row adds no records.
LEMMA RecsTail ==
  ASSUME NEW s, NotEmpty(s), NEW R, Recs(s) \subseteq R, NEW t, t = Tail(s)
  PROVE  Recs(t) \subseteq R
<1>1. \A i \in 1 .. Len(t) : t[i] = s[i + 1] /\ i + 1 \in 1 .. Len(s) BY TailFacts DEF NotEmpty
<1>2. Recs(t) \subseteq Recs(s) BY <1>1 DEF Recs
<1> QED BY <1>2

\* A row that is not a record.
LEMMA QuietRow ==
  ASSUME NEW src, NEW P, NEW R, NEW p, NEW q, NEW o, NEW s, FeedInv(src, P, R, p, q, o, s),
         NotEmpty(s), NEW t, t = Tail(s),
         s[1] \notin Record, NEW p2, p2 = p \/ p2 = << >>, NEW q2, Shorter(q, q2), NEW o2,
         OutFine(o2)
  PROVE  FeedInv(src, P, R, p2, q2, o2, t)
<1>1. GroupsOk(p2) /\ Within(p2, R) BY NoGroups DEF FeedInv
<1>2. Recs(t) \subseteq R BY RecsTail DEF FeedInv
<1>3. Log(src, q, p, P, s) /\ Len(s) > 0 BY DEF FeedInv, NotEmpty
<1>4. NumbersOk(src, P, q2) /\ NumbersBehind(q2, t) BY <1>3, NumbersShorter
<1>5. Log(src, q2, p2, P, t) BY <1>3, <1>4, LogTail
<1> QED BY <1>1, <1>2, <1>5 DEF FeedInv

\* A record, once its number is noted and the groups are fine.
LEMMA RecordRow ==
  ASSUME NEW src, NEW P, NEW R, NEW p, NEW q, NEW o, NEW s, FeedInv(src, P, R, p, q, o, s),
         NotEmpty(s), NEW t, t = Tail(s),
         NEW row, row = s[1], row \in Record, NEW p2, GroupsOk(p2), Within(p2, R),
         row.frame.exchange # 0 => Ends(p2, row), NEW q2, Shorter(q, q2), NEW o2, OutFine(o2)
  PROVE  FeedInv(src, P, R, p2, Noted(q2, row), o2, t)
<1>2. Recs(t) \subseteq R BY RecsTail DEF FeedInv
<1>3. Log(src, q, p, P, s) /\ Len(s) > 0 BY DEF FeedInv, NotEmpty
<1> DEFINE q3 == Noted(q2, row)
<1>a. q3 = Noted(q2, row) OBVIOUS
<1> HIDE DEF q3
<1>4. NumbersOk(src, P, q3) /\ NumbersBehind(q3, t) BY <1>3, <1>a, NumbersNoted
<1>b. s[1] \in Record /\ s[1].frame.exchange # 0 => Ends(p2, s[1]) OBVIOUS
<1>5. Log(src, q3, p2, P, t) BY <1>3, <1>4, <1>b, LogTail
<1> QED BY <1>2, <1>5, <1>a DEF FeedInv

\* FeedRow on a row that is not a record.
LEMMA NoticeFed ==
  ASSUME NEW src, NEW P, NEW R, NEW p, NEW q, NEW o, NEW s, FeedInv(src, P, R, p, q, o, s),
         NotEmpty(s), NEW t, t = Tail(s),
         NEW row, row = s[1], row \in Notice, NEW st, st = St(p, q, o)
  PROVE  FedTo(FeedRow(st, row), src, P, R, t)
<1> DEFINE w == row.type
           f == Flush(st, "diagnostic_or_unqualified_record")
           s1 == IF w = "discard" THEN st ELSE f
<1>1. w \in {"discard", "unqualified_record", "observation_gap", "source_boundary"} BY DEF Notice
<1>2. Projected(row) = w BY <1>1 DEF Projected
<1>3. FeedRow(st, row) = Say(s1, w)
  <2>1. Projected(row) # "agent.activity" BY <1>1, <1>2
  <2>2. FeedRow(st, row) = Diagnose(st, row) BY <2>1 DEF FeedRow
  <2> QED BY <1>2, <2>2 DEF Diagnose
<1>4. Leaves(st, p, q) BY DEF Leaves, Shorter, FeedInv
<1>5. Leaves(f, p, q) BY <1>4, FlushLeaves DEF Why
<1> HIDE DEF f
<1>6. Leaves(s1, p, q) BY <1>4, <1>5
<1> HIDE DEF s1
<1>7. PICK p2, q2, o2 : s1 = St(p2, q2, o2) /\ (p2 = p \/ p2 = << >>) /\ Shorter(q, q2) /\ OutFine(o2) BY <1>6 DEF Leaves
<1> DEFINE o3 == Said(o2, w)
<1>8. OutFine(o3)
  <2>1. w \notin Refused /\ w # "agent.activity.combined" BY <1>1 DEF Refused
  <2> HIDE DEF w
  <2> QED BY <1>7, <2>1, FineSaid
<1>9. s[1] \notin Record BY <1>1 DEF Record
<1> HIDE DEF w
<1>10. Say(s1, w) = St(p2, q2, o3) BY <1>7, SayIs
<1> HIDE DEF o3
<1>11. FeedInv(src, P, R, p2, q2, o3, t)
  <2>1. (p2 = p \/ p2 = << >>) /\ Shorter(q, q2) BY <1>7
  <2> QED BY <1>8, <1>9, <2>1, QuietRow
<1> QED BY <1>3, <1>10, <1>11 DEF FedTo

\* FeedRow on a record: it is neither malformed, invalid nor regressed.
LEMMA RecordFed ==
  ASSUME NEW src, NEW P, NEW R, NEW p, NEW q, NEW o, NEW s, FeedInv(src, P, R, p, q, o, s),
         NotEmpty(s), NEW t, t = Tail(s),
         NEW row, row = s[1], row \in Record, NEW st, st = St(p, q, o), About(R), Confirmed(R)
  PROVE  FedTo(FeedRow(st, row), src, P, R, t)
<1>0. 1 \in 1 .. Len(s) BY DEF NotEmpty
<1>1. Accepted(row) /\ row.type = "record" BY <1>0, RecordFacts DEF FeedInv, Log, RowsOk
<1>2. Unwraps(row.frame) /\ Valid(row) BY <1>1 DEF Accepted
<1>3. Projected(row) = "agent.activity" BY <1>1, <1>2 DEF Projected
<1>4. ~(Producer(row) \in DOMAIN st.sequences /\ row.ev.seq <= st.sequences[Producer(row)])
  <2>1. st.sequences = q BY StFields
  <2>2. Producer(row) \in DOMAIN q => q[Producer(row)] < row.ev.seq
    BY <1>0 DEF FeedInv, Log, NumbersBehind
  <2>3. Producer(row) \in DOMAIN q => q[Producer(row)] \in Nat BY DEF FeedInv, Log, NumbersOk
  <2>4. row.ev.seq \in Nat BY RecordFacts
  <2> QED BY <2>1, <2>2, <2>3, <2>4
<1> DEFINE s1 == CheckSequence(st, row)
<1>5. FeedRow(st, row) = IF row.frame.exchange = 0 THEN Say(s1, "agent.activity") ELSE Group(s1, row)
  BY <1>2, <1>3, <1>4 DEF FeedRow
<1>6. OutFine(o) /\ GroupsOk(p) /\ Within(p, R) BY DEF FeedInv
<1>7. Checked(s1, p, q, row) BY <1>6, CheckIs
<1> HIDE DEF s1
<1>8. PICK p2, q2, o2 : s1 = St(p2, Noted(q2, row), o2) /\ (p2 = p \/ p2 = << >>) /\ Shorter(q, q2) /\ OutFine(o2)
  BY <1>7 DEF Checked
<1>9. GroupsOk(p2) /\ Within(p2, R) BY <1>6, <1>8, NoGroups
<1>10. HeadOk(p2, row)
  <2>1. CASE p2 = p
    <3>1. HeadLinked(p, s) /\ Len(s) > 0 BY DEF FeedInv, Log, NotEmpty
    <3> QED BY <2>1, <3>1 DEF HeadLinked, HeadOk
  <2>2. CASE p2 = << >>
    <3>1. \A i \in 1 .. Len(p2) : FALSE BY <2>2
    <3> QED BY <3>1 DEF HeadOk
  <2> QED BY <1>8, <2>1, <2>2
<1> DEFINE q3 == Noted(q2, row)
<1>11. CASE row.frame.exchange = 0
  <2> DEFINE o3 == Said(o2, "agent.activity")
  <2>1. OutFine(o3) BY <1>8, FineSaid DEF Refused
  <2>2. s1 = St(p2, q3, o2) BY <1>8
  <2> HIDE DEF q3
  <2>3. Say(s1, "agent.activity") = St(p2, q3, o3) BY <2>2, SayIs
  <2> HIDE DEF o3
  <2>4. FeedRow(st, row) = St(p2, q3, o3) BY <1>5, <1>11, <2>3
  <2>5. row.frame.exchange # 0 => Ends(p2, row) BY <1>11
  <2>7. Shorter(q, q2) BY <1>8
  <2>6. FeedInv(src, P, R, p2, Noted(q2, row), o3, t) BY <1>9, <2>1, <2>5, <2>7, RecordRow
  <2> QED BY <2>4, <2>6 DEF FedTo, q3
<1>12. CASE row.frame.exchange # 0
  <2>1. Taken(row, R)
    <3>1. Tells(row) => <<Key(row), Kept(row)>> \in Recs(s) BY <1>0 DEF Recs
    <3>2. Recs(s) \subseteq R BY DEF FeedInv
    <3> QED BY <1>1, <1>12, <3>1, <3>2 DEF Taken
  <2>2. s1 = St(p2, q3, o2) /\ OutFine(o2) BY <1>8
  <2> HIDE DEF q3
  <2>3. Result(Group(s1, row), q3, R, row) BY <1>9, <1>10, <2>1, <2>2, GroupStep
  <2>4. PICK p4, o4 : Group(s1, row) = St(p4, q3, o4) /\ GroupsOk(p4) /\ Within(p4, R) /\ OutFine(o4) /\ Ends(p4, row)
    BY <2>3 DEF Result
  <2>5. Shorter(q, q2) /\ GroupsOk(p4) /\ Within(p4, R) /\ OutFine(o4) BY <1>8, <2>4
  <2>6. row.frame.exchange # 0 => Ends(p4, row) BY <2>4
  <2>7. FeedInv(src, P, R, p4, Noted(q2, row), o4, t) BY <2>5, <2>6, RecordRow
  <2>8. FeedRow(st, row) = Group(s1, row) BY <1>5, <1>12
  <2> QED BY <2>4, <2>7, <2>8 DEF FedTo, q3
<1> QED BY <1>11, <1>12

\* FeedRow on any row of the stream.
LEMMA RowFed ==
  ASSUME NEW src, NEW P, NEW R, NEW s, NotEmpty(s), NEW t, t = Tail(s),
         NEW row, row = s[1], NEW st, FedTo(st, src, P, R, s), About(R), Confirmed(R)
  PROVE  FedTo(FeedRow(st, row), src, P, R, t)
<1>1. PICK p, q, o : st = St(p, q, o) /\ FeedInv(src, P, R, p, q, o, s) BY DEF FedTo
<1>2. row \in Row BY DEF NotEmpty
<1>a. st = St(p, q, o) /\ FeedInv(src, P, R, p, q, o, s) BY <1>1
<1>3. CASE row \in Notice BY <1>a, <1>3, NoticeFed
<1>4. CASE row \in Record BY <1>a, <1>4, RecordFed
<1> QED BY <1>2, <1>3, <1>4 DEF Row

-----------------------------------------------------------------------------
(* A page is fed row by row.                                               *)

\* Every set of natural numbers that is not empty has a least element.
LEMMA Least ==
  ASSUME NEW S \in SUBSET Nat, S # {}
  PROVE  \E m \in S : \A k \in S : m <= k
<1> DEFINE R == OpToRel(<, Nat)
<1>1. IsWellFoundedOn(R, Nat) BY NatLessThanWellFounded
<1>2. \A k, m \in Nat : k < m => <<k, m>> \in R BY DEF OpToRel
<1> HIDE DEF R
<1>3. PICK m \in S : \A k \in S : ~(<<k, m>> \in R) BY <1>1, WFMin
<1>4. ASSUME NEW k \in S PROVE m <= k
  <2>1. k \in Nat /\ m \in Nat OBVIOUS
  <2>2. ~(k < m) BY <1>2, <1>3, <2>1, Zenon
  <2> QED BY <2>1, <2>2
<1> QED BY <1>4

\* What feed works on before and after each of n rows.
IsFed(f, page, n) == f = [i \in 0 .. n |-> IF i = 0 THEN State ELSE FeedRow(f[i - 1], page[i])]

\* The rows of a page can be fed one after the other.
LEMMA FedExists ==
  ASSUME NEW page, NEW n \in Nat
  PROVE  \E f : IsFed(f, page, n)
<1> DEFINE Bad == {k \in Nat : ~\E f : IsFed(f, page, k)}
<1>1. SUFFICES ASSUME Bad # {} PROVE FALSE OBVIOUS
<1>2. PICK k \in Bad : \A j \in Bad : k <= j BY <1>1, Least
<1>3. k # 0
  <2>1. IsFed([i \in 0 .. 0 |-> State], page, 0) BY DEF IsFed
  <2> QED BY <2>1
<1>4. k \in Nat /\ k - 1 \in Nat /\ k - 1 \notin Bad BY <1>2, <1>3
<1>5. PICK f : IsFed(f, page, k - 1) BY <1>4
<1> DEFINE g == [i \in 0 .. k |-> IF i = k THEN FeedRow(f[k - 1], page[k]) ELSE f[i]]
<1>6. IsFed(g, page, k)
  <2>1. ASSUME NEW i \in 0 .. k PROVE g[i] = IF i = 0 THEN State ELSE FeedRow(g[i - 1], page[i])
    <3>1. CASE i = 0
      <4>1. g[i] = f[0] BY <1>3, <3>1
      <4>2. f[0] = State BY <1>4, <1>5 DEF IsFed
      <4> QED BY <3>1, <4>1, <4>2
    <3>2. CASE i = k
      <4>1. g[k - 1] = f[k - 1] BY <1>4
      <4> QED BY <1>3, <3>2, <4>1
    <3>3. CASE i \in 1 .. k - 1
      <4>1. g[i] = f[i] /\ g[i - 1] = f[i - 1] BY <1>4, <3>3
      <4>2. f[i] = FeedRow(f[i - 1], page[i]) BY <1>4, <1>5, <3>3 DEF IsFed
      <4> QED BY <3>3, <4>1, <4>2
    <3> QED BY <1>4, <3>1, <3>2, <3>3
  <2> HIDE DEF g
  <2>2. g = [i \in 0 .. k |-> g[i]] BY DEF g
  <2> QED BY <2>1, <2>2 DEF IsFed
<1> QED BY <1>6

\* What feed comes to is the last of the states between its rows.
LEMMA FedIs ==
  ASSUME NEW page, NEW n \in Nat
  PROVE  \E f : IsFed(f, page, n) /\ Fed(page, n) = f[n]
BY FedExists DEF IsFed, Fed

\* What is left of a stream after i rows.
Rest(s, i) == SubSeq(s, i + 1, Len(s))

\* The rows that are left.
LEMMA RestIs ==
  ASSUME NEW s \in Seq(Row), NEW i \in 0 .. Len(s)
  PROVE  /\ Rest(s, i) \in Seq(Row) /\ Len(Rest(s, i)) = Len(s) - i
         /\ \A k \in 1 .. Len(s) - i : Rest(s, i)[k] = s[i + k]
<1> DEFINE b == SubSeq(s, i + 1, Len(s))
           n == Len(s)
<1>1. n \in Nat /\ i \in Nat /\ i <= n /\ \A k \in 1 .. n : s[k] \in Row OBVIOUS
<1>2. i + 1 \in Int /\ Len(s) \in Int /\ \A k \in i + 1 .. Len(s) : s[k] \in Row BY <1>1
<1>3. /\ b \in Seq(Row) /\ Len(b) = (IF i + 1 <= Len(s) THEN Len(s) - (i + 1) + 1 ELSE 0)
      /\ \A k \in 1 .. Len(s) - (i + 1) + 1 : b[k] = s[(i + 1) + k - 1]
  BY <1>2, SubSeqProperties
<1> HIDE DEF b
<1>4. \A k \in 1 .. Len(s) - i : k \in 1 .. Len(s) - (i + 1) + 1 /\ (i + 1) + k - 1 = i + k
  BY <1>1
<1>5. Len(b) = (IF i + 1 <= n THEN n - (i + 1) + 1 ELSE 0) BY <1>3
<1> HIDE DEF n
<1>6. Len(b) = n - i BY <1>1, <1>5
<1> QED BY <1>3, <1>4, <1>6 DEF b, n, Rest

\* Before the first row all are left.
LEMMA RestFirst ==
  ASSUME NEW s \in Seq(Row)
  PROVE  Rest(s, 0) = s
<1> DEFINE r == Rest(s, 0)
<1>1. 0 \in 0 .. Len(s) /\ Len(s) - 0 = Len(s) /\ Len(s) \in Nat OBVIOUS
<1>2. r \in Seq(Row) /\ Len(r) = Len(s) /\ \A k \in 1 .. Len(s) : r[k] = s[0 + k]
  <2>1. r \in Seq(Row) /\ Len(r) = Len(s) - 0 /\ \A k \in 1 .. Len(s) - 0 : r[k] = s[0 + k]
    BY <1>1, RestIs
  <2> QED BY <1>1, <2>1
<1> HIDE DEF r
<1>3. \A k \in 1 .. Len(s) : r[k] = s[k] BY <1>1, <1>2
<1>4. r = s BY <1>2, <1>3, SeqEqual
<1> QED BY <1>4 DEF r

\* Every row takes the first of them away.
LEMMA RestNext ==
  ASSUME NEW s \in Seq(Row), NEW i \in 1 .. Len(s), NEW a, a = Rest(s, i - 1), NEW b,
         b = Rest(s, i)
  PROVE  NotEmpty(a) /\ b = Tail(a) /\ a[1] = s[i]
<1>1. Len(s) \in Nat /\ i - 1 \in 0 .. Len(s) /\ i \in 0 .. Len(s) /\ i \in Nat OBVIOUS
<1>2. /\ a \in Seq(Row) /\ Len(a) = Len(s) - (i - 1)
      /\ \A k \in 1 .. Len(s) - (i - 1) : a[k] = s[(i - 1) + k]
  BY <1>1, RestIs
<1>3. b \in Seq(Row) /\ Len(b) = Len(s) - i /\ \A k \in 1 .. Len(s) - i : b[k] = s[i + k]
  BY <1>1, RestIs
<1>4. Len(a) > 0 BY <1>1, <1>2
<1>5. NotEmpty(a) BY <1>2, <1>4 DEF NotEmpty
<1> DEFINE t == Tail(a)
<1>6. /\ t \in Seq(Row) /\ Len(t) = Len(a) - 1
      /\ \A k \in 1 .. Len(t) : t[k] = a[k + 1] /\ k + 1 \in 1 .. Len(a)
  BY <1>2, <1>4, TailFacts
<1> HIDE DEF t
<1>7. Len(t) = Len(b) BY <1>1, <1>2, <1>3, <1>6
<1>8. ASSUME NEW k \in 1 .. Len(b) PROVE t[k] = b[k]
  <2>1. k \in 1 .. Len(s) - i /\ k + 1 \in 1 .. Len(s) - (i - 1) /\ (i - 1) + (k + 1) = i + k
    BY <1>1, <1>3
  <2>2. a[k + 1] = s[i + k] BY <1>2, <2>1
  <2> QED BY <1>3, <1>6, <1>7, <2>1, <2>2
<1>9. b = t BY <1>3, <1>6, <1>7, <1>8, SeqEqual
<1>10. a[1] = s[i]
  <2>1. 1 \in 1 .. Len(s) - (i - 1) /\ (i - 1) + 1 = i BY <1>1
  <2> QED BY <1>2, <2>1
<1> QED BY <1>5, <1>9, <1>10 DEF t

\* A page of n rows, by induction on the rows fed.
LEMMA PageFed ==
  ASSUME NEW src, NEW P, NEW R, About(R), Confirmed(R), NEW s, s \in Seq(Row),
         FedTo(State, src, P, R, s),
         NEW n \in 1 .. Len(s), NEW page, \A i \in 1 .. n : page[i] = s[i]
  PROVE  FedTo(Fed(page, n), src, P, R, Rest(s, n))
<1>0. n \in Nat /\ Len(s) \in Nat /\ n <= Len(s) OBVIOUS
<1>1. PICK f : IsFed(f, page, n) /\ Fed(page, n) = f[n] BY <1>0, FedIs
<1> DEFINE Good(i) == FedTo(f[i], src, P, R, Rest(s, i))
           Bad == {i \in 0 .. n : ~Good(i)}
<1>2. f[0] = State /\ \A i \in 1 .. n : f[i] = FeedRow(f[i - 1], page[i]) BY <1>0, <1>1 DEF IsFed
<1>3. Good(0) BY <1>2, RestFirst
<1>4. ASSUME NEW i \in 1 .. n, Good(i - 1) PROVE Good(i)
  <2> DEFINE a == Rest(s, i - 1)
             b == Rest(s, i)
             st == f[i - 1]
             row == s[i]
  <2>1. i \in 1 .. Len(s) BY <1>0
  <2>2. NotEmpty(a) /\ b = Tail(a) /\ row = a[1] BY <2>1, RestNext
  <2>3. FedTo(st, src, P, R, a) BY <1>4
  <2>4. f[i] = FeedRow(st, row) BY <1>2
  <2> HIDE DEF a, st, row
  <2>5. FedTo(FeedRow(st, row), src, P, R, b)
    <3> HIDE DEF b
    <3> QED BY <2>2, <2>3, RowFed
  <2> QED BY <2>4, <2>5
<1>5. Bad = {}
  <2> SUFFICES ASSUME Bad # {} PROVE FALSE OBVIOUS
  <2>1. Bad \in SUBSET Nat BY <1>0
  <2> HIDE DEF Bad
  <2>2. PICK i \in Bad : \A k \in Bad : i <= k BY <2>1, Least
  <2>3. i \in 0 .. n /\ ~Good(i) BY DEF Bad
  <2>4. i # 0 BY <1>3, <2>3
  <2>5. i \in 1 .. n /\ i - 1 \in 0 .. n /\ ~(i <= i - 1) BY <1>0, <2>3, <2>4
  <2>6. Good(i - 1) BY <2>2, <2>5 DEF Bad
  <2> QED BY <1>4, <2>3, <2>5, <2>6
<1>6. n \in 0 .. n BY <1>0
<1>7. Good(n) BY <1>5, <1>6
<1> QED BY <1>1, <1>7

-----------------------------------------------------------------------------
(* The exporter.                                                           *)

\* The records in the pending groups.
Stored(p) == UNION {GroupRecs(p[i]) : i \in 1 .. Len(p)}

Combined ==
  /\ Now(sequences, pending, Stored(pending))
  /\ GroupsOk(pending) /\ OutFine(out)

\* The records of the pending groups are known records.
LEMMA StoredWithin ==
  ASSUME NEW p, NEW R, NEW s
  PROVE  Within(p, Gathered(Stored(p), s)) /\ (Within(p, R) => Stored(p) \subseteq R)
BY DEF Within, Stored, Gathered

\* What holds of the programs between steps.
LEMMA NowFacts ==
  ASSUME NEW q, NEW p, NEW R, Now(q, p, R)
  PROVE  /\ source \in Nat /\ made \in Nat /\ Turn(Machine, 0) /\ stream \in Seq(Row)
         /\ Live(source, q, p, R, Machine, stream, wire)
         /\ Log(source, q, p, prog, stream) /\ Traced(source, Gathered(R, stream), Machine, wire)
         /\ About(Gathered(R, stream)) /\ Confirmed(Gathered(R, stream))
<1>1. Machine.prog = prog BY DEF Machine
<1> QED BY <1>1 DEF Now, Producing, Live, Traced

\* Fewer records are known after a page; what was said of all holds for them.
LEMMA LiveRead ==
  ASSUME NEW src, NEW q, NEW p, NEW R, NEW m, NEW l, NEW W, Live(src, q, p, R, m, l, W),
         NEW R2, R2 \subseteq Gathered(R, l), NEW q2, NEW p2, NEW l2, l2 \in Seq(Row),
         Log(src, q2, p2, m.prog, l2),
         Recs(l2) \subseteq Gathered(R, l)
  PROVE  Live(src, q2, p2, R2, m, l2, W)
<1> DEFINE G == Gathered(R, l)
           H == Gathered(R2, l2)
<1>1. H \in SUBSET G BY DEF Gathered
<1>2. Traced(src, G, m, W) BY DEF Live
<1> HIDE DEF G, H
<1>3. Traced(src, H, m, W) BY <1>1, <1>2, TracedLess
<1> QED BY <1>3 DEF Live, H

\* What feed begins with.
LEMMA StateIs == State = St(pending, sequences, {})
BY DEF State, St

\* Initially nothing is bound to an exchange, written or pending.
LEMMA CombinedInit == Init => Combined
<1> SUFFICES ASSUME Init PROVE Combined OBVIOUS
<1>1. /\ wire = [c \in Conns |-> << >>] /\ made = 0 /\ entry = [c \in Conns |-> NoEntry]
      /\ others \in 0 .. AdmitMax - 1 /\ count = others /\ prog = Pair(1) /\ source = 1 /\ stream = << >>
      /\ pending = << >> /\ sequences = << >> /\ out = {}
  BY DEF Init, GroupInit
<1>2. count \in Nat BY <1>1, GroupAssumption
<1>3. 1 \in Pos BY DEF Pos
<1>4. /\ prog \in [Programs -> Bind] /\ prog["json"].inst = 1 /\ prog["http"].inst = 1 + 1 /\ prog["json"].calls = 0
  BY <1>1, <1>3, PairIs
<1> DEFINE m == Machine
<1>5. m = [entry |-> entry, count |-> count, prog |-> prog, rows |-> << >>] /\ m.entry = entry /\ m.count = count /\ m.prog = prog
  BY DEF Machine
<1> HIDE DEF m
<1>6. MapOk(m) /\ entry \in [Conns -> Entry] BY <1>1, <1>2, <1>5, NoEntries
<1>7. m \in Machines
  <2>1. << >> \in Seq(Row) OBVIOUS
  <2> QED BY <1>2, <1>4, <1>5, <1>6, <2>1 DEF Machines
<1>8. \A i \in 1 .. Len(<< >>) : FALSE OBVIOUS
<1>9. Recs(stream) = {} /\ Stored(pending) = {} /\ Gathered(Stored(pending), stream) = {}
  BY <1>1, <1>8 DEF Recs, Stored, Gathered
<1>10. Traced(source, {}, m, wire)
  <2>1. \A c \in Conns : m.entry[c] = NoEntry BY <1>1, <1>5
  <2>2. \A c \in Conns : Apart1(m, c) /\ Tracked(source, {}, m, wire, c)
    BY <2>1 DEF Apart1, Tracked
  <2> QED BY <2>2 DEF Traced, Numbered, About, Confirmed
<1>11. Log(source, sequences, pending, m.prog, stream)
  <2>1. << >> \in Seq(Row) /\ Len(<< >>) = 0 OBVIOUS
  <2>2. RowsOk(source, m.prog, stream) /\ RowsOrdered(stream) /\ RowsLinked(stream) /\ NumbersBehind(sequences, stream)
    BY <1>1, <1>8, <2>1 DEF RowsOk, RowsOrdered, RowsLinked, NumbersBehind
  <2>3. NumbersOk(source, m.prog, sequences) BY <1>1, NoDomain DEF NumbersOk
  <2>4. HeadLinked(pending, stream) BY <1>1, <1>8 DEF HeadLinked
  <2> QED BY <2>2, <2>3, <2>4 DEF Log
<1>12. wire \in Wires BY <1>1 DEF Wires
<1>13. stream \in Seq(Row) BY <1>1
<1>14. Turn(m, 0)
  <2>1. 0 \in Nat /\ 0 = 4 * 0 + 0 OBVIOUS
  <2> QED BY <1>4, <1>5, <2>1 DEF Turn
<1>15. Live(source, sequences, pending, Stored(pending), m, stream, wire)
  BY <1>4, <1>5, <1>6, <1>7, <1>9, <1>10, <1>11, <1>12, <1>13 DEF Live
<1>16. source \in Nat /\ made \in Nat BY <1>1
<1>17. GroupsOk(pending) BY <1>1, NoGroups
<1>18. OutFine(out) BY <1>1 DEF OutFine
<1> QED BY <1>14, <1>15, <1>16, <1>17, <1>18 DEF Combined, Now, Producing, m

\* A step of the programs.
LEMMA CombinedGroup ==
  ASSUME Combined, GroupNext, UNCHANGED <<pending, sequences>>, out' = {}
  PROVE  Combined'
<1> DEFINE R == Stored(pending)
<1>1. Now(sequences, pending, R) BY DEF Combined
<1>2. Does(sequences, pending, R) BY <1>1, GroupNextDoes
<1>3. sequences' = sequences /\ pending' = pending /\ Stored(pending)' = R OBVIOUS
<1>4. Now(sequences, pending, Stored(pending))' BY <1>2, <1>3 DEF Now, Does
<1>5. GroupsOk(pending)' BY <1>3 DEF Combined
<1>6. OutFine(out)' BY DEF OutFine
<1> QED BY <1>4, <1>5, <1>6 DEF Combined

\* The exporter reads, and the programs stand still.
LEMMA CombinedRead ==
  ASSUME Combined, UNCHANGED <<wire, made, entry, count, prog, source>>,
         NEW p2, NEW q2, NEW o2, NEW l2, l2 \in Seq(Row), pending' = p2, sequences' = q2,
         out' = o2, stream' = l2,
         FeedInv(source, prog, Gathered(Stored(pending), stream), p2, q2, o2, l2)
  PROVE  Combined'
<1> DEFINE R == Stored(pending)
           G == Gathered(R, stream)
           R2 == Stored(p2)
           m == Machine
<1>1. Now(sequences, pending, R) BY DEF Combined
<1>2. source \in Nat /\ made \in Nat /\ Turn(m, 0) /\ Live(source, sequences, pending, R, m, stream, wire)
  BY <1>1, NowFacts
<1>3. m.prog = prog /\ Machine' = m BY DEF Machine
<1>4. GroupsOk(p2) /\ Within(p2, G) /\ Recs(l2) \subseteq G /\ OutFine(o2) /\ Log(source, q2, p2, m.prog, l2)
  BY <1>3 DEF FeedInv
<1>5. R2 \subseteq G BY <1>4, StoredWithin
<1> HIDE DEF R2, m, R
<1>6. Live(source, q2, p2, R2, m, l2, wire) BY <1>2, <1>4, <1>5, LiveRead
<1>7. Producing(source, made, q2, p2, R2, m, l2, wire) BY <1>2, <1>6 DEF Producing
<1>8. Now(sequences, pending, Stored(pending))' BY <1>3, <1>7 DEF Now, R2
<1>9. GroupsOk(pending)' /\ OutFine(out)' BY <1>4
<1> QED BY <1>8, <1>9 DEF Combined

\* Feed.
LEMMA CombinedFeed ==
  ASSUME Combined, NEW n \in 1 .. Len(stream), Feed(n)
  PROVE  Combined'
<1> DEFINE R == Stored(pending)
           G == Gathered(R, stream)
           page == SubSeq(stream, 1, n)
           st == Fed(page, n)
           l2 == Rest(stream, n)
<1>1. Now(sequences, pending, R) /\ GroupsOk(pending) BY DEF Combined
<1>2. /\ stream \in Seq(Row) /\ Log(source, sequences, pending, prog, stream) /\ About(G) /\ Confirmed(G)
  BY <1>1, NowFacts
<1>3. FeedInv(source, prog, G, pending, sequences, {}, stream)
  <2>1. Within(pending, G) BY StoredWithin
  <2>2. Recs(stream) \subseteq G BY DEF Gathered
  <2>3. OutFine({}) BY DEF OutFine
  <2> QED BY <1>1, <1>2, <2>1, <2>2, <2>3 DEF FeedInv
<1>4. FedTo(State, source, prog, G, stream) BY <1>3, StateIs DEF FedTo
<1>5. \A i \in 1 .. n : page[i] = stream[i]
  <2>1. 1 \in Int /\ n \in Int /\ \A k \in 1 .. n : stream[k] \in Row BY <1>2
  <2>2. \A k \in 1 .. n - 1 + 1 : page[k] = stream[1 + k - 1] BY <2>1, SubSeqProperties
  <2> HIDE DEF page
  <2>3. \A i \in 1 .. n : i \in 1 .. n - 1 + 1 /\ 1 + i - 1 = i BY <2>1
  <2> QED BY <2>2, <2>3
<1>6. /\ stream' = l2 /\ pending' = st.pending /\ sequences' = st.sequences /\ out' = st.out
      /\ UNCHANGED <<wire, made, entry, count, prog, source>>
  BY DEF Feed, Rest
<1>7. l2 \in Seq(Row) BY <1>2, RestIs
<1> HIDE DEF G, page
<1>8. FedTo(st, source, prog, G, l2) BY <1>2, <1>4, <1>5, PageFed
<1> HIDE DEF st
<1>9. PICK p2, q2, o2 : st = St(p2, q2, o2) /\ FeedInv(source, prog, G, p2, q2, o2, l2)
  BY <1>8 DEF FedTo
<1>10. pending' = p2 /\ sequences' = q2 /\ out' = o2 BY <1>6, <1>9, StFields
<1> HIDE DEF l2
<1>11. FeedInv(source, prog, Gathered(Stored(pending), stream), p2, q2, o2, l2) BY <1>9 DEF G
<1> QED BY <1>6, <1>7, <1>10, <1>11, CombinedRead

\* RestartExporter.
LEMMA CombinedRestart ==
  ASSUME Combined, RestartExporter
  PROVE  Combined'
<1> DEFINE R == Stored(pending)
           G == Gathered(R, stream)
           o2 == Flushed({}, pending, "end_of_input")
           p2 == << >>
           q2 == << >>
<1>1. Now(sequences, pending, R) BY DEF Combined
<1>2. stream \in Seq(Row) /\ Log(source, sequences, pending, prog, stream) BY <1>1, NowFacts
<1>3. /\ stream' = stream /\ pending' = p2 /\ sequences' = q2 /\ out' = Flush(State, "end_of_input").out
      /\ UNCHANGED <<wire, made, entry, count, prog, source>>
  BY DEF RestartExporter
<1>4. out' = o2
  <2>1. Flush(State, "end_of_input") = Emptied(o2) BY StateIs, FlushIs
  <2> QED BY <1>3, <2>1, StFields DEF Emptied
<1>5. OutFine(o2)
  <2>1. OutFine({}) BY DEF OutFine
  <2> QED BY <2>1, FineFlushed
<1>6. GroupsOk(p2) /\ Within(p2, G) BY NoGroups
<1>7. Recs(stream) \subseteq G BY DEF Gathered
<1>8. Log(source, q2, p2, prog, stream)
  <2>1. NumbersOk(source, prog, q2) /\ NumbersBehind(q2, stream)
    BY NoDomain DEF NumbersOk, NumbersBehind
  <2>2. \A i \in 1 .. Len(p2) : FALSE OBVIOUS
  <2>3. HeadLinked(p2, stream) BY <2>2 DEF HeadLinked
  <2> QED BY <1>2, <2>1, <2>3 DEF Log
<1> HIDE DEF o2, p2, q2
<1>9. FeedInv(source, prog, Gathered(Stored(pending), stream), p2, q2, o2, stream)
  BY <1>5, <1>6, <1>7, <1>8 DEF FeedInv
<1> QED BY <1>2, <1>3, <1>4, <1>9, CombinedRead

\* Stuttering.
LEMMA CombinedSame ==
  ASSUME Combined, UNCHANGED vars
  PROVE  Combined'
<1>1. /\ wire' = wire /\ made' = made /\ entry' = entry /\ count' = count /\ prog' = prog /\ source' = source
      /\ stream' = stream /\ pending' = pending /\ sequences' = sequences /\ out' = out
  BY DEF vars, groupVars, combineVars
<1>2. Machine' = Machine BY <1>1 DEF Machine
<1> QED BY <1>1, <1>2 DEF Combined, Now

\* The invariant holds in every state: what the programs have bound to an exchange,
\* the rows in the stream, the numbers and the groups of the exporter fit together.
THEOREM CombinedInvariant == Spec => []Combined
<1>1. Init => Combined BY CombinedInit
<1>2. Combined /\ [Next]_vars => Combined'
  <2> SUFFICES ASSUME Combined, [Next]_vars PROVE Combined' OBVIOUS
  <2>1. CASE GroupNext /\ UNCHANGED <<pending, sequences>> /\ ended' = {} /\ out' = {}
    BY <2>1, CombinedGroup
  <2>2. CASE \E n \in 1 .. Len(stream) : Feed(n) BY <2>2, CombinedFeed
  <2>3. CASE RestartExporter BY <2>3, CombinedRestart
  <2>4. CASE UNCHANGED vars BY <2>4, CombinedSame
  <2> QED BY <2>1, <2>2, <2>3, <2>4 DEF Next
<1> QED BY <1>1, <1>2, PTL DEF Spec

\* The exporter refuses no row of the programs (unwrap, validate_frame and the check of
\* sequence numbers in feed), whatever is lost, reloaded, restarted or read in pages.
THEOREM EveryFrameAccepted == Spec => []FramesAccepted
<1>1. Combined => FramesAccepted BY DEF Combined, OutFine, Fine, Refused, FramesAccepted
<1> QED BY <1>1, CombinedInvariant, PTL

\* What the exporter reports as an observed exchange is one client message, its request
\* headers, one server message and the end, all of one request (finish in activity_combine.py).
THEOREM ExchangesAreOne == Spec => []OneExchange
<1>1. Combined => OneExchange BY DEF Combined, OutFine, Fine, OneExchange
<1> QED BY <1>1, CombinedInvariant, PTL
=============================================================================
