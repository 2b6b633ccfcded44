--------------------------- MODULE Workspace_proofs ---------------------------
(***************************************************************************)
(* Workspace.tla for any number of workers, drafts and files: what a       *)
(* workspace may exceed its plan by, how many drafts there may be, what is *)
(* in them, and that a draft is what DraftStore.tla says of it.            *)
(***************************************************************************)
EXTENDS Workspace, FiniteSetTheorems, SequenceTheorems, TLAPS

----------------------------------------------------------------------------
(* Sums                                                                    *)

BytesOf(x, n) == {x} \X (1..n)
AllBytes(f) == UNION {BytesOf(x, f[x]) : x \in DOMAIN f}

(* One summand has as many bytes as its value says.                        *)
LEMMA BytesOfOne ==
  ASSUME NEW x, NEW n \in Nat
  PROVE  IsFiniteSet(BytesOf(x, n)) /\ Cardinality(BytesOf(x, n)) = n
<1>1. IsFiniteSet(1..n) /\ Cardinality(1..n) = n
  <2>1. /\ IsFiniteSet(1..n)
        /\ Cardinality(1..n) = IF 1 > n THEN 0 ELSE n - 1 + 1
    BY FS_Interval
  <2>2. QED
    BY <2>1
<1>2. IsFiniteSet({x}) /\ Cardinality({x}) = 1
  BY FS_Singleton
<1>3. /\ IsFiniteSet(BytesOf(x, n))
      /\ Cardinality(BytesOf(x, n)) = Cardinality({x}) * Cardinality(1..n)
  BY <1>1, <1>2, FS_Product DEF BytesOf
<1>4. QED
  BY <1>1, <1>2, <1>3

(* A sum over a finite set is a number.                                    *)
LEMMA TotalType ==
  ASSUME NEW S, IsFiniteSet(S), NEW f \in [S -> Nat]
  PROVE  /\ IsFiniteSet(AllBytes(f))
         /\ Total(f) = Cardinality(AllBytes(f)) /\ Total(f) \in Nat
<1> DEFINE g == [x \in S |-> BytesOf(x, f[x])]
           T == {BytesOf(x, f[x]) : x \in S}
<1>1. g \in Surjection(S, T)
  BY DEF Surjection
<1>2. IsFiniteSet(T)
  BY <1>1, FS_Surjection
<1>3. \A U \in T : IsFiniteSet(U)
  BY BytesOfOne
<1>4. AllBytes(f) = UNION T
  BY DEF AllBytes
<1>5. IsFiniteSet(AllBytes(f))
  BY <1>2, <1>3, <1>4, FS_UNION
<1>6. Total(f) = Cardinality(AllBytes(f))
  BY DEF Total, AllBytes, BytesOf
<1>7. QED
  BY <1>5, <1>6, FS_CardinalityType

(* Changing one summand changes the sum by the difference.                 *)
LEMMA TotalExcept ==
  ASSUME NEW S, IsFiniteSet(S), NEW f \in [S -> Nat], NEW x \in S, NEW n \in Nat
  PROVE  Total([f EXCEPT ![x] = n]) = Total(f) - f[x] + n
<1> DEFINE g == [f EXCEPT ![x] = n]
           Rest == UNION {BytesOf(y, f[y]) : y \in S \ {x}}
<1>1. g \in [S -> Nat]
  OBVIOUS
<1>2. ASSUME NEW h \in [S -> Nat], \A y \in S \ {x} : h[y] = f[y]
      PROVE  Total(h) = Cardinality(Rest) + h[x] /\ Cardinality(Rest) \in Nat
  <2>1. AllBytes(h) = Rest \cup BytesOf(x, h[x])
    <3>1. AllBytes(h) = UNION {BytesOf(y, h[y]) : y \in S}
      BY DEF AllBytes
    <3>2. \A y \in S \ {x} : BytesOf(y, h[y]) = BytesOf(y, f[y])
      BY <1>2
    <3>3. Rest = UNION {BytesOf(y, h[y]) : y \in S \ {x}}
      BY <3>2
    <3>4. QED
      BY <3>1, <3>3
  <2>2. Rest \cap BytesOf(x, h[x]) = {}
    BY DEF BytesOf
  <2>3. IsFiniteSet(AllBytes(h))
    BY TotalType
  <2>4. IsFiniteSet(Rest)
    BY <2>1, <2>3, FS_Subset
  <2>5. IsFiniteSet(BytesOf(x, h[x])) /\ Cardinality(BytesOf(x, h[x])) = h[x]
    BY BytesOfOne
  <2>6. Cardinality(Rest \cup BytesOf(x, h[x]))
          = Cardinality(Rest) + Cardinality(BytesOf(x, h[x])) - Cardinality({})
    BY <2>2, <2>4, <2>5, FS_Union
  <2>7. Cardinality({}) = 0 /\ Cardinality(Rest) \in Nat
    BY <2>4, FS_EmptySet, FS_CardinalityType
  <2>8. Total(h) = Cardinality(AllBytes(h))
    BY TotalType
  <2>9. QED
    BY <2>1, <2>5, <2>6, <2>7, <2>8
<1>3. Total(f) = Cardinality(Rest) + f[x] /\ Cardinality(Rest) \in Nat
  BY <1>2
<1>4. Total(g) = Cardinality(Rest) + g[x]
  BY <1>1, <1>2
<1>5. g[x] = n /\ f[x] \in Nat
  OBVIOUS
<1>6. QED
  BY <1>3, <1>4, <1>5

(* Summands of at most m each.                                             *)
LEMMA TotalAtMost ==
  ASSUME NEW S, IsFiniteSet(S), NEW f \in [S -> Nat], NEW m \in Nat,
         \A x \in S : f[x] <= m
  PROVE  Total(f) <= Cardinality(S) * m /\ Cardinality(S) \in Nat
<1>1. IsFiniteSet(1..m) /\ Cardinality(1..m) = m
  <2>1. /\ IsFiniteSet(1..m)
        /\ Cardinality(1..m) = IF 1 > m THEN 0 ELSE m - 1 + 1
    BY FS_Interval
  <2>2. QED
    BY <2>1
<1>2. IsFiniteSet(S \X (1..m)) /\ Cardinality(S \X (1..m)) = Cardinality(S) * m
  BY <1>1, FS_Product
<1>3. AllBytes(f) \subseteq S \X (1..m)
  BY DEF AllBytes, BytesOf
<1>4. Cardinality(AllBytes(f)) <= Cardinality(S \X (1..m))
  BY <1>2, <1>3, FS_Subset
<1>5. QED
  BY <1>2, <1>4, TotalType, FS_CardinalityType

(* A sum over some of the summands is no more than the whole.              *)
LEMMA TotalOfPart ==
  ASSUME NEW S, IsFiniteSet(S), NEW f \in [S -> Nat], NEW T \in SUBSET S
  PROVE  Total([x \in T |-> f[x]]) <= Total(f)
<1> DEFINE g == [x \in T |-> f[x]]
<1>1. IsFiniteSet(T) /\ g \in [T -> Nat]
  BY FS_Subset
<1>2. AllBytes(g) \subseteq AllBytes(f)
  BY DEF AllBytes
<1>3. QED
  BY <1>1, <1>2, TotalType, FS_Subset

(* Only those in T count, with at most m each.                             *)
LEMMA TotalOfSome ==
  ASSUME NEW S, IsFiniteSet(S), NEW f \in [S -> Nat], NEW m \in Nat,
         NEW T \in SUBSET S, \A x \in T : f[x] <= m, \A x \in S \ T : f[x] = 0
  PROVE  Total(f) <= Cardinality(T) * m
<1> DEFINE g == [x \in T |-> f[x]]
<1>1. IsFiniteSet(T) /\ g \in [T -> Nat]
  BY FS_Subset
<1>2. Total(g) <= Cardinality(T) * m
  BY <1>1, TotalAtMost
<1>3. AllBytes(f) = AllBytes(g)
  <2>1. \A x \in S \ T : BytesOf(x, f[x]) = {}
    BY DEF BytesOf
  <2>2. \A x \in T : BytesOf(x, f[x]) = BytesOf(x, g[x])
    OBVIOUS
  <2>3. QED
    BY <2>1, <2>2 DEF AllBytes
<1>4. QED
  BY <1>1, <1>2, <1>3, TotalType

----------------------------------------------------------------------------
(* Types and shapes                                                        *)

(* Types, and what the place of a call says of it.                         *)
TypeInv == TypeOK /\ ShapeInv

(* Every file, and what is known of each draft, is of its kind.            *)
FilesOK ==
  /\ draft \in [Draft -> Contents \cup {Nothing}] /\ page \in [Page -> Nat]
  /\ leftover \in [Worker -> Nat]
  /\ sent \in [Draft -> Nat] /\ acked \in [Draft -> SUBSET Nat]
  /\ old \subseteq Draft /\ gone \subseteq Draft

(* TypeInv, the measures left out.                                         *)
Sound ==
  /\ FilesOK /\ ShapeInv
  /\ call \in [Worker -> Calls] /\ calls \in 0..MaxCalls
  /\ disturbed \subseteq Draft /\ slipped \in BOOLEAN

(* What a step may do to the history.                                      *)
Recorded ==
  /\ disturbed' \subseteq Draft
  /\ slipped' \in BOOLEAN /\ (slipped => slipped')

(* A step after which every draft that had a file has one.                 *)
NoneUnlinked == \A d \in Draft : draft[d] # Nothing => draft'[d] # Nothing

(* Nobody's call.                                                          *)
LEMMA RestingIsCall ==
  /\ Resting \in Calls
  /\ Resting.do = "nothing" /\ Resting.at = "rest" /\ Resting.on = Nothing
  /\ Resting.todo = {} /\ Resting.archive = 0 /\ Resting.to = Nothing
BY DEF Resting, Calls, Doings, Places

(* A call of w begins or goes on: w has the new record, the others theirs. *)
LEMMA CallMoves ==
  ASSUME TypeInv, NEW w \in Worker, NEW c, Begin(w, c) \/ Continue(w, c)
  PROVE  /\ call' = [call EXCEPT ![w] = c] /\ call'[w] = c
         /\ calls' \in 0..MaxCalls
<1>1. call \in [Worker -> Calls] /\ calls \in 0..MaxCalls /\ MaxCalls \in Nat
  BY WorkspaceAssumption DEF TypeInv, TypeOK
<1>2. call' = [call EXCEPT ![w] = c] /\ call'[w] = c
  BY <1>1 DEF Begin, Continue
<1>3. calls' \in 0..MaxCalls
  BY <1>1 DEF Begin, Continue
<1>4. QED
  BY <1>2, <1>3

(* The new record has its shape, no draft loses its file: types and shapes *)
(* are kept.                                                               *)
LEMMA ShapeOfOne ==
  ASSUME TypeInv, NEW w \in Worker, NEW c \in Calls, call' = [call EXCEPT ![w] = c],
         calls' \in 0..MaxCalls, Recorded,
         FilesOK', NoneUnlinked,
         Shape(w)'
  PROVE  Sound'
<1>1. call' \in [Worker -> Calls] /\ \A v \in Worker \ {w} : call'[v] = call[v]
  BY DEF TypeInv, TypeOK
<1>2. ASSUME NEW v \in Worker \ {w} PROVE Shape(v)'
  BY <1>1 DEF TypeInv, ShapeInv, Shape, TypeOK, NoneUnlinked, Recorded
<1>3. QED
  BY <1>1, <1>2 DEF Sound, ShapeInv, Recorded

(* The same when the call of w ends.                                       *)
LEMMA TypeOfReturn ==
  ASSUME TypeInv, NEW w \in Worker, call' = [call EXCEPT ![w] = Resting],
         calls' \in 0..MaxCalls, Recorded, FilesOK', NoneUnlinked
  PROVE  Sound'
<1>1. call'[w] = Resting
  BY DEF TypeInv, TypeOK
<1>2. Shape(w)'
  BY <1>1, RestingIsCall DEF Shape
<1>3. QED
  BY <1>2, RestingIsCall, ShapeOfOne

(* Every step that unlinks nothing keeps types and shapes.                 *)
LEMMA TypeOfCalls ==
  ASSUME TypeInv, NEW w \in Worker, Recorded,
         \/ \E do \in {"new", "list"} : Arrive(w, do)
         \/ \E d \in Draft : ExpireReads(w, d)
         \/ \E d \in Draft : Count(w, d)
         \/ Listed(w)
         \/ \E d \in Draft : AddLoads(w, d)
         \/ OpenDraft(w)
         \/ WriteDraft(w)
         \/ \E d \in Draft, p \in Page : PublishLoads(w, d, p)
         \/ \E d \in Draft : AskDiscard(w, d)
         \/ \E p \in Page, n \in 1..MaxUpload : Paste(w, p, n)
         \/ \E n \in 1..MaxUpload : Upload(w, n)
         \/ Check(w)
         \/ StoreArchive(w)
         \/ \E p \in Page, n \in Nat : ExtractMember(w, p, n)
         \/ ExtractEnds(w)
         \/ PutPage(w)
         \/ Fill(w)
         \/ Crash(w)
  PROVE  Sound'
<1>1. call[w] \in Calls /\ Shape(w) /\ w \in DOMAIN call
  BY DEF TypeInv, TypeOK, ShapeInv
<1>2. /\ draft \in [Draft -> Contents \cup {Nothing}] /\ page \in [Page -> Nat]
      /\ leftover \in [Worker -> Nat]
      /\ sent \in [Draft -> Nat] /\ acked \in [Draft -> SUBSET Nat]
      /\ old \subseteq Draft /\ gone \subseteq Draft
  BY DEF TypeInv, TypeOK
<1>3. MaxUpload \in Nat /\ Nothing \notin Draft /\ Nothing \notin Page /\ Nothing \notin Contents
  BY WorkspaceAssumption, NothingAssumption DEF Contents
<1>4. ASSUME NEW do \in {"new", "list"}, Arrive(w, do) PROVE Sound'
  <2>1. FilesOK' /\ NoneUnlinked
    BY <1>1, <1>2, <1>3, <1>4 DEF FilesOK, NoneUnlinked, Arrive, drafts, Existing
  <2> DEFINE c == [Resting EXCEPT !.do = do, !.at = "expire", !.todo = Existing]
  <2>2. c \in Calls
    BY <1>1, <1>2, <1>3, <1>4, RestingIsCall DEF Calls, Doings, Places, Existing
  <2>3. /\ c.do = do /\ c.at = "expire" /\ c.on = Resting.on
        /\ c.text = Resting.text /\ c.todo = Existing
        /\ c.to = Resting.to /\ c.size = Resting.size
        /\ c.archive = Resting.archive /\ c.left = Resting.left
        /\ c.fd = Resting.fd
    BY <1>1, RestingIsCall DEF Calls
  <2>4. Begin(w, c) \/ Continue(w, c)
    BY <1>1, <1>4 DEF Arrive, Existing, Return, Shape
  <2>5. call' = [call EXCEPT ![w] = c] /\ call'[w] = c /\ calls' \in 0..MaxCalls
    BY <2>4, CallMoves
  <2> HIDE DEF c
  <2>6. Shape(w)'
    BY <1>1, <1>2, <1>3, <1>4, <2>1, <2>3, <2>5, RestingIsCall DEF Arrive, Existing, Shape
  <2>7. QED
    BY <2>1, <2>2, <2>5, <2>6, ShapeOfOne
<1>5. ASSUME NEW d \in Draft, ExpireReads(w, d) PROVE Sound'
  <2>1. FilesOK' /\ NoneUnlinked
    BY <1>1, <1>2, <1>3, <1>5 DEF FilesOK, NoneUnlinked, ExpireReads, drafts
  <2>2. CASE ~Whole(draft[d]) \/ d \in old
    <3> DEFINE c == [call[w] EXCEPT !.todo = @ \ {d}, !.on = d, !.at = "unlink"]
    <3>1. c \in Calls
      BY <1>1, <1>2, <1>3, <1>5, <2>2, RestingIsCall DEF Calls, Doings, Places
    <3>2. /\ c.do = call[w].do /\ c.at = "unlink" /\ c.on = d
          /\ c.text = call[w].text /\ c.todo = call[w].todo \ {d}
          /\ c.to = call[w].to /\ c.size = call[w].size
          /\ c.archive = call[w].archive /\ c.left = call[w].left
          /\ c.fd = call[w].fd
      BY <1>1, RestingIsCall DEF Calls
    <3>3. Begin(w, c) \/ Continue(w, c)
      BY <1>1, <1>5, <2>2 DEF ExpireReads, Return, Shape
    <3>4. call' = [call EXCEPT ![w] = c] /\ call'[w] = c /\ calls' \in 0..MaxCalls
      BY <3>3, CallMoves
    <3> HIDE DEF c
    <3>5. Shape(w)'
      BY <1>1, <1>2, <1>3, <1>5, <2>2, <2>1, <3>2, <3>4, RestingIsCall DEF ExpireReads, Shape
    <3>6. QED
      BY <2>1, <3>1, <3>4, <3>5, ShapeOfOne
  <2>3. CASE ~(~Whole(draft[d]) \/ d \in old)
    <3> DEFINE c == [call[w] EXCEPT !.todo = @ \ {d}, !.on = Nothing, !.at = "expire"]
    <3>1. c \in Calls
      BY <1>1, <1>2, <1>3, <1>5, <2>3, RestingIsCall DEF Calls, Doings, Places
    <3>2. /\ c.do = call[w].do /\ c.at = "expire" /\ c.on = Nothing
          /\ c.text = call[w].text /\ c.todo = call[w].todo \ {d}
          /\ c.to = call[w].to /\ c.size = call[w].size
          /\ c.archive = call[w].archive /\ c.left = call[w].left
          /\ c.fd = call[w].fd
      BY <1>1, RestingIsCall DEF Calls
    <3>3. Begin(w, c) \/ Continue(w, c)
      BY <1>1, <1>5, <2>3 DEF ExpireReads, Return, Shape
    <3>4. call' = [call EXCEPT ![w] = c] /\ call'[w] = c /\ calls' \in 0..MaxCalls
      BY <3>3, CallMoves
    <3> HIDE DEF c
    <3>5. Shape(w)'
      BY <1>1, <1>2, <1>3, <1>5, <2>3, <2>1, <3>2, <3>4, RestingIsCall DEF ExpireReads, Shape
    <3>6. QED
      BY <2>1, <3>1, <3>4, <3>5, ShapeOfOne
  <2>4. QED
    BY <2>2, <2>3
<1>6. ASSUME NEW d \in Draft, Count(w, d) PROVE Sound'
  <2>0. /\ sent' = sent \/ sent' = [sent EXCEPT ![d] = 1]
        /\ sent' \in [Draft -> Nat]
        /\ <<1>> \in Seq(Nat)
        /\ <<1>> # <<>>
    <3>1. sent' = sent \/ sent' = [sent EXCEPT ![d] = 1]
      BY <1>6 DEF Count
    <3>2. sent' \in [Draft -> Nat]
      BY <1>2, <3>1
    <3>3. <<1>> \in Seq(Nat)
      OBVIOUS
    <3>4. <<1>> # <<>>
      OBVIOUS
    <3>5. QED
      BY <3>1, <3>2, <3>3, <3>4
  <2>1. FilesOK' /\ NoneUnlinked
    BY <1>1, <1>2, <1>3, <1>6, <2>0 DEF FilesOK, NoneUnlinked, Count, drafts
  <2>2. CASE Cardinality(Existing) >= MaxDrafts \/ NoIds
    <3>1. Continue(w, Resting)
      BY <1>6, <2>0, <2>2 DEF Count, Return
    <3>2. call' = [call EXCEPT ![w] = Resting] /\ calls' \in 0..MaxCalls
      BY <3>1, CallMoves
    <3>3. QED
      BY <2>1, <3>2, TypeOfReturn
  <2>3. CASE ~(Cardinality(Existing) >= MaxDrafts \/ NoIds)
    <3> DEFINE c == [call[w] EXCEPT !.at = "open", !.on = d, !.text = <<1>>]
    <3>1. c \in Calls
      BY <1>1, <1>2, <1>3, <1>6, <2>0, <2>3, RestingIsCall DEF Calls, Doings, Places, Count
    <3>2. /\ c.do = call[w].do /\ c.at = "open" /\ c.on = d
          /\ c.text = <<1>> /\ c.todo = call[w].todo /\ c.to = call[w].to
          /\ c.size = call[w].size /\ c.archive = call[w].archive
          /\ c.left = call[w].left /\ c.fd = call[w].fd
      BY <1>1, RestingIsCall DEF Calls
    <3>3. Begin(w, c) \/ Continue(w, c)
      BY <1>1, <1>6, <2>0, <2>3 DEF Count, Return, Shape
    <3>4. call' = [call EXCEPT ![w] = c] /\ call'[w] = c /\ calls' \in 0..MaxCalls
      BY <3>3, CallMoves
    <3> HIDE DEF c
    <3>5. Shape(w)'
      BY <1>1, <1>2, <1>3, <1>6, <2>0, <2>3, <2>1, <3>2, <3>4, RestingIsCall DEF Count, Shape
    <3>6. QED
      BY <2>1, <3>1, <3>4, <3>5, ShapeOfOne
  <2>4. QED
    BY <2>2, <2>3
<1>7. ASSUME Listed(w) PROVE Sound'
  <2>1. FilesOK' /\ NoneUnlinked
    BY <1>1, <1>2, <1>3, <1>7 DEF FilesOK, NoneUnlinked, Listed, drafts
  <2>2. Continue(w, Resting)
    BY <1>7 DEF Listed, Return
  <2>3. call' = [call EXCEPT ![w] = Resting] /\ calls' \in 0..MaxCalls
    BY <2>2, CallMoves
  <2>4. QED
    BY <2>1, <2>3, TypeOfReturn
<1>8. ASSUME NEW d \in Draft, AddLoads(w, d) PROVE Sound'
  <2>0. /\ draft[d].text \in Seq(Nat)
        /\ sent[d] + 1 \in Nat
        /\ Append(draft[d].text, sent[d] + 1) \in Seq(Nat)
        /\ Append(draft[d].text, sent[d] + 1) # <<>>
        /\ sent' = [sent EXCEPT ![d] = sent[d] + 1]
        /\ sent' \in [Draft -> Nat]
    <3>1. draft[d].text \in Seq(Nat)
      BY <1>2, <1>8 DEF AddLoads, Whole, Contents
    <3>2. sent[d] + 1 \in Nat
      BY <1>2
    <3>3. Append(draft[d].text, sent[d] + 1) \in Seq(Nat)
      BY <3>1, <3>2
    <3>4. Append(draft[d].text, sent[d] + 1) # <<>>
      BY <3>1, <3>2
    <3>5. sent' = [sent EXCEPT ![d] = sent[d] + 1]
      BY <1>8 DEF AddLoads
    <3>6. sent' \in [Draft -> Nat]
      BY <1>2, <3>2, <3>5
    <3>7. QED
      BY <3>1, <3>2, <3>3, <3>4, <3>5, <3>6
  <2>1. FilesOK' /\ NoneUnlinked
    BY <1>1, <1>2, <1>3, <1>8, <2>0 DEF FilesOK, NoneUnlinked, AddLoads, drafts
  <2> DEFINE c == [Resting EXCEPT !.do = "add", !.at = "open", !.on = d, !.text = Append(draft[d].text, sent[d] + 1)]
  <2>2. c \in Calls
    BY <1>1, <1>2, <1>3, <1>8, <2>0, RestingIsCall DEF Calls, Doings, Places, AddLoads, Whole, Contents
  <2>3. /\ c.do = "add" /\ c.at = "open" /\ c.on = d
        /\ c.text = Append(draft[d].text, sent[d] + 1)
        /\ c.todo = Resting.todo /\ c.to = Resting.to
        /\ c.size = Resting.size /\ c.archive = Resting.archive
        /\ c.left = Resting.left /\ c.fd = Resting.fd
    BY <1>1, RestingIsCall DEF Calls
  <2>4. Begin(w, c) \/ Continue(w, c)
    BY <1>1, <1>8, <2>0 DEF AddLoads, Return, Shape
  <2>5. call' = [call EXCEPT ![w] = c] /\ call'[w] = c /\ calls' \in 0..MaxCalls
    BY <2>4, CallMoves
  <2> HIDE DEF c
  <2>6. Shape(w)'
    BY <1>1, <1>2, <1>3, <1>8, <2>0, <2>1, <2>3, <2>5, RestingIsCall DEF AddLoads, Shape, Whole, Contents
  <2>7. QED
    BY <2>1, <2>2, <2>5, <2>6, ShapeOfOne
<1>9. ASSUME OpenDraft(w) PROVE Sound'
  <2>0. /\ <<>> \in Seq(Nat)
        /\ Truncated \in Contents
        /\ Truncated # Nothing
        /\ call[w].on \in Draft
        /\ call[w].do \in {"new", "add"} /\ call[w].text # <<>>
        /\ call[w].todo = {}
    <3>1. <<>> \in Seq(Nat)
      OBVIOUS
    <3>2. Truncated \in Contents
      BY <3>1 DEF Truncated, Contents
    <3>3. Truncated # Nothing
      BY <1>3, <3>2
    <3>4. call[w].on \in Draft
      BY <1>1, <1>9 DEF OpenDraft, Shape
    <3>5. /\ call[w].do \in {"new", "add"} /\ call[w].text # <<>>
             /\ call[w].todo = {}
      BY <1>1, <1>9 DEF OpenDraft, Shape
    <3>6. QED
      BY <3>1, <3>2, <3>3, <3>4, <3>5
  <2>1. FilesOK' /\ NoneUnlinked
    BY <1>1, <1>2, <1>3, <1>9, <2>0 DEF FilesOK, NoneUnlinked, OpenDraft, drafts, Truncated, Contents, Shape
  <2> DEFINE c == [call[w] EXCEPT !.at = "write", !.fd = TRUE]
  <2>2. c \in Calls
    BY <1>1, <1>2, <1>3, <1>9, <2>0, RestingIsCall DEF Calls, Doings, Places
  <2>3. /\ c.do = call[w].do /\ c.at = "write" /\ c.on = call[w].on
        /\ c.text = call[w].text /\ c.todo = call[w].todo
        /\ c.to = call[w].to /\ c.size = call[w].size
        /\ c.archive = call[w].archive /\ c.left = call[w].left
        /\ c.fd = TRUE
    BY <1>1, RestingIsCall DEF Calls
  <2>4. Begin(w, c) \/ Continue(w, c)
    BY <1>1, <1>9, <2>0 DEF OpenDraft, Return, Shape
  <2>5. call' = [call EXCEPT ![w] = c] /\ call'[w] = c /\ calls' \in 0..MaxCalls
    BY <2>4, CallMoves
  <2> HIDE DEF c
  <2>6. Shape(w)'
    BY <1>1, <1>2, <1>3, <1>9, <2>0, <2>1, <2>3, <2>5, RestingIsCall DEF OpenDraft, Shape, Truncated, Contents
  <2>7. QED
    BY <2>1, <2>2, <2>5, <2>6, ShapeOfOne
<1>10. ASSUME WriteDraft(w) PROVE Sound'
  <2>1. FilesOK' /\ NoneUnlinked
    BY <1>1, <1>2, <1>3, <1>10 DEF FilesOK, NoneUnlinked, WriteDraft, drafts, Overwritten, Contents, Longest, Shape, Calls
  <2>2. Continue(w, Resting)
    BY <1>10 DEF WriteDraft, Return
  <2>3. call' = [call EXCEPT ![w] = Resting] /\ calls' \in 0..MaxCalls
    BY <2>2, CallMoves
  <2>4. QED
    BY <2>1, <2>3, TypeOfReturn
<1>11. ASSUME NEW d \in Draft, NEW p \in Page, PublishLoads(w, d, p) PROVE Sound'
  <2>1. FilesOK' /\ NoneUnlinked
    BY <1>1, <1>2, <1>3, <1>11 DEF FilesOK, NoneUnlinked, PublishLoads, drafts
  <2> DEFINE c == [Resting EXCEPT !.do = "publish", !.at = "check", !.on = d, !.text = draft[d].text, !.to = p, !.size = Len(draft[d].text)]
  <2>2. c \in Calls
    BY <1>1, <1>2, <1>3, <1>11, RestingIsCall DEF Calls, Doings, Places, PublishLoads, Whole, Contents
  <2>3. /\ c.do = "publish" /\ c.at = "check" /\ c.on = d
        /\ c.text = draft[d].text /\ c.todo = Resting.todo /\ c.to = p
        /\ c.size = Len(draft[d].text) /\ c.archive = Resting.archive
        /\ c.left = Resting.left /\ c.fd = Resting.fd
    BY <1>1, RestingIsCall DEF Calls
  <2>4. Begin(w, c) \/ Continue(w, c)
    BY <1>1, <1>11 DEF PublishLoads, Return, Shape
  <2>5. call' = [call EXCEPT ![w] = c] /\ call'[w] = c /\ calls' \in 0..MaxCalls
    BY <2>4, CallMoves
  <2> HIDE DEF c
  <2>6. Shape(w)'
    BY <1>1, <1>2, <1>3, <1>11, <2>1, <2>3, <2>5, RestingIsCall DEF PublishLoads, Shape, Whole, Contents
  <2>7. QED
    BY <2>1, <2>2, <2>5, <2>6, ShapeOfOne
<1>12. ASSUME NEW d \in Draft, AskDiscard(w, d) PROVE Sound'
  <2>1. FilesOK' /\ NoneUnlinked
    BY <1>1, <1>2, <1>3, <1>12 DEF FilesOK, NoneUnlinked, AskDiscard, drafts
  <2> DEFINE c == [Resting EXCEPT !.do = "discard", !.at = "discard", !.on = d]
  <2>2. c \in Calls
    BY <1>1, <1>2, <1>3, <1>12, RestingIsCall DEF Calls, Doings, Places
  <2>3. /\ c.do = "discard" /\ c.at = "discard" /\ c.on = d
        /\ c.text = Resting.text /\ c.todo = Resting.todo
        /\ c.to = Resting.to /\ c.size = Resting.size
        /\ c.archive = Resting.archive /\ c.left = Resting.left
        /\ c.fd = Resting.fd
    BY <1>1, RestingIsCall DEF Calls
  <2>4. Begin(w, c) \/ Continue(w, c)
    BY <1>1, <1>12 DEF AskDiscard, Return, Shape
  <2>5. call' = [call EXCEPT ![w] = c] /\ call'[w] = c /\ calls' \in 0..MaxCalls
    BY <2>4, CallMoves
  <2> HIDE DEF c
  <2>6. Shape(w)'
    BY <1>1, <1>2, <1>3, <1>12, <2>1, <2>3, <2>5, RestingIsCall DEF AskDiscard, Shape
  <2>7. QED
    BY <2>1, <2>2, <2>5, <2>6, ShapeOfOne
<1>13. ASSUME NEW p \in Page, NEW n \in 1..MaxUpload, Paste(w, p, n) PROVE Sound'
  <2>0. n \in Nat /\ n > 0 /\ n <= MaxUpload
    BY <1>3
  <2>1. FilesOK' /\ NoneUnlinked
    BY <1>1, <1>2, <1>3, <1>13, <2>0 DEF FilesOK, NoneUnlinked, Paste, drafts
  <2> DEFINE c == [Resting EXCEPT !.do = "paste", !.at = "check", !.to = p, !.size = n]
  <2>2. c \in Calls
    BY <1>1, <1>2, <1>3, <1>13, <2>0, RestingIsCall DEF Calls, Doings, Places
  <2>3. /\ c.do = "paste" /\ c.at = "check" /\ c.on = Resting.on
        /\ c.text = Resting.text /\ c.todo = Resting.todo /\ c.to = p
        /\ c.size = n /\ c.archive = Resting.archive
        /\ c.left = Resting.left /\ c.fd = Resting.fd
    BY <1>1, RestingIsCall DEF Calls
  <2>4. Begin(w, c) \/ Continue(w, c)
    BY <1>1, <1>13, <2>0 DEF Paste, Return, Shape
  <2>5. call' = [call EXCEPT ![w] = c] /\ call'[w] = c /\ calls' \in 0..MaxCalls
    BY <2>4, CallMoves
  <2> HIDE DEF c
  <2>6. Shape(w)'
    BY <1>1, <1>2, <1>3, <1>13, <2>0, <2>1, <2>3, <2>5, RestingIsCall DEF Paste, Shape
  <2>7. QED
    BY <2>1, <2>2, <2>5, <2>6, ShapeOfOne
<1>14. ASSUME NEW n \in 1..MaxUpload, Upload(w, n) PROVE Sound'
  <2>0. n \in Nat /\ n > 0 /\ n <= MaxUpload
    BY <1>3
  <2>1. FilesOK' /\ NoneUnlinked
    BY <1>1, <1>2, <1>3, <1>14, <2>0 DEF FilesOK, NoneUnlinked, Upload, drafts
  <2> DEFINE c == [Resting EXCEPT !.do = "zip", !.at = "check", !.size = n]
  <2>2. c \in Calls
    BY <1>1, <1>2, <1>3, <1>14, <2>0, RestingIsCall DEF Calls, Doings, Places
  <2>3. /\ c.do = "zip" /\ c.at = "check" /\ c.on = Resting.on
        /\ c.text = Resting.text /\ c.todo = Resting.todo
        /\ c.to = Resting.to /\ c.size = n /\ c.archive = Resting.archive
        /\ c.left = Resting.left /\ c.fd = Resting.fd
    BY <1>1, RestingIsCall DEF Calls
  <2>4. Begin(w, c) \/ Continue(w, c)
    BY <1>1, <1>14, <2>0 DEF Upload, Return, Shape
  <2>5. call' = [call EXCEPT ![w] = c] /\ call'[w] = c /\ calls' \in 0..MaxCalls
    BY <2>4, CallMoves
  <2> HIDE DEF c
  <2>6. Shape(w)'
    BY <1>1, <1>2, <1>3, <1>14, <2>0, <2>1, <2>3, <2>5, RestingIsCall DEF Upload, Shape
  <2>7. QED
    BY <2>1, <2>2, <2>5, <2>6, ShapeOfOne
<1>15. ASSUME Check(w) PROVE Sound'
  <2>1. FilesOK' /\ NoneUnlinked
    BY <1>1, <1>2, <1>3, <1>15 DEF FilesOK, NoneUnlinked, Check, drafts
  <2>2. CASE Return(w)
    <3>1. Continue(w, Resting)
      BY <1>15, <2>2 DEF Check, Return
    <3>2. call' = [call EXCEPT ![w] = Resting] /\ calls' \in 0..MaxCalls
      BY <3>1, CallMoves
    <3>3. QED
      BY <2>1, <3>2, TypeOfReturn
  <2>3. CASE ~Return(w)
    <3> DEFINE c == [call[w] EXCEPT !.at = "put"]
    <3>1. c \in Calls
      BY <1>1, <1>2, <1>3, <1>15, <2>3, RestingIsCall DEF Calls, Doings, Places
    <3>2. /\ c.do = call[w].do /\ c.at = "put" /\ c.on = call[w].on
          /\ c.text = call[w].text /\ c.todo = call[w].todo
          /\ c.to = call[w].to /\ c.size = call[w].size
          /\ c.archive = call[w].archive /\ c.left = call[w].left
          /\ c.fd = call[w].fd
      BY <1>1, RestingIsCall DEF Calls
    <3>3. Begin(w, c) \/ Continue(w, c)
      BY <1>1, <1>15, <2>3 DEF Check, Return, Shape
    <3>4. call' = [call EXCEPT ![w] = c] /\ call'[w] = c /\ calls' \in 0..MaxCalls
      BY <3>3, CallMoves
    <3> HIDE DEF c
    <3>5. Shape(w)'
      BY <1>1, <1>2, <1>3, <1>15, <2>3, <2>1, <3>2, <3>4, RestingIsCall DEF Check, Shape
    <3>6. QED
      BY <2>1, <3>1, <3>4, <3>5, ShapeOfOne
  <2>4. QED
    BY <2>2, <2>3
<1>16. ASSUME StoreArchive(w) PROVE Sound'
  <2>0. /\ call[w].do = "zip" /\ call[w].todo = {} /\ call[w].on = Nothing
        /\ call[w].size \in Nat /\ call[w].size <= MaxUpload
    BY <1>1, <1>16 DEF StoreArchive, Shape, Calls
  <2>1. FilesOK' /\ NoneUnlinked
    BY <1>1, <1>2, <1>3, <1>16, <2>0 DEF FilesOK, NoneUnlinked, StoreArchive, drafts
  <2> DEFINE c == [call[w] EXCEPT !.at = "extract", !.archive = call[w].size, !.left = MaxUpload]
  <2>2. c \in Calls
    BY <1>1, <1>2, <1>3, <1>16, <2>0, RestingIsCall DEF Calls, Doings, Places, StoreArchive
  <2>3. /\ c.do = call[w].do /\ c.at = "extract" /\ c.on = call[w].on
        /\ c.text = call[w].text /\ c.todo = call[w].todo
        /\ c.to = call[w].to /\ c.size = call[w].size
        /\ c.archive = call[w].size /\ c.left = MaxUpload
        /\ c.fd = call[w].fd
    BY <1>1, RestingIsCall DEF Calls
  <2>4. Begin(w, c) \/ Continue(w, c)
    BY <1>1, <1>16, <2>0 DEF StoreArchive, Return, Shape
  <2>5. call' = [call EXCEPT ![w] = c] /\ call'[w] = c /\ calls' \in 0..MaxCalls
    BY <2>4, CallMoves
  <2> HIDE DEF c
  <2>6. Shape(w)'
    BY <1>1, <1>2, <1>3, <1>16, <2>0, <2>1, <2>3, <2>5, RestingIsCall DEF Shape
  <2>7. QED
    BY <2>1, <2>2, <2>5, <2>6, ShapeOfOne
<1>17. ASSUME NEW p \in Page, NEW n \in Nat, ExtractMember(w, p, n) PROVE Sound'
  <2>0. /\ call[w].do = "zip" /\ call[w].todo = {} /\ call[w].on = Nothing
        /\ call[w].left \in Nat /\ n <= call[w].left /\ call[w].left <= MaxUpload
        /\ n <= MaxUpload /\ call[w].left - n \in Nat /\ call[w].left - n <= MaxUpload
    BY <1>1, <1>3, <1>17 DEF ExtractMember, Shape, Calls
  <2>1. FilesOK' /\ NoneUnlinked
    BY <1>1, <1>2, <1>3, <1>17, <2>0 DEF FilesOK, NoneUnlinked, ExtractMember, drafts, Opened
  <2> DEFINE c == [call[w] EXCEPT !.at = "fill", !.to = p, !.size = n, !.fd = TRUE, !.left = @ - n]
  <2>2. c \in Calls
    BY <1>1, <1>2, <1>3, <1>17, <2>0, RestingIsCall DEF Calls, Doings, Places, ExtractMember, Shape
  <2>3. /\ c.do = call[w].do /\ c.at = "fill" /\ c.on = call[w].on
        /\ c.text = call[w].text /\ c.todo = call[w].todo /\ c.to = p
        /\ c.size = n /\ c.archive = call[w].archive
        /\ c.left = call[w].left - n /\ c.fd = TRUE
    BY <1>1, RestingIsCall DEF Calls
  <2>4. Begin(w, c) \/ Continue(w, c)
    BY <1>1, <1>17, <2>0 DEF ExtractMember, Opened, Return, Shape
  <2>5. call' = [call EXCEPT ![w] = c] /\ call'[w] = c /\ calls' \in 0..MaxCalls
    BY <2>4, CallMoves
  <2> HIDE DEF c
  <2>6. Shape(w)'
    BY <1>1, <1>2, <1>3, <1>17, <2>0, <2>1, <2>3, <2>5, RestingIsCall DEF ExtractMember, Opened, Shape
  <2>7. QED
    BY <2>1, <2>2, <2>5, <2>6, ShapeOfOne
<1>18. ASSUME ExtractEnds(w) PROVE Sound'
  <2>1. FilesOK' /\ NoneUnlinked
    BY <1>1, <1>2, <1>3, <1>18 DEF FilesOK, NoneUnlinked, ExtractEnds, drafts
  <2>2. Continue(w, Resting)
    BY <1>18 DEF ExtractEnds, Return
  <2>3. call' = [call EXCEPT ![w] = Resting] /\ calls' \in 0..MaxCalls
    BY <2>2, CallMoves
  <2>4. QED
    BY <2>1, <2>3, TypeOfReturn
<1>19. ASSUME PutPage(w) PROVE Sound'
  <2>1. FilesOK' /\ NoneUnlinked
    BY <1>1, <1>2, <1>3, <1>19 DEF FilesOK, NoneUnlinked, PutPage, drafts, Opened
  <2> DEFINE c == [call[w] EXCEPT !.at = "fill", !.to = call[w].to, !.size = call[w].size, !.fd = TRUE, !.left = @]
  <2>2. c \in Calls
    BY <1>1, <1>2, <1>3, <1>19, RestingIsCall DEF Calls, Doings, Places, PutPage, Shape
  <2>3. /\ c.do = call[w].do /\ c.at = "fill" /\ c.on = call[w].on
        /\ c.text = call[w].text /\ c.todo = call[w].todo
        /\ c.to = call[w].to /\ c.size = call[w].size
        /\ c.archive = call[w].archive /\ c.left = call[w].left
        /\ c.fd = TRUE
    BY <1>1, RestingIsCall DEF Calls
  <2>4. Begin(w, c) \/ Continue(w, c)
    BY <1>1, <1>19 DEF PutPage, Opened, Return, Shape
  <2>5. call' = [call EXCEPT ![w] = c] /\ call'[w] = c /\ calls' \in 0..MaxCalls
    BY <2>4, CallMoves
  <2> HIDE DEF c
  <2>6. Shape(w)'
    BY <1>1, <1>2, <1>3, <1>19, <2>1, <2>3, <2>5, RestingIsCall DEF PutPage, Opened, Shape
  <2>7. QED
    BY <2>1, <2>2, <2>5, <2>6, ShapeOfOne
<1>20. ASSUME Fill(w) PROVE Sound'
  <2>0. /\ call[w].at = "fill" /\ call[w].do \in {"publish", "paste", "zip"}
        /\ call[w].todo = {} /\ call[w].to \in Page /\ call[w].size \in Nat
        /\ Longest(page[call[w].to], call[w].size) \in Nat
    BY <1>1, <1>2, <1>20 DEF Fill, Shape, Calls, Longest
  <2>1. FilesOK' /\ NoneUnlinked
    BY <1>1, <1>2, <1>3, <1>20, <2>0 DEF FilesOK, NoneUnlinked, Fill, drafts, Longest, Shape, Calls
  <2>2. CASE call[w].do = "paste"
    <3>1. Continue(w, Resting)
      BY <1>20, <2>0, <2>2 DEF Fill, Return
    <3>2. call' = [call EXCEPT ![w] = Resting] /\ calls' \in 0..MaxCalls
      BY <3>1, CallMoves
    <3>3. QED
      BY <2>1, <3>2, TypeOfReturn
  <2>3. CASE call[w].do = "publish"
    <3> DEFINE c == [call[w] EXCEPT !.at = "discard", !.fd = FALSE]
    <3>1. c \in Calls
      BY <1>1, <1>2, <1>3, <1>20, <2>0, <2>3, RestingIsCall DEF Calls, Doings, Places
    <3>2. /\ c.do = call[w].do /\ c.at = "discard" /\ c.on = call[w].on
          /\ c.text = call[w].text /\ c.todo = call[w].todo
          /\ c.to = call[w].to /\ c.size = call[w].size
          /\ c.archive = call[w].archive /\ c.left = call[w].left
          /\ c.fd = FALSE
      BY <1>1, RestingIsCall DEF Calls
    <3>3. Begin(w, c) \/ Continue(w, c)
      BY <1>1, <1>20, <2>0, <2>3 DEF Fill, Return, Shape
    <3>4. call' = [call EXCEPT ![w] = c] /\ call'[w] = c /\ calls' \in 0..MaxCalls
      BY <3>3, CallMoves
    <3> HIDE DEF c
    <3>5. Shape(w)'
      BY <1>1, <1>2, <1>3, <1>20, <2>0, <2>3, <2>1, <3>2, <3>4, RestingIsCall DEF Fill, Shape
    <3>6. QED
      BY <2>1, <3>1, <3>4, <3>5, ShapeOfOne
  <2>4. CASE call[w].do = "zip"
    <3> DEFINE c == [call[w] EXCEPT !.at = "extract", !.fd = FALSE, !.size = 0]
    <3>1. c \in Calls
      BY <1>1, <1>2, <1>3, <1>20, <2>0, <2>4, RestingIsCall DEF Calls, Doings, Places
    <3>2. /\ c.do = call[w].do /\ c.at = "extract" /\ c.on = call[w].on
          /\ c.text = call[w].text /\ c.todo = call[w].todo
          /\ c.to = call[w].to /\ c.size = 0 /\ c.archive = call[w].archive
          /\ c.left = call[w].left /\ c.fd = FALSE
      BY <1>1, RestingIsCall DEF Calls
    <3>3. Begin(w, c) \/ Continue(w, c)
      BY <1>1, <1>20, <2>0, <2>4 DEF Fill, Return, Shape
    <3>4. call' = [call EXCEPT ![w] = c] /\ call'[w] = c /\ calls' \in 0..MaxCalls
      BY <3>3, CallMoves
    <3> HIDE DEF c
    <3>5. Shape(w)'
      BY <1>1, <1>2, <1>3, <1>20, <2>0, <2>4, <2>1, <3>2, <3>4, RestingIsCall DEF Fill, Shape
    <3>6. QED
      BY <2>1, <3>1, <3>4, <3>5, ShapeOfOne
  <2>5. QED
    BY <2>2, <2>3, <2>4, <1>1, <1>20 DEF Fill, Shape
<1>21. ASSUME Crash(w) PROVE Sound'
  <2>1. FilesOK' /\ NoneUnlinked
    BY <1>1, <1>2, <1>3, <1>21 DEF FilesOK, NoneUnlinked, Crash, drafts, Calls
  <2>2. call' = [call EXCEPT ![w] = Resting] /\ calls' \in 0..MaxCalls
    BY <1>1, <1>21, WorkspaceAssumption DEF Crash, TypeInv, TypeOK
  <2>3. QED
    BY <2>1, <2>2, TypeOfReturn
<1>22. QED
  BY <1>4, <1>5, <1>6, <1>7, <1>8, <1>9, <1>10, <1>11, <1>12, <1>13, <1>14, <1>15, <1>16, <1>17, <1>18, <1>19, <1>20, <1>21

(* Unlinking f changes at most the handle of another call, and that call   *)
(* keeps its shape: it no longer writes to a file with a name.             *)
LEMMA DetachedKeeps ==
  ASSUME TypeInv, NEW v \in Worker, NEW f, call'[v] = Detached(call[v], f),
         slipped => slipped',
         \A d \in Draft : d # f /\ draft[d] # Nothing => draft'[d] # Nothing
  PROVE  call'[v] \in Calls /\ Shape(v)'
<1>1. call[v] \in Calls /\ Shape(v)
  BY DEF TypeInv, TypeOK, ShapeInv
<1>2. CASE OnFile(call[v], f)
  <2> DEFINE c == [call[v] EXCEPT !.fd = FALSE]
  <2>1. c \in Calls /\ call'[v] = c
    BY <1>1, <1>2 DEF Calls, Detached
  <2>2. /\ c.do = call[v].do /\ c.at = call[v].at /\ c.on = call[v].on
        /\ c.text = call[v].text /\ c.todo = call[v].todo /\ c.to = call[v].to
        /\ c.size = call[v].size /\ c.left = call[v].left /\ c.fd = FALSE
    BY <1>1 DEF Calls
  <2>3. call[v].at # "rest"
    BY <1>2 DEF OnFile
  <2> HIDE DEF c
  <2>4. Shape(v)'
    BY <1>1, <2>1, <2>2, <2>3 DEF Shape
  <2>5. QED
    BY <2>1, <2>4
<1>3. CASE ~OnFile(call[v], f)
  <2>1. call'[v] = call[v]
    BY <1>3 DEF Detached
  <2>2. call[v].at = "write" /\ call[v].fd /\ call[v].to = Nothing => call[v].on # f
    BY <1>3 DEF OnFile, Target
  <2>3. Shape(v)'
    BY <1>1, <2>1, <2>2 DEF Shape
  <2>4. QED
    BY <1>1, <2>1, <2>3
<1>4. QED
  BY <1>2, <1>3

(* Moving the file f to the page q: an open handle follows it, and if it   *)
(* was a draft's the step is recorded.                                     *)
LEMMA MovedKeeps ==
  ASSUME TypeInv, NEW v \in Worker, NEW f \in Page \cup Draft, NEW q \in Page,
         call'[v] = IF OnFile(call[v], f) THEN [call[v] EXCEPT !.to = q]
                                          ELSE Detached(call[v], q),
         slipped => slipped', f \in Draft => slipped',
         \A d \in Draft : d # f /\ draft[d] # Nothing => draft'[d] # Nothing
  PROVE  call'[v] \in Calls /\ Shape(v)'
<1>1. call[v] \in Calls /\ Shape(v)
  BY DEF TypeInv, TypeOK, ShapeInv
<1>2. Nothing \notin Page /\ Nothing \notin Draft /\ Draft \cap Page = {}
  BY WorkspaceAssumption
<1>3. CASE OnFile(call[v], f)
  <2> DEFINE c == [call[v] EXCEPT !.to = q]
  <2>1. c \in Calls /\ call'[v] = c
    BY <1>1, <1>3 DEF Calls
  <2>2. /\ c.do = call[v].do /\ c.at = call[v].at /\ c.on = call[v].on
        /\ c.text = call[v].text /\ c.todo = call[v].todo /\ c.to = q
        /\ c.size = call[v].size /\ c.left = call[v].left /\ c.fd = call[v].fd
    BY <1>1 DEF Calls
  <2>3. call[v].at \in {"write", "fill"} /\ Target(call[v]) = f
    BY <1>3 DEF OnFile
  <2>4. call[v].at = "write" => slipped'
    BY <1>1, <1>2, <2>3 DEF Shape, Target
  <2> HIDE DEF c
  <2>5. Shape(v)'
    BY <1>1, <1>2, <2>1, <2>2, <2>3, <2>4 DEF Shape
  <2>6. QED
    BY <2>1, <2>5
<1>4. CASE ~OnFile(call[v], f) /\ OnFile(call[v], q)
  <2> DEFINE c == [call[v] EXCEPT !.fd = FALSE]
  <2>1. c \in Calls /\ call'[v] = c
    BY <1>1, <1>4 DEF Calls, Detached
  <2>2. /\ c.do = call[v].do /\ c.at = call[v].at /\ c.on = call[v].on
        /\ c.text = call[v].text /\ c.todo = call[v].todo /\ c.to = call[v].to
        /\ c.size = call[v].size /\ c.left = call[v].left /\ c.fd = FALSE
    BY <1>1 DEF Calls
  <2>3. call[v].at # "rest"
    BY <1>4 DEF OnFile
  <2> HIDE DEF c
  <2>4. Shape(v)'
    BY <1>1, <2>1, <2>2, <2>3 DEF Shape
  <2>5. QED
    BY <2>1, <2>4
<1>5. CASE ~OnFile(call[v], f) /\ ~OnFile(call[v], q)
  <2>1. call'[v] = call[v]
    BY <1>5 DEF Detached
  <2>2. call[v].at = "write" /\ call[v].fd /\ call[v].to = Nothing => call[v].on # f
    BY <1>5 DEF OnFile, Target
  <2>3. Shape(v)'
    BY <1>1, <2>1, <2>2 DEF Shape
  <2>4. QED
    BY <1>1, <2>1, <2>3
<1>6. QED
  BY <1>3, <1>4, <1>5

(* The steps that unlink or move a file keep types and shapes.             *)
LEMMA TypeOfUnlinks ==
  ASSUME TypeInv, NEW w \in Worker, Recorded,
         \/ ExpireUnlinks(w)
         \/ Discard(w)
         \/ \E p \in Page : Delete(w, p)
         \/ \E p, q \in Page : Move(w, p, q)
         \/ \E d \in Draft, q \in Page : MoveDraft(w, d, q) /\ slipped'
  PROVE  Sound'
<1>1. call \in [Worker -> Calls] /\ call[w] \in Calls /\ Shape(w) /\ FilesOK
  BY DEF TypeInv, TypeOK, ShapeInv, FilesOK
<1>2. /\ Nothing \notin Draft /\ Nothing \notin Contents /\ Draft \cap Page = {}
      /\ MaxCalls \in Nat /\ calls \in 0..MaxCalls
  BY WorkspaceAssumption, NothingAssumption DEF Contents, TypeInv, TypeOK
<1>3. ASSUME FilesOK', calls' \in 0..MaxCalls, call' = [v \in Worker |-> call'[v]],
             \A v \in Worker : call'[v] \in Calls /\ Shape(v)'
      PROVE  Sound'
  <2>1. call' \in [Worker -> Calls]
    BY <1>3
  <2>2. QED
    BY <1>3, <2>1 DEF Sound, ShapeInv, Recorded
<1>4. ASSUME ExpireUnlinks(w) PROVE Sound'
  <2> DEFINE d == call[w].on
             c == [call[w] EXCEPT !.on = Nothing, !.at = "expire"]
  <2>1. d \in Draft /\ call[w].at = "unlink"
    BY <1>1, <1>4 DEF ExpireUnlinks, Shape
  <2>2. draft' = [draft EXCEPT ![d] = Nothing]
    BY <1>4 DEF ExpireUnlinks
  <2>3. FilesOK' /\ calls' \in 0..MaxCalls
    BY <1>1, <1>2, <1>4, <2>1, <2>2 DEF ExpireUnlinks, FilesOK
  <2>4. Detached(call[w], d) = call[w]
    BY <2>1 DEF Detached, OnFile
  <2>5. call' = [v \in Worker |-> IF v = w THEN c ELSE Detached(call[v], d)]
    BY <1>4, <2>4 DEF ExpireUnlinks, Detach
  <2>6. c \in Calls
    BY <1>1, <1>2 DEF Calls, Places
  <2>7. /\ c.do = call[w].do /\ c.at = "expire" /\ c.on = Nothing
        /\ c.text = call[w].text /\ c.todo = call[w].todo /\ c.to = call[w].to
    BY <1>1 DEF Calls
  <2>8. call[w].do \in {"new", "list"} /\ call'[w] = c /\ c.to = call[w].to
        /\ (call[w].do = "new" => call[w].to = Nothing)
    BY <1>1, <2>1, <2>5, <2>7 DEF Shape
  <2> HIDE DEF c
  <2>9. Shape(w)'
    BY <2>7, <2>8 DEF Shape
  <2>10. ASSUME NEW v \in Worker \ {w} PROVE call'[v] \in Calls /\ Shape(v)'
    <3>1. call'[v] = Detached(call[v], d)
      BY <2>5
    <3>2. \A e \in Draft : e # d /\ draft[e] # Nothing => draft'[e] # Nothing
      BY <1>1, <2>2 DEF FilesOK
    <3>3. QED
      BY <3>1, <3>2, DetachedKeeps DEF Recorded
  <2>11. QED
    BY <1>3, <2>3, <2>5, <2>6, <2>8, <2>9, <2>10
<1>5. ASSUME Discard(w) PROVE Sound'
  <2> DEFINE d == call[w].on
  <2>1. d \in Draft
    BY <1>1, <1>5 DEF Discard, Shape
  <2>2. draft' = [draft EXCEPT ![d] = Nothing]
    BY <1>5 DEF Discard
  <2>3. FilesOK' /\ calls' \in 0..MaxCalls
    BY <1>1, <1>2, <1>5, <2>1, <2>2 DEF Discard, FilesOK
  <2>4. call' = [v \in Worker |-> IF v = w THEN Resting ELSE Detached(call[v], d)]
    BY <1>5 DEF Discard, Detach
  <2>5. call'[w] \in Calls /\ Shape(w)'
    BY <2>4, RestingIsCall DEF Shape
  <2>6. ASSUME NEW v \in Worker \ {w} PROVE call'[v] \in Calls /\ Shape(v)'
    <3>1. call'[v] = Detached(call[v], d)
      BY <2>4
    <3>2. \A e \in Draft : e # d /\ draft[e] # Nothing => draft'[e] # Nothing
      BY <1>1, <2>2 DEF FilesOK
    <3>3. QED
      BY <3>1, <3>2, DetachedKeeps DEF Recorded
  <2>7. QED
    BY <1>3, <2>3, <2>4, <2>5, <2>6
<1>6. ASSUME NEW p \in Page, Delete(w, p) PROVE Sound'
  <2>1. FilesOK' /\ calls' \in 0..MaxCalls /\ draft' = draft
    BY <1>1, <1>2, <1>6 DEF Delete, FilesOK, drafts
  <2>2. call' = [v \in Worker |-> Detached(call[v], p)]
    BY <1>6 DEF Delete, Detach
  <2>3. ASSUME NEW v \in Worker PROVE call'[v] \in Calls /\ Shape(v)'
    BY <2>1, <2>2, DetachedKeeps DEF Recorded
  <2>4. QED
    BY <1>3, <2>1, <2>2, <2>3
<1>7. ASSUME NEW p \in Page, NEW q \in Page, Move(w, p, q) PROVE Sound'
  <2>1. FilesOK' /\ calls' \in 0..MaxCalls /\ draft' = draft
    BY <1>1, <1>2, <1>7 DEF Move, FilesOK, drafts
  <2>2. call' = [v \in Worker |-> IF OnFile(call[v], p) THEN [call[v] EXCEPT !.to = q]
                                                       ELSE Detached(call[v], q)]
    BY <1>7 DEF Move, Moved
  <2>3. ASSUME NEW v \in Worker PROVE call'[v] \in Calls /\ Shape(v)'
    <3>1. p \notin Draft
      BY <1>2
    <3>2. QED
      BY <2>1, <2>2, <3>1, MovedKeeps DEF Recorded
  <2>4. QED
    BY <1>3, <2>1, <2>2, <2>3
<1>8. ASSUME NEW d \in Draft, NEW q \in Page, MoveDraft(w, d, q), slipped' PROVE Sound'
  <2>1. draft[d].len \in Nat /\ draft' = [draft EXCEPT ![d] = Nothing]
    BY <1>1, <1>8 DEF MoveDraft, FilesOK, Contents
  <2>2. FilesOK' /\ calls' \in 0..MaxCalls
    BY <1>1, <1>2, <1>8, <2>1 DEF MoveDraft, FilesOK
  <2>3. call' = [v \in Worker |-> IF OnFile(call[v], d) THEN [call[v] EXCEPT !.to = q]
                                                       ELSE Detached(call[v], q)]
    BY <1>8 DEF MoveDraft, Moved
  <2>4. \A e \in Draft : e # d /\ draft[e] # Nothing => draft'[e] # Nothing
    BY <1>1, <2>1 DEF FilesOK
  <2>5. ASSUME NEW v \in Worker PROVE call'[v] \in Calls /\ Shape(v)'
    BY <1>8, <2>3, <2>4, MovedKeeps DEF Recorded
  <2>6. QED
    BY <1>3, <2>2, <2>3, <2>5
<1>9. QED
  BY <1>4, <1>5, <1>6, <1>7, <1>8

(* What measures have seen so far is a number for each file.               *)
LEMMA MeasureTyped ==
  ASSUME TypeInv, Sound', Measure
  PROVE  TypeInv'
<1>1. low \in [Worker -> [Files -> Nat]]
  BY DEF TypeInv, TypeOK
<1>2. Size' \in [Files -> Nat]
  <2>1. /\ draft' \in [Draft -> Contents \cup {Nothing}] /\ page' \in [Page -> Nat]
        /\ leftover' \in [Worker -> Nat] /\ call' \in [Worker -> Calls]
    BY DEF Sound, FilesOK
  <2>2. ASSUME NEW f \in Files
        PROVE  /\ f \in Page => page'[f] \in Nat
               /\ f \in Draft /\ draft'[f] # Nothing => draft'[f].len \in Nat
               /\ f \in Worker => leftover'[f] + call'[f].archive \in Nat
    BY <2>1 DEF Contents, Calls
  <2>3. QED
    BY <2>2 DEF Size, Files
<1>3. ASSUME NEW w \in Worker PROVE low'[w] \in [Files -> Nat]
  <2>1. [f \in Files |-> 0] \in [Files -> Nat]
    OBVIOUS
  <2>2. [f \in Files |-> Least(low[w][f], Size'[f])] \in [Files -> Nat]
    BY <1>1, <1>2 DEF Least
  <2>3. QED
    BY <1>2, <2>1, <2>2 DEF Measure
<1>4. low' \in [Worker -> [Files -> Nat]]
  BY <1>3 DEF Measure
<1>5. QED
  BY <1>4 DEF Sound, FilesOK, TypeInv, TypeOK

(* Types and shapes are kept by every step.                                *)
LEMMA TypeStep ==
  ASSUME TypeInv, [Next]_vars
  PROVE  TypeInv'
<1>1. disturbed \subseteq Draft /\ Shared' \subseteq Draft /\ slipped \in BOOLEAN
  BY DEF TypeInv, TypeOK, Shared
<1>2. \A w \in Worker : Struck(w) \subseteq Draft
  BY DEF Struck
<1>3. ASSUME NEW w \in Worker, DraftStep(w) \/ PageStep(w),
             disturbed' = disturbed \cup Shared', slipped' = slipped
      PROVE  Sound'
  <2>1. Recorded
    BY <1>1, <1>3 DEF Recorded
  <2>2. CASE ExpireUnlinks(w) \/ Discard(w) \/ \E p \in Page : Delete(w, p)
    BY <2>1, <2>2, TypeOfUnlinks
  <2>3. CASE ~(ExpireUnlinks(w) \/ Discard(w) \/ \E p \in Page : Delete(w, p))
    BY <1>3, <2>1, <2>3, TypeOfCalls, WorkspaceAssumption DEF DraftStep, PageStep
  <2>4. QED
    BY <2>2, <2>3
<1>4. ASSUME NEW d \in Draft, Age(d), disturbed' = disturbed \cup Shared',
             slipped' = slipped
      PROVE  Sound'
  BY <1>1, <1>4 DEF Age, TypeInv, TypeOK, ShapeInv, Shape, Sound, FilesOK
<1>5. ASSUME NEW w \in Worker, NEW p \in Page, NEW q \in Page, Move(w, p, q),
             slipped' = (slipped \/ \E v \in Worker : Measuring(v)),
             disturbed' = disturbed
      PROVE  Sound'
  <2>1. Recorded
    BY <1>1, <1>5 DEF Recorded
  <2>2. QED
    BY <1>5, <2>1, TypeOfUnlinks
<1>6. ASSUME NEW w \in Worker, NEW d \in Draft, NEW q \in Page, MoveDraft(w, d, q),
             disturbed' = disturbed \cup {d}, slipped' = TRUE
      PROVE  Sound'
  <2>1. Recorded /\ slipped'
    BY <1>1, <1>6 DEF Recorded
  <2>2. QED
    BY <1>6, <2>1, TypeOfUnlinks
<1>7. ASSUME NEW w \in Worker, Crash(w), disturbed' = disturbed \cup Struck(w),
             slipped' = slipped
      PROVE  Sound'
  <2>1. Recorded
    BY <1>1, <1>2, <1>7 DEF Recorded
  <2>2. QED
    BY <1>7, <2>1, TypeOfCalls
<1>8. ASSUME Quiet, UNCHANGED <<disturbed, slipped>> PROVE Sound'
  BY <1>8 DEF Quiet, drafts, TypeInv, TypeOK, ShapeInv, Shape, Sound, FilesOK
<1>9. CASE Next
  <2>1. Sound'
    BY <1>3, <1>4, <1>5, <1>6, <1>7, <1>8, <1>9 DEF Next, Step
  <2>2. QED
    BY <1>9, <2>1, MeasureTyped DEF Next
<1>10. CASE UNCHANGED vars
  BY <1>10 DEF vars, drafts, TypeInv, TypeOK, ShapeInv, Shape
<1>11. QED
  BY <1>9, <1>10

LEMMA TypeInit ==
  ASSUME Init PROVE TypeInv
<1>1. call \in [Worker -> Calls] /\ \A w \in Worker : call[w] = Resting
  BY RestingIsCall DEF Init
<1>2. ShapeInv
  BY <1>1, RestingIsCall DEF ShapeInv, Shape
<1>3. low \in [Worker -> [Files -> Nat]]
  BY DEF Init
<1>4. slipped \in BOOLEAN
  BY DEF Init
<1>5. /\ draft \in [Draft -> Contents \cup {Nothing}] /\ page \in [Page -> Nat]
      /\ leftover \in [Worker -> Nat] /\ calls \in 0..MaxCalls
      /\ sent \in [Draft -> Nat] /\ acked \in [Draft -> SUBSET Nat]
      /\ old \subseteq Draft /\ gone \subseteq Draft /\ disturbed \subseteq Draft
  BY WorkspaceAssumption DEF Init
<1>6. TypeOK
  BY <1>1, <1>3, <1>4, <1>5 DEF TypeOK
<1>7. QED
  BY <1>2, <1>6 DEF TypeInv

(* Every reachable state is of its type, and every call knows where it is. *)
THEOREM TypeCorrect == Spec => [](TypeOK /\ ShapeInv)
<1>1. Init => TypeInv
  BY TypeInit
<1>2. TypeInv /\ [Next]_vars => TypeInv'
  BY TypeStep
<1>3. QED
  BY <1>1, <1>2, PTL DEF Spec, TypeInv

----------------------------------------------------------------------------
(* What pages may exceed the plan by                                       *)

Granting == {"put", "fill", "extract"}

(* A grant is a number, and only calls that write pages hold one.          *)
LEMMA GrantType ==
  ASSUME NEW c \in Calls
  PROVE  Grant(c) \in Nat /\ (c.at \notin Granting => Grant(c) = 0)
BY WorkspaceAssumption DEF Calls, Grant, Granting

(* Unlinking or moving a file takes no grant away and gives none.          *)
LEMMA GrantDetached ==
  ASSUME NEW c \in Calls, NEW f, NEW q \in Page
  PROVE  Grant(Detached(c, f)) = Grant(c) /\ Grant([c EXCEPT !.to = q]) = Grant(c)
<1>1. \A e : e = [c EXCEPT !.fd = FALSE] \/ e = [c EXCEPT !.to = q] =>
        e.at = c.at /\ e.do = c.do /\ e.size = c.size /\ e.left = c.left
  BY DEF Calls
<1>2. QED
  BY <1>1 DEF Detached, Grant

(* What is written and granted does not grow, or grows by a checked grant. *)
LEMMA GrantsOfOne ==
  ASSUME TypeInv, TypeInv', NEW w \in Worker,
         \A v \in Worker \ {w} : Grant(call'[v]) = Grant(call[v])
  PROVE  /\ Total(page) \in Nat /\ Total(page') \in Nat
         /\ Total(Granted) \in Nat /\ Grant(call[w]) \in Nat /\ Grant(call'[w]) \in Nat
         /\ Total(Granted)' = Total(Granted) - Grant(call[w]) + Grant(call'[w])
<1>1. \A v \in Worker : call[v] \in Calls /\ call'[v] \in Calls
  BY DEF TypeInv, TypeOK
<1>2. Granted \in [Worker -> Nat]
  BY <1>1, GrantType DEF Granted
<1>3. Granted' = [Granted EXCEPT ![w] = Grant(call'[w])]
  BY DEF Granted
<1>4. Total(Granted') = Total(Granted) - Granted[w] + Grant(call'[w])
  <2>1. Grant(call'[w]) \in Nat
    BY <1>1, GrantType
  <2>2. IsFiniteSet(Worker)
    BY WorkspaceAssumption
  <2>3. QED
    BY <1>2, <1>3, <2>1, <2>2, TotalExcept
<1>5. Total(page) \in Nat /\ Total(page') \in Nat
  <2>1. page \in [Page -> Nat] /\ page' \in [Page -> Nat]
    BY DEF TypeInv, TypeOK
  <2>2. QED
    BY <2>1, TotalType, WorkspaceAssumption
<1>6. Total(Granted') = Total(Granted)'
  OBVIOUS
<1>7. QED
  BY <1>1, <1>2, <1>4, <1>5, <1>6, GrantType, TotalType, WorkspaceAssumption DEF Granted

(* The numbers the bound is about.                                         *)
LEMMA SeenType ==
  ASSUME TypeInv
  PROVE  /\ Total(page) \in Nat /\ Total(Granted) \in Nat
         /\ Cardinality(Worker) \in Nat /\ Cardinality(Measurers) \in Nat
         /\ \A w \in Worker : PagesSeen(w) \in Nat
         /\ MaxUpload \in Nat /\ Limit \in Nat /\ MaxUpload > 0
         /\ Measurers \subseteq Worker
         /\ IsFiniteSet(Worker) /\ IsFiniteSet(Measurers)
         /\ Cardinality(Measurers) <= Cardinality(Worker)
<1>1. /\ IsFiniteSet(Worker) /\ IsFiniteSet(Page)
      /\ MaxUpload \in Nat /\ Limit \in Nat /\ MaxUpload > 0
  BY WorkspaceAssumption
<1>2. Measurers \subseteq Worker
  BY DEF Measurers
<1>3. /\ IsFiniteSet(Measurers) /\ Cardinality(Measurers) <= Cardinality(Worker)
  BY <1>1, <1>2, FS_Subset
<1>4. Cardinality(Worker) \in Nat /\ Cardinality(Measurers) \in Nat
  BY <1>1, <1>3, FS_CardinalityType
<1>5. Granted \in [Worker -> Nat] /\ page \in [Page -> Nat]
  BY GrantType DEF Granted, TypeInv, TypeOK
<1>6. ASSUME NEW w \in Worker PROVE PagesSeen(w) \in Nat
  <2>1. [p \in Page |-> low[w][p]] \in [Page -> Nat]
    BY DEF TypeInv, TypeOK, Files
  <2>2. QED
    BY <1>1, <2>1, TotalType DEF PagesSeen
<1>7. QED
  BY <1>1, <1>2, <1>3, <1>4, <1>5, <1>6, TotalType

(* The same after a step.                                                  *)
LEMMA SeenTypeAfter ==
  ASSUME TypeInv'
  PROVE  /\ Total(page)' \in Nat /\ Total(Granted)' \in Nat
         /\ Cardinality(Measurers)' \in Nat
         /\ \A w \in Worker : PagesSeen(w)' \in Nat
<1>1. Granted' \in [Worker -> Nat] /\ page' \in [Page -> Nat]
  BY GrantType DEF Granted, TypeInv, TypeOK
<1>2. Total(page') \in Nat /\ Total(Granted') \in Nat
  BY <1>1, TotalType, WorkspaceAssumption
<1>3. Total(page)' \in Nat /\ Total(Granted)' \in Nat
  BY <1>2
<1>4. Cardinality(Measurers)' \in Nat
  <2>1. Measurers' \subseteq Worker
    BY DEF Measurers
  <2>2. IsFiniteSet(Measurers')
    BY <2>1, FS_Subset, WorkspaceAssumption
  <2>3. Cardinality(Measurers') \in Nat
    BY <2>2, FS_CardinalityType
  <2>4. QED
    BY <2>3
<1>5. ASSUME NEW w \in Worker PROVE PagesSeen(w)' \in Nat
  <2>1. [p \in Page |-> low'[w][p]] \in [Page -> Nat]
    BY DEF TypeInv, TypeOK, Files
  <2>2. Total([p \in Page |-> low'[w][p]]) \in Nat
    BY <2>1, TotalType, WorkspaceAssumption
  <2>3. QED
    BY <2>2 DEF PagesSeen
<1>6. QED
  BY <1>3, <1>4, <1>5

(* A measure goes on: of the pages it keeps the least sizes.               *)
LEMMA SeenPages ==
  ASSUME TypeInv, TypeInv', Measure, NEW v \in Worker, Measuring(v), Measuring(v)'
  PROVE  \A p \in Page : low'[v][p] = Least(low[v][p], page'[p])
<1>1. low'[v] = [f \in Files |-> Least(low[v][f], Size'[f])]
  BY DEF Measure
<1>2. \A p \in Page : Size'[p] = page'[p]
  BY DEF Size, Files
<1>3. QED
  BY <1>1, <1>2 DEF Files

LEMMA SeenStays ==
  ASSUME TypeInv, TypeInv', Measure, GrantInv, page' = page,
         NEW v \in Worker, Measuring(v), Measuring(v)'
  PROVE  PagesSeen(v)' = PagesSeen(v)
<1>1. \A p \in Page : low[v][p] <= page[p] /\ low[v][p] \in Nat /\ page[p] \in Nat
  BY DEF GrantInv, Measurers, TypeInv, TypeOK, Files
<1>2. \A p \in Page : low'[v][p] = low[v][p]
  BY <1>1, SeenPages DEF Least
<1>3. QED
  BY <1>2 DEF PagesSeen

(* What a page shrinks by, a measure may lose; nothing else.               *)
LEMMA SeenChanges ==
  ASSUME TypeInv, TypeInv', Measure, GrantInv, NEW p \in Page, NEW n \in Nat,
         page' = [page EXCEPT ![p] = n],
         NEW v \in Worker, Measuring(v), Measuring(v)'
  PROVE  \/ PagesSeen(v)' = PagesSeen(v)
         \/ n < page[p] /\ PagesSeen(v)' >= PagesSeen(v) - page[p] + n
<1> DEFINE f == [q \in Page |-> low[v][q]]
<1>1. \A q \in Page : low[v][q] <= page[q] /\ low[v][q] \in Nat /\ page[q] \in Nat
  BY DEF GrantInv, Measurers, TypeInv, TypeOK, Files
<1>2. f \in [Page -> Nat] /\ Total(f) \in Nat
  BY <1>1, TotalType, WorkspaceAssumption
<1>3. page' \in [Page -> Nat] /\ \A q \in Page \ {p} : page'[q] = page[q]
  BY DEF TypeInv, TypeOK
<1>4. page'[p] = n
  BY DEF TypeInv, TypeOK
<1>5. [q \in Page |-> low'[v][q]] = [f EXCEPT ![p] = Least(f[p], n)]
  <2>1. \A q \in Page \ {p} : low'[v][q] = f[q]
    BY <1>1, <1>3, SeenPages DEF Least
  <2>2. low'[v][p] = Least(f[p], n)
    BY <1>4, SeenPages
  <2>3. QED
    BY <2>1, <2>2
<1>6. Least(f[p], n) \in Nat
  BY <1>2 DEF Least
<1>7. PagesSeen(v)' = Total(f) - f[p] + Least(f[p], n)
  <2>1. PagesSeen(v)' = Total([f EXCEPT ![p] = Least(f[p], n)])
    BY <1>5 DEF PagesSeen
  <2>2. QED
    BY <1>2, <1>6, <2>1, TotalExcept, WorkspaceAssumption
<1>8. PagesSeen(v) = Total(f)
  BY DEF PagesSeen
<1>9. f[p] \in Nat /\ f[p] <= page[p] /\ page[p] \in Nat
  BY <1>1
<1> HIDE DEF f
<1>10. QED
  BY <1>2, <1>7, <1>8, <1>9 DEF Least

(* After every step the least sizes are no more than the sizes.            *)
LEMMA SeenIsThere ==
  ASSUME TypeInv, TypeInv', Measure
  PROVE  \A w \in Measurers', p \in Page : low'[w][p] <= page'[p]
<1> SUFFICES ASSUME NEW w \in Measurers', NEW p \in Page
             PROVE  low'[w][p] <= page'[p]
  OBVIOUS
<1>1. w \in Worker /\ Measuring(w)'
  BY DEF Measurers
<1>2. /\ low[w][p] \in Nat /\ page'[p] \in Nat /\ p \in Files
  BY <1>1 DEF TypeInv, TypeOK, Files
<1>3. Size'[p] = page'[p]
  BY <1>2 DEF Size
<1>4. CASE Measuring(w)
  BY <1>1, <1>2, <1>4, SeenPages DEF Least
<1>5. CASE ~Measuring(w)
  <2>1. low'[w] = Size'
    BY <1>1, <1>5 DEF Measure
  <2>2. QED
    BY <1>2, <1>3, <2>1
<1>6. QED
  BY <1>4, <1>5

(* The arithmetic of Bounded: a is written or granted, m measure, and what *)
(* v has seen is seen[v].                                                  *)
Fits(a, m, seen) ==
  LET n == Cardinality(Worker) IN
  \E turn \in [Worker -> 0..n], k \in 0..n :
    /\ \A w \in m : turn[w] \in 1..Cardinality(m)
    /\ \A v, w \in m : turn[v] = turn[w] => v = w
    /\ a + k * MaxUpload < Limit + n * MaxUpload
    /\ \A w \in m : turn[w] > k =>
         a + turn[w] * MaxUpload <= seen[w] + n * MaxUpload
Seen == [w \in Worker |-> PagesSeen(w)]

LEMMA BoundedFits ==
  Bounded <=> Fits(Total(page) + Total(Granted), Measurers, Seen)
<1>1. \A w \in Measurers : Seen[w] = PagesSeen(w)
  BY DEF Seen, Measurers
<1>2. QED
  BY <1>1 DEF Bounded, InTurn, Fits

LEMMA BoundedFitsAfter ==
  ASSUME Fits(Total(page') + Total(Granted)', Measurers', Seen')
  PROVE  Bounded'
<1>1. \A w \in Measurers' : Seen'[w] = PagesSeen(w)'
  BY DEF Seen, Measurers
<1>2. QED
  BY <1>1 DEF Bounded, InTurn, Fits

(* Less is written, and of what a measure knows no more than that is lost. *)
LEMMA FitsLess ==
  ASSUME NEW m \in SUBSET Worker, NEW a \in Nat, NEW b \in Nat,
         NEW s \in [Worker -> Nat], NEW t \in [Worker -> Nat],
         Fits(a, m, s), b <= a, \A v \in m : b - t[v] <= a - s[v]
  PROVE  Fits(b, m, t)
<1> DEFINE n == Cardinality(Worker)
<1>1. PICK turn \in [Worker -> 0..n], k \in 0..n :
        /\ \A w \in m : turn[w] \in 1..Cardinality(m)
        /\ \A v, w \in m : turn[v] = turn[w] => v = w
        /\ a + k * MaxUpload < Limit + n * MaxUpload
        /\ \A w \in m : turn[w] > k =>
             a + turn[w] * MaxUpload <= s[w] + n * MaxUpload
  BY DEF Fits
<1>2. n \in Nat /\ MaxUpload \in Nat /\ Limit \in Nat
  BY FS_CardinalityType, WorkspaceAssumption
<1>3. n * MaxUpload \in Nat /\ k * MaxUpload \in Nat
  BY <1>2
<1>4. b + k * MaxUpload < Limit + n * MaxUpload
  BY <1>1, <1>2, <1>3
<1>5. ASSUME NEW w \in m, turn[w] > k
      PROVE  b + turn[w] * MaxUpload <= t[w] + n * MaxUpload
  <2>1. turn[w] * MaxUpload \in Nat /\ s[w] \in Nat /\ t[w] \in Nat
    BY <1>2
  <2>2. a + turn[w] * MaxUpload <= s[w] + n * MaxUpload
    BY <1>1, <1>5
  <2>3. b - t[w] <= a - s[w]
    OBVIOUS
  <2>4. QED
    BY <1>3, <2>1, <2>2, <2>3
<1>6. QED
  BY <1>1, <1>4, <1>5 DEF Fits

(* w begins to measure: it is the last in turn, and knows of every page.   *)
LEMMA FitsJoined ==
  ASSUME NEW m \in SUBSET Worker, NEW a \in Nat, NEW w \in Worker \ m,
         NEW s \in [Worker -> Nat], NEW t \in [Worker -> Nat],
         Fits(a, m, s), \A v \in m : t[v] = s[v],
         a + (Cardinality(m) + 1) * MaxUpload
           <= t[w] + Cardinality(Worker) * MaxUpload
  PROVE  Fits(a, m \cup {w}, t)
<1> DEFINE n == Cardinality(Worker)
           h == Cardinality(m)
<1>1. PICK turn \in [Worker -> 0..n], k \in 0..n :
        /\ \A v \in m : turn[v] \in 1..h
        /\ \A u, v \in m : turn[u] = turn[v] => u = v
        /\ a + k * MaxUpload < Limit + n * MaxUpload
        /\ \A v \in m : turn[v] > k =>
             a + turn[v] * MaxUpload <= s[v] + n * MaxUpload
  BY DEF Fits
<1>2. /\ n \in Nat /\ h \in Nat /\ h + 1 <= n
      /\ Cardinality(m \cup {w}) = h + 1
  <2>1. IsFiniteSet(Worker) /\ IsFiniteSet(m)
    BY FS_Subset, WorkspaceAssumption
  <2>2. Cardinality(m \cup {w}) = h + 1
    BY <2>1, FS_AddElement
  <2>3. Cardinality(m \cup {w}) <= n
    BY <2>1, FS_Subset
  <2>4. QED
    BY <2>1, <2>2, <2>3, FS_CardinalityType
<1> DEFINE turns == [turn EXCEPT ![w] = h + 1]
<1> HIDE DEF n, h
<1>3. turns \in [Worker -> 0..n] /\ turns[w] = h + 1
      /\ \A v \in m : turns[v] = turn[v]
  BY <1>2
<1> HIDE DEF turns
<1>4. \A v \in m \cup {w} : turns[v] \in 1..(h + 1)
  BY <1>1, <1>2, <1>3
<1>5. \A u, v \in m \cup {w} : turns[u] = turns[v] => u = v
  <2>1. \A v \in m : turns[v] # turns[w]
    BY <1>1, <1>2, <1>3
  <2>2. QED
    BY <1>1, <1>3, <2>1
<1>6. \A v \in m \cup {w} : turns[v] > k =>
        a + turns[v] * MaxUpload <= t[v] + n * MaxUpload
  BY <1>1, <1>3 DEF n, h
<1>7. QED
  BY <1>1, <1>2, <1>3, <1>4, <1>5, <1>6 DEF Fits, n

(* w ends its measure and is granted g, for which what it knows of leaves  *)
(* room: those that began after it move up.                                *)
LEMMA FitsLeft ==
  ASSUME NEW m \in SUBSET Worker, NEW a \in Nat, NEW g \in Nat, NEW w \in m,
         NEW s \in [Worker -> Nat], NEW t \in [Worker -> Nat],
         Fits(a, m, s), \A v \in m \ {w} : t[v] = s[v],
         g <= MaxUpload, g = 0 \/ s[w] + g < Limit + MaxUpload
  PROVE  Fits(a + g, m \ {w}, t)
<1> DEFINE n == Cardinality(Worker)
           h == Cardinality(m)
           K == n * MaxUpload
<1>1. PICK turn \in [Worker -> 0..n], k \in 0..n :
        /\ \A v \in m : turn[v] \in 1..h
        /\ \A u, v \in m : turn[u] = turn[v] => u = v
        /\ a + k * MaxUpload < Limit + n * MaxUpload
        /\ \A v \in m : turn[v] > k =>
             a + turn[v] * MaxUpload <= s[v] + n * MaxUpload
  BY DEF Fits
<1>2. n \in Nat /\ h \in Nat /\ Cardinality(m \ {w}) = h - 1
  <2>1. IsFiniteSet(Worker) /\ IsFiniteSet(m)
    BY FS_Subset, WorkspaceAssumption
  <2>2. QED
    BY <2>1, FS_RemoveElement, FS_CardinalityType
<1>3. MaxUpload \in Nat /\ MaxUpload > 0 /\ Limit \in Nat
  BY WorkspaceAssumption
<1>4. K \in Nat
  BY <1>2, <1>3
<1> DEFINE turns == [v \in Worker |-> IF turn[v] > turn[w] THEN turn[v] - 1
                                                           ELSE turn[v]]
           last == IF turn[w] <= k THEN k - 1
                   ELSE IF g = 0 THEN k ELSE turn[w] - 1
<1>5. turn[w] \in 1..h /\ turn[w] \in 0..n
  BY <1>1
<1>6. turns \in [Worker -> 0..n] /\ last \in 0..n
  BY <1>2, <1>5
<1>7. \A v \in m \ {w} : turns[v] \in 1..(h - 1)
  BY <1>1, <1>2, <1>5
<1>8. \A u, v \in m \ {w} : turns[u] = turns[v] => u = v
  BY <1>1, <1>5
<1>9. /\ a + k * MaxUpload < Limit + K
      /\ \A v \in m : turn[v] > k => a + turn[v] * MaxUpload <= s[v] + K
  BY <1>1
<1>10. \A i \in Nat : i * MaxUpload \in Nat /\ (i + 1) * MaxUpload = i * MaxUpload + MaxUpload
  BY <1>3
<1>11. \A i \in Nat \ {0} : i * MaxUpload = (i - 1) * MaxUpload + MaxUpload
  <2>1. TAKE i \in Nat \ {0}
  <2>2. i - 1 \in Nat /\ (i - 1) + 1 = i
    OBVIOUS
  <2>3. QED
    BY <1>10, <2>2
<1>12. (a + g) + last * MaxUpload < Limit + K
  <2>1. CASE turn[w] <= k
    <3>1. k \in Nat \ {0} /\ last = k - 1
      BY <1>5, <2>1
    <3>2. k * MaxUpload = last * MaxUpload + MaxUpload /\ last * MaxUpload \in Nat
      BY <1>10, <1>11, <3>1
    <3> HIDE DEF K, last
    <3>3. QED
      BY <1>3, <1>4, <1>9, <3>2
  <2>2. CASE turn[w] > k /\ g = 0
    BY <1>9, <2>2
  <2>3. CASE turn[w] > k /\ g # 0
    <3>1. turn[w] \in Nat \ {0} /\ last = turn[w] - 1
          /\ s[w] + g < Limit + MaxUpload
      BY <1>5, <2>3
    <3>2. turn[w] * MaxUpload = last * MaxUpload + MaxUpload
          /\ last * MaxUpload \in Nat
      BY <1>10, <1>11, <3>1
    <3>3. a + turn[w] * MaxUpload <= s[w] + K /\ s[w] \in Nat
      BY <1>9, <2>3
    <3> HIDE DEF K, last
    <3>4. QED
      BY <1>3, <1>4, <3>1, <3>2, <3>3
  <2>4. QED
    BY <1>5, <2>1, <2>2, <2>3
<1>13. ASSUME NEW v \in m \ {w}, turns[v] > last
       PROVE  (a + g) + turns[v] * MaxUpload <= t[v] + K
  <2>1. turn[v] \in 1..h /\ turn[v] # turn[w] /\ t[v] = s[v] /\ s[v] \in Nat
    BY <1>1
  <2>2. CASE turn[v] > turn[w]
    <3>1. turns[v] = turn[v] - 1 /\ turn[v] \in Nat \ {0} /\ turn[v] > k
      BY <1>5, <1>13, <2>1, <2>2
    <3>2. turn[v] * MaxUpload = turns[v] * MaxUpload + MaxUpload
          /\ turns[v] * MaxUpload \in Nat
      BY <1>10, <1>11, <3>1
    <3>3. a + turn[v] * MaxUpload <= s[v] + K
      BY <1>9, <3>1
    <3> HIDE DEF K, turns
    <3>4. QED
      BY <1>3, <1>4, <2>1, <3>2, <3>3
  <2>3. CASE turn[v] < turn[w]
    <3>1. turns[v] = turn[v] /\ g = 0 /\ turn[v] > k
      BY <1>5, <1>13, <2>1, <2>3
    <3>2. a + turn[v] * MaxUpload <= s[v] + K
      BY <1>9, <3>1
    <3> HIDE DEF K, turns
    <3>3. QED
      BY <2>1, <3>1, <3>2
  <2>4. QED
    BY <1>5, <2>1, <2>2, <2>3
<1> HIDE DEF turns, last
<1>14. QED
  BY <1>2, <1>6, <1>7, <1>8, <1>12, <1>13 DEF Fits

(* A page takes another size, or the place of another page.                *)
LEMMA PageSums ==
  ASSUME NEW f \in [Page -> Nat], NEW p \in Page, NEW n \in Nat
  PROVE  /\ Total([f EXCEPT ![p] = n]) = Total(f) - f[p] + n
         /\ Total(f) \in Nat
<1>1. IsFiniteSet(Page)
  BY WorkspaceAssumption
<1>2. Total([f EXCEPT ![p] = n]) = Total(f) - f[p] + n
  BY <1>1, TotalExcept
<1>3. Total(f) \in Nat
  BY <1>1, TotalType
<1>4. QED
  BY <1>2, <1>3

(* What a step must show to keep the bound.                                *)
LEMMA GrantParts ==
  ASSUME TypeInv, TypeInv', Measure, \A v \in Worker : Grant(call'[v]) <= MaxUpload,
         ~slipped' => Bounded'
  PROVE  GrantInv'
BY SeenIsThere DEF GrantInv, Granted

(* What the measures know is a number for each.                            *)
LEMMA SeenIsTyped ==
  ASSUME TypeInv, TypeInv'
  PROVE  Seen \in [Worker -> Nat] /\ Seen' \in [Worker -> Nat]
<1>1. \A v \in Worker : PagesSeen(v) \in Nat
  BY SeenType
<1>2. \A v \in Worker : PagesSeen(v)' \in Nat
  BY SeenTypeAfter
<1>3. QED
  BY <1>1, <1>2 DEF Seen

(* Nobody begins or ends a measure, and w writes no more than it was       *)
(* granted.                                                                *)
LEMMA GrantKept ==
  ASSUME TypeInv, TypeInv', GrantInv, Measure, slipped => slipped', NEW w \in Worker,
         \A v \in Worker \ {w} : Grant(call'[v]) = Grant(call[v]),
         \A v \in Worker : Measuring(v)' <=> Measuring(v),
         Grant(call'[w]) <= Grant(call[w]),
         \/ page' = page
         \/ \E p \in Page, n \in Nat :
              /\ page' = [page EXCEPT ![p] = n]
              /\ n + Grant(call'[w]) <= page[p] + Grant(call[w])
  PROVE  GrantInv'
<1> DEFINE a == Total(page) + Total(Granted)
           b == Total(page') + Total(Granted)'
           g == Grant(call[w])
           h == Grant(call'[w])
<1>1. /\ Total(page) \in Nat /\ Total(page') \in Nat /\ Total(Granted) \in Nat
      /\ g \in Nat /\ h \in Nat /\ Total(Granted)' = Total(Granted) - g + h
  BY GrantsOfOne
<1>2. a \in Nat /\ b \in Nat
  <2>1. Total(Granted)' \in Nat
    BY SeenTypeAfter
  <2>2. QED
    BY <1>1, <2>1
<1>3. \A v \in Worker : Grant(call'[v]) <= MaxUpload
  <2>1. Grant(call[w]) <= MaxUpload /\ \A v \in Worker \ {w} : Grant(call[v]) <= MaxUpload
    BY DEF GrantInv, Granted
  <2>2. Grant(call'[w]) <= MaxUpload
    BY <1>1, <2>1, WorkspaceAssumption
  <2>3. QED
    BY <2>1, <2>2
<1>4. Measurers' = Measurers
  BY DEF Measurers
<1>5. /\ b <= a
      /\ \A v \in Measurers : b - Seen'[v] <= a - Seen[v]
  <2>1. CASE page' = page
    <3>1. b <= a
      BY <1>1, <2>1
    <3>2. ASSUME NEW v \in Measurers PROVE b - Seen'[v] <= a - Seen[v]
      <4>1. v \in Worker /\ Measuring(v) /\ Measuring(v)'
        BY DEF Measurers
      <4>2. PagesSeen(v)' = PagesSeen(v)
        BY <2>1, <4>1, SeenStays
      <4>3. Seen'[v] = Seen[v] /\ Seen[v] \in Nat
        BY <4>1, <4>2, SeenIsTyped DEF Seen
      <4> HIDE DEF a, b
      <4>4. QED
        BY <1>2, <3>1, <4>3
    <3>3. QED
      BY <3>1, <3>2
  <2>2. ASSUME NEW p \in Page, NEW n \in Nat, page' = [page EXCEPT ![p] = n],
               n + h <= page[p] + g
        PROVE  b <= a /\ \A v \in Measurers : b - Seen'[v] <= a - Seen[v]
    <3>1. page \in [Page -> Nat] /\ page[p] \in Nat
      BY DEF TypeInv, TypeOK
    <3>2. Total(page') = Total(page) - page[p] + n
      <4>1. Total([page EXCEPT ![p] = n]) = Total(page) - page[p] + n
        BY <3>1, PageSums
      <4>2. QED
        BY <2>2, <4>1
    <3>3. b = a - page[p] - g + n + h
      BY <1>1, <3>1, <3>2
    <3> HIDE DEF a, b, g, h
    <3>4. b <= a
      BY <1>1, <1>2, <2>2, <3>1, <3>3
    <3>5. ASSUME NEW v \in Measurers PROVE b - Seen'[v] <= a - Seen[v]
      <4>1. v \in Worker /\ Measuring(v) /\ Measuring(v)'
        BY DEF Measurers
      <4>2. \/ PagesSeen(v)' = PagesSeen(v)
            \/ n < page[p] /\ PagesSeen(v)' >= PagesSeen(v) - page[p] + n
        BY <2>2, <4>1, SeenChanges
      <4>3. Seen'[v] = PagesSeen(v)' /\ Seen[v] = PagesSeen(v)
        BY <4>1 DEF Seen
      <4>4. Seen'[v] \in Nat /\ Seen[v] \in Nat
        BY <4>1, SeenIsTyped
      <4>5. h <= g
        BY DEF g, h
      <4>6. CASE Seen'[v] = Seen[v]
        BY <1>2, <3>4, <4>4, <4>6
      <4>7. CASE Seen'[v] >= Seen[v] - page[p] + n
        BY <1>1, <1>2, <3>1, <3>3, <4>4, <4>5, <4>7
      <4>8. QED
        BY <4>2, <4>3, <4>6, <4>7
    <3>6. QED
      BY <3>4, <3>5
  <2>3. QED
    BY <2>1, <2>2
<1> HIDE DEF g, h
<1>6. ~slipped' => Bounded'
  <2>1. SUFFICES ASSUME ~slipped' PROVE Bounded'
    OBVIOUS
  <2>2. Fits(a, Measurers, Seen)
    BY <2>1, BoundedFits DEF GrantInv
  <2>3. Measurers \in SUBSET Worker
    BY DEF Measurers
  <2> HIDE DEF a, b
  <2>4. Fits(b, Measurers, Seen')
    BY <1>2, <1>5, <2>2, <2>3, SeenIsTyped, FitsLess
  <2>5. Fits(b, Measurers', Seen')
    BY <1>4, <2>4
  <2>6. QED
    BY <2>5, BoundedFitsAfter DEF b
<1>7. QED
  BY <1>3, <1>6, GrantParts

(* w begins to measure: the grants are those of workers that do not.       *)
LEMMA GrantBegins ==
  ASSUME TypeInv, TypeInv', GrantInv, Measure, slipped => slipped', NEW w \in Worker,
         call[w].at = "rest", call'[w].at = "check", page' = page,
         \A v \in Worker \ {w} : call'[v] = call[v]
  PROVE  GrantInv'
<1> DEFINE a == Total(page) + Total(Granted)
           m == Measurers
           n == Cardinality(Worker)
<1>1. \A v \in Worker : call[v] \in Calls /\ call'[v] \in Calls
  BY DEF TypeInv, TypeOK
<1>2. Grant(call[w]) = 0 /\ Grant(call'[w]) = 0
  BY <1>1, GrantType DEF Granting
<1>3. /\ Total(page) \in Nat /\ Total(Granted) \in Nat
      /\ Total(Granted)' = Total(Granted)
  BY <1>2, GrantsOfOne
<1>4. \A v \in Worker : Grant(call'[v]) <= MaxUpload
  BY <1>2, WorkspaceAssumption DEF GrantInv, Granted
<1>5. w \notin m /\ m \in SUBSET Worker /\ Measurers' = m \cup {w}
  BY DEF Measurers, Measuring
<1>6. Total(Granted) <= Cardinality(Worker \ (m \cup {w})) * MaxUpload
  <2>1. Granted \in [Worker -> Nat] /\ \A v \in Worker : Granted[v] <= MaxUpload
    BY <1>1, GrantType DEF Granted, GrantInv
  <2>2. \A v \in m \cup {w} : Granted[v] = 0
    BY <1>1, <1>2, GrantType DEF Granted, Granting, Measurers, Measuring
  <2>3. MaxUpload \in Nat /\ IsFiniteSet(Worker)
    BY WorkspaceAssumption
  <2> DEFINE T == Worker \ (m \cup {w})
  <2>4. /\ T \in SUBSET Worker
        /\ \A v \in Worker \ T : Granted[v] = 0
        /\ \A v \in T : Granted[v] <= MaxUpload
    BY <1>5, <2>1, <2>2
  <2> HIDE DEF T
  <2>5. Total(Granted) <= Cardinality(T) * MaxUpload
    BY <2>1, <2>3, <2>4, TotalOfSome
  <2>6. QED
    BY <2>5 DEF T
<1>7. /\ Cardinality(Worker \ (m \cup {w})) = n - (Cardinality(m) + 1)
      /\ n \in Nat /\ Cardinality(m) \in Nat
      /\ Cardinality(Worker \ (m \cup {w})) \in Nat
  <2>1. IsFiniteSet(Worker) /\ IsFiniteSet(m) /\ IsFiniteSet(m \cup {w})
    BY <1>5, FS_Subset, WorkspaceAssumption
  <2>2. Cardinality(m \cup {w}) = Cardinality(m) + 1
    BY <1>5, <2>1, FS_AddElement
  <2>3. /\ IsFiniteSet(Worker \ (m \cup {w}))
        /\ Cardinality(Worker \ (m \cup {w})) = n - Cardinality(Worker \cap (m \cup {w}))
    BY <2>1, FS_Difference
  <2>4. Worker \cap (m \cup {w}) = m \cup {w}
    BY <1>5
  <2>5. QED
    BY <2>1, <2>2, <2>3, <2>4, FS_CardinalityType
<1>8. Seen'[w] = Total(page)
  <2>1. low'[w] = Size'
    BY DEF Measure, Measuring
  <2>2. [p \in Page |-> low'[w][p]] = page'
    <3>1. \A p \in Page : Size'[p] = page'[p]
      BY DEF Size, Files
    <3>2. page' \in [Page -> Nat]
      BY DEF TypeInv, TypeOK
    <3>3. QED
      BY <2>1, <3>1, <3>2
  <2>3. Total([p \in Page |-> low'[w][p]]) = Total(page)
    BY <2>2
  <2>4. QED
    BY <2>3 DEF Seen, PagesSeen
<1>9. \A v \in m : Seen'[v] = Seen[v]
  <2>1. ASSUME NEW v \in m PROVE Seen'[v] = Seen[v]
    <3>1. v \in Worker /\ Measuring(v) /\ Measuring(v)'
      BY <1>5 DEF Measurers, Measuring
    <3>2. PagesSeen(v)' = PagesSeen(v)
      BY <3>1, SeenStays
    <3>3. QED
      BY <3>1, <3>2 DEF Seen
  <2>2. QED
    BY <2>1
<1>10. a + (Cardinality(m) + 1) * MaxUpload <= Seen'[w] + n * MaxUpload
  <2> DEFINE j == Cardinality(m) + 1
             i == Cardinality(Worker \ (m \cup {w}))
  <2>1. i = n - j /\ j \in Nat /\ i \in Nat /\ n \in Nat
    BY <1>7
  <2>2. Total(Granted) <= i * MaxUpload
    BY <1>6
  <2> HIDE DEF i, j, n
  <2>3. i * MaxUpload \in Nat /\ j * MaxUpload \in Nat /\ n = i + j
    BY <2>1, WorkspaceAssumption
  <2>4. n * MaxUpload = i * MaxUpload + j * MaxUpload
    BY <2>1, <2>3, WorkspaceAssumption
  <2>5. QED
    BY <1>3, <1>8, <2>2, <2>3, <2>4 DEF j
<1>11. ~slipped' => Bounded'
  <2>1. SUFFICES ASSUME ~slipped' PROVE Bounded'
    OBVIOUS
  <2>2. Fits(a, m, Seen)
    BY <2>1, BoundedFits DEF GrantInv
  <2>3. a \in Nat /\ w \in Worker \ m
    BY <1>3, <1>5
  <2>4. Total(page') + Total(Granted)' = a
    BY <1>3
  <2> HIDE DEF a, m
  <2>5. Fits(a, m \cup {w}, Seen')
    BY <1>5, <1>9, <1>10, <2>2, <2>3, SeenIsTyped, FitsJoined
  <2>6. Fits(Total(page') + Total(Granted)', Measurers', Seen')
    BY <1>5, <2>4, <2>5
  <2>7. QED
    BY <2>6, BoundedFitsAfter
<1>12. QED
  BY <1>4, <1>11, GrantParts

(* w ends its measure: it is killed, refused or granted what it asked for. *)
LEMMA GrantEnds ==
  ASSUME TypeInv, TypeInv', GrantInv, Measure, slipped => slipped', NEW w \in Worker,
         call[w].at = "check", call'[w].at # "check", page' = page,
         \A v \in Worker \ {w} : call'[v] = call[v],
         Grant(call'[w]) <= MaxUpload,
         \/ Grant(call'[w]) = 0
         \/ Counted(w) + Grant(call'[w]) < Limit + MaxUpload
  PROVE  GrantInv'
<1> DEFINE a == Total(page) + Total(Granted)
           g == Grant(call'[w])
           m == Measurers
<1>1. \A v \in Worker : call[v] \in Calls /\ call'[v] \in Calls
  BY DEF TypeInv, TypeOK
<1>2. Grant(call[w]) = 0 /\ g \in Nat
  BY <1>1, GrantType DEF Granting
<1>3. /\ Total(page) \in Nat /\ Total(Granted) \in Nat
      /\ Total(Granted)' = Total(Granted) + g
  BY <1>2, GrantsOfOne
<1>4. \A v \in Worker : Grant(call'[v]) <= MaxUpload
  BY <1>2, WorkspaceAssumption DEF GrantInv, Granted
<1>5. w \in m /\ m \in SUBSET Worker /\ Measurers' = m \ {w}
  BY DEF Measurers, Measuring
<1>6. \A v \in m \ {w} : Seen'[v] = Seen[v]
  <2>1. ASSUME NEW v \in m \ {w} PROVE Seen'[v] = Seen[v]
    <3>1. v \in Worker /\ Measuring(v) /\ Measuring(v)'
      BY <1>5 DEF Measurers, Measuring
    <3>2. PagesSeen(v)' = PagesSeen(v)
      BY <3>1, SeenStays
    <3>3. QED
      BY <3>1, <3>2 DEF Seen
  <2>2. QED
    BY <2>1
<1>7. Seen[w] <= Counted(w) /\ Seen[w] \in Nat /\ Counted(w) \in Nat
  <2>1. IsFiniteSet(Files) /\ Page \in SUBSET Files
    BY FS_Union, WorkspaceAssumption DEF Files
  <2>2. low[w] \in [Files -> Nat]
    BY DEF TypeInv, TypeOK
  <2>3. Total([p \in Page |-> low[w][p]]) <= Total(low[w]) /\ Total(low[w]) \in Nat
    BY <2>1, <2>2, TotalOfPart, TotalType
  <2>4. QED
    BY <2>3, SeenIsTyped DEF Seen, PagesSeen, Counted
<1>8. g = 0 \/ Seen[w] + g < Limit + MaxUpload
  <2>1. Limit \in Nat /\ MaxUpload \in Nat
    BY WorkspaceAssumption
  <2> HIDE DEF g
  <2>2. g = 0 \/ Counted(w) + g < Limit + MaxUpload
    BY DEF g
  <2>3. QED
    BY <1>2, <1>7, <2>1, <2>2
<1>9. ~slipped' => Bounded'
  <2>1. SUFFICES ASSUME ~slipped' PROVE Bounded'
    OBVIOUS
  <2>2. Fits(a, m, Seen)
    BY <2>1, BoundedFits DEF GrantInv
  <2>3. a \in Nat
    BY <1>3
  <2>4. Total(page') + Total(Granted)' = a + g
    BY <1>2, <1>3
  <2>5. g <= MaxUpload
    OBVIOUS
  <2> HIDE DEF a, m, g
  <2>6. Fits(a + g, m \ {w}, Seen')
    BY <1>2, <1>5, <1>6, <1>8, <2>2, <2>3, <2>5, SeenIsTyped, FitsLeft
  <2>7. Fits(Total(page') + Total(Granted)', Measurers', Seen')
    BY <1>5, <2>4, <2>6
  <2>8. QED
    BY <2>7, BoundedFitsAfter
<1>10. QED
  BY <1>4, <1>9, GrantParts

(* Of the steps that work on drafts, a publish begins to measure, and a    *)
(* draft that was moved may be written where it is now; the others leave   *)
(* pages and grants as they are.                                           *)
LEMMA GrantDrafts ==
  ASSUME TypeInv, TypeInv', GrantInv, Measure, slipped' = slipped,
         NEW w \in Worker, DraftStep(w)
  PROVE  GrantInv'
<1> DEFINE Same == \A v \in Worker \ {w} : call'[v] = call[v]
<1>1. /\ call \in [Worker -> Calls] /\ call' \in [Worker -> Calls]
      /\ call[w] \in Calls /\ Resting \in Calls
  BY RestingIsCall DEF TypeInv, TypeOK
<1>2. ASSUME page' = page, Same, call[w].at \notin Granting \cup {"check"},
             call'[w].at \notin Granting \cup {"check"}
      PROVE  GrantInv'
  <2>1. Grant(call[w]) = 0 /\ Grant(call'[w]) = 0
    BY <1>1, <1>2, GrantType
  <2>2. \A v \in Worker : Measuring(v)' <=> Measuring(v)
    BY <1>2 DEF Measuring
  <2>3. QED
    BY <1>2, <2>1, <2>2, GrantKept
<1>3. CASE ExpireUnlinks(w) \/ Discard(w)
  <2> DEFINE d == call[w].on
  <2>1. \A v \in Worker \ {w} : call'[v] = Detached(call[v], d)
    BY <1>1, <1>3 DEF ExpireUnlinks, Discard, Detach
  <2>2. /\ \A v \in Worker \ {w} : Grant(call'[v]) = Grant(call[v])
        /\ \A v \in Worker \ {w} : call'[v].at = call[v].at
    <3>1. \A c \in Calls : Grant(Detached(c, d)) = Grant(c) /\ Detached(c, d).at = c.at
      BY DEF Detached, Grant, Calls
    <3>2. QED
      BY <1>1, <2>1, <3>1
  <2>3. call'[w].at \in {"expire", "rest"} /\ call[w].at \in {"unlink", "discard"}
        /\ page' = page
    <3>1. call[w] \in Calls /\ Detached(call[w], d) \in Calls
      BY <1>1 DEF Detached, Calls
    <3>2. CASE ExpireUnlinks(w)
      BY <1>1, <3>1, <3>2 DEF ExpireUnlinks, Detach, Calls
    <3>3. CASE Discard(w)
      BY <1>1, <3>3, RestingIsCall DEF Discard, Detach
    <3>4. QED
      BY <1>3, <3>2, <3>3
  <2>4. Grant(call[w]) = 0 /\ Grant(call'[w]) = 0
    BY <1>1, <2>3, GrantType DEF Granting
  <2>5. \A v \in Worker : Measuring(v)' <=> Measuring(v)
    BY <2>2, <2>3 DEF Measuring
  <2>6. QED
    BY <2>2, <2>3, <2>4, <2>5, GrantKept
<1>4. ASSUME NEW do, Arrive(w, do)
      PROVE  GrantInv'
  <2>1. call[w].at = "rest" /\ call'[w].at = "expire" /\ Same /\ page' = page
    BY <1>1, <1>4 DEF Arrive, Begin, Calls
  <2>2. QED
    BY <1>2, <2>1 DEF Granting
<1>5. ASSUME NEW d \in Draft, ExpireReads(w, d)
      PROVE  GrantInv'
  <2>1. /\ call[w].at = "expire" /\ call'[w].at \in {"unlink", "expire"}
        /\ Same /\ page' = page
    BY <1>1, <1>5 DEF ExpireReads, Continue, Calls
  <2>2. QED
    BY <1>2, <2>1 DEF Granting
<1>6. ASSUME NEW d \in Draft, Count(w, d)
      PROVE  GrantInv'
  <2>1. call[w].at = "expire" /\ page' = page
    BY <1>6 DEF Count
  <2>2. call'[w].at \in {"rest", "open"} /\ Same
    <3>1. CASE Return(w)
      BY <1>1, <3>1, RestingIsCall DEF Return, Continue
    <3>2. CASE Continue(w, [call[w] EXCEPT !.at = "open", !.on = d, !.text = <<1>>])
      BY <1>1, <3>2 DEF Continue, Calls
    <3>3. QED
      BY <1>6, <3>1, <3>2 DEF Count
  <2>3. QED
    BY <1>2, <2>1, <2>2 DEF Granting
<1>7. ASSUME NEW d \in Draft, AddLoads(w, d) \/ AskDiscard(w, d)
      PROVE  GrantInv'
  <2>1. /\ call[w].at = "rest" /\ call'[w].at \in {"open", "discard"}
        /\ Same /\ page' = page
    <3>1. CASE AddLoads(w, d)
      BY <1>1, <3>1 DEF AddLoads, Begin, Calls
    <3>2. CASE AskDiscard(w, d)
      BY <1>1, <3>2 DEF AskDiscard, Begin, Calls
    <3>3. QED
      BY <1>7, <3>1, <3>2
  <2>2. QED
    BY <1>2, <2>1 DEF Granting
<1>8. ASSUME NEW d \in Draft, NEW p \in Page, PublishLoads(w, d, p)
      PROVE  GrantInv'
  <2>1. call[w].at = "rest" /\ call'[w].at = "check" /\ Same /\ page' = page
    BY <1>1, <1>8, RestingIsCall DEF PublishLoads, Begin, Calls
  <2>2. QED
    BY <2>1, GrantBegins
<1>9. CASE Listed(w)
  <2>1. call[w].at = "expire" /\ call'[w].at = "rest" /\ Same /\ page' = page
    BY <1>1, <1>9, RestingIsCall DEF Listed, Return, Continue
  <2>2. QED
    BY <1>2, <2>1 DEF Granting
<1>10. CASE OpenDraft(w)
  <2>1. call[w].at = "open" /\ call'[w].at = "write" /\ Same /\ page' = page
    BY <1>1, <1>10 DEF OpenDraft, Continue, Calls
  <2>2. QED
    BY <1>2, <2>1 DEF Granting
<1>11. CASE WriteDraft(w)
  <2>1. call[w].at = "write" /\ call'[w].at = "rest" /\ Same
    BY <1>1, <1>11, RestingIsCall DEF WriteDraft, Return, Continue
  <2>2. CASE call[w].to = Nothing
    <3>1. page' = page
      BY <1>11, <2>2 DEF WriteDraft
    <3>2. QED
      BY <1>2, <2>1, <3>1 DEF Granting
  <2>3. CASE call[w].to # Nothing
    <3>1. slipped'
      BY <2>1, <2>3 DEF TypeInv, ShapeInv, Shape
    <3>2. Grant(call'[w]) = 0 /\ \A v \in Worker \ {w} : Grant(call'[v]) = Grant(call[v])
      BY <1>1, <2>1, GrantType DEF Granting
    <3>3. \A v \in Worker : Grant(call'[v]) <= MaxUpload
      BY <3>2, WorkspaceAssumption DEF GrantInv, Granted
    <3>4. QED
      BY <3>1, <3>3, GrantParts
  <2>4. QED
    BY <2>2, <2>3
<1>12. QED
  BY <1>3, <1>4, <1>5, <1>6, <1>7, <1>8, <1>9, <1>10, <1>11 DEF DraftStep

(* The check of a page's size or an archive's, and what the disk holds.    *)
LEMMA GrantGiven ==
  ASSUME TypeInv, TypeInv', GrantInv, Measure, slipped' = slipped,
         NEW w \in Worker, Check(w)
  PROVE  GrantInv'
<1> DEFINE c == call[w]
           e == [c EXCEPT !.at = "put"]
<1>1. /\ call \in [Worker -> Calls] /\ c \in Calls /\ Resting \in Calls
      /\ c.at = "check" /\ page' = page
  BY RestingIsCall DEF TypeInv, TypeOK, Check
<1>2. CASE Return(w)
  <2>1. call' = [call EXCEPT ![w] = Resting]
    BY <1>2 DEF Return, Continue
  <2>2. call'[w] = Resting /\ \A v \in Worker \ {w} : call'[v] = call[v]
    BY <1>1, <2>1
  <2>3. Grant(call'[w]) = 0 /\ call'[w].at = "rest"
    BY <1>1, <2>2, RestingIsCall, GrantType DEF Granting
  <2>4. QED
    BY <1>1, <2>2, <2>3, GrantEnds, WorkspaceAssumption
<1>3. CASE Counted(w) + c.size <= Limit /\ c.size <= MaxUpload
           /\ call' = [call EXCEPT ![w] = e]
  <2>1. /\ e.at = "put" /\ e.do = c.do /\ e.size = c.size
    BY <1>1 DEF Calls
  <2>2. call'[w] = e /\ \A v \in Worker \ {w} : call'[v] = call[v]
    BY <1>1, <1>3
  <2>3. c.size \in Nat /\ (c.do = "zip" => c.size > 0)
    BY <1>1 DEF Calls, TypeInv, ShapeInv, Shape
  <2>4. Counted(w) \in Nat /\ Limit \in Nat /\ MaxUpload \in Nat /\ MaxUpload > 0
    <3>1. IsFiniteSet(Files) /\ low[w] \in [Files -> Nat]
      BY FS_Union, WorkspaceAssumption DEF Files, TypeInv, TypeOK
    <3>2. Counted(w) \in Nat
      BY <3>1, TotalType DEF Counted
    <3>3. QED
      BY <3>2, WorkspaceAssumption
  <2> HIDE DEF e
  <2>5. Grant(e) = IF c.do = "zip" THEN MaxUpload ELSE c.size
    BY <2>1 DEF Grant
  <2>6. Grant(e) <= MaxUpload /\ Counted(w) + Grant(e) < Limit + MaxUpload
    <3>1. CASE c.do = "zip"
      BY <1>3, <2>3, <2>4, <2>5, <3>1
    <3>2. CASE c.do # "zip"
      BY <1>3, <2>3, <2>4, <2>5, <3>2
    <3>3. QED
      BY <3>1, <3>2
  <2>7. QED
    BY <1>1, <2>1, <2>2, <2>6, GrantEnds
<1>4. QED
  BY <1>2, <1>3 DEF Check, Continue

(* Of the steps that work on pages, a write uses up what a check granted.  *)
LEMMA GrantPages ==
  ASSUME TypeInv, TypeInv', GrantInv, Measure, slipped' = slipped,
         NEW w \in Worker, PageStep(w)
  PROVE  GrantInv'
<1>1. /\ call \in [Worker -> Calls] /\ call' \in [Worker -> Calls]
      /\ page \in [Page -> Nat] /\ MaxUpload \in Nat /\ call[w] \in Calls
  BY WorkspaceAssumption DEF TypeInv, TypeOK
<1>2. ASSUME NEW p \in Page, NEW n, Opened(w, p, n),
             \/ call[w].at = "extract" /\ call[w].do = "zip" /\ n \in Nat
             \/ call[w].at = "put" /\ call[w].do # "zip" /\ n = call[w].size
      PROVE  GrantInv'
  <2> DEFINE c == call[w]
             e == [c EXCEPT !.at = "fill", !.to = p, !.size = n, !.fd = TRUE,
                            !.left = IF c.do = "zip" THEN @ - n ELSE @]
  <2>1. c \in Calls /\ n \in Nat /\ page' = [page EXCEPT ![p] = 0]
        /\ call' = [call EXCEPT ![w] = e]
    BY <1>1, <1>2 DEF Opened, Continue, Calls
  <2>2. /\ call'[w] = e /\ \A v \in Worker \ {w} : call'[v] = call[v]
        /\ e.at = "fill" /\ e.do = c.do /\ e.size = n
        /\ e.left = IF c.do = "zip" THEN c.left - n ELSE c.left
    BY <1>1, <2>1 DEF Calls
  <2> HIDE DEF e
  <2>3. Grant(e) = Grant(c)
    <3>1. c.left \in Int
      BY <2>1 DEF Calls
    <3>2. QED
      BY <1>2, <2>1, <2>2, <3>1 DEF Grant
  <2>4. page[p] \in Nat /\ Grant(c) \in Nat
    BY <1>1, <2>1, GrantType
  <2>5. \A v \in Worker : Measuring(v)' <=> Measuring(v)
    BY <1>2, <2>2 DEF Measuring
  <2>6. /\ page' = [page EXCEPT ![p] = 0] /\ 0 + Grant(e) <= page[p] + Grant(c)
        /\ Grant(e) <= Grant(c)
    BY <2>1, <2>3, <2>4
  <2>7. QED
    BY <2>2, <2>5, <2>6, GrantKept
<1>3. CASE Fill(w)
  <2> DEFINE c == call[w]
  <2>1. c \in Calls /\ c.at = "fill" /\ c.to \in Page /\ c.size \in Nat /\ c.left \in Nat
    BY <1>1, <1>3 DEF Fill, Calls, TypeInv, ShapeInv, Shape
  <2>2. c.do \in {"publish", "paste", "zip"} /\ Grant(c) <= MaxUpload
    BY <1>3 DEF Fill, TypeInv, ShapeInv, Shape, GrantInv, Granted
  <2>3. \/ page' = page
        \/ page' = [page EXCEPT ![c.to] = Longest(page[c.to], c.size)]
    BY <1>3 DEF Fill
  <2>4. /\ \A v \in Worker \ {w} : call'[v] = call[v]
        /\ Grant(call'[w]) \in Nat /\ Grant(call'[w]) + c.size = Grant(c)
    <3>1. CASE c.do = "paste"
      <4>1. call' = [call EXCEPT ![w] = Resting]
        BY <1>3, <3>1 DEF Fill, Return, Continue
      <4>2. Grant(Resting) = 0
        BY RestingIsCall, GrantType DEF Granting
      <4>3. QED
        BY <1>1, <2>1, <3>1, <4>1, <4>2 DEF Grant
    <3>2. CASE c.do = "publish"
      <4> DEFINE e == [c EXCEPT !.at = "discard", !.fd = FALSE]
      <4>1. call' = [call EXCEPT ![w] = e]
        BY <1>3, <3>2 DEF Fill, Continue
      <4>2. e \in Calls /\ e.at = "discard"
        BY <2>1 DEF Calls, Places
      <4>3. Grant(e) = 0
        BY <4>2, GrantType DEF Granting
      <4>4. Grant(c) = c.size
        BY <2>1, <3>2 DEF Grant
      <4> HIDE DEF e
      <4>5. QED
        BY <1>1, <2>1, <4>1, <4>3, <4>4
    <3>3. CASE c.do = "zip"
      <4> DEFINE e == [c EXCEPT !.at = "extract", !.fd = FALSE, !.size = 0]
      <4>1. call' = [call EXCEPT ![w] = e]
        BY <1>3, <3>3 DEF Fill, Continue
      <4>2. e.at = "extract" /\ e.left = c.left
        BY <2>1 DEF Calls
      <4>3. Grant(e) = c.left
        BY <4>2 DEF Grant
      <4>4. Grant(c) = c.left + c.size
        BY <2>1, <3>3 DEF Grant
      <4> HIDE DEF e
      <4>5. QED
        BY <1>1, <2>1, <4>1, <4>3, <4>4
    <3>4. QED
      BY <2>2, <3>1, <3>2, <3>3
  <2>5. /\ Longest(page[c.to], c.size) \in Nat
        /\ Longest(page[c.to], c.size) <= page[c.to] + c.size /\ page[c.to] \in Nat
    BY <1>1, <2>1 DEF Longest
  <2>6. /\ Grant(call'[w]) <= Grant(c)
        /\ Longest(page[c.to], c.size) + Grant(call'[w]) <= page[c.to] + Grant(c)
    BY <2>1, <2>4, <2>5
  <2>7. \A v \in Worker : Measuring(v)' <=> Measuring(v)
    <3>1. call'[w].at \in {"rest", "discard", "extract"}
      <4>1. CASE call' = [call EXCEPT ![w] = Resting]
        BY <1>1, <4>1, RestingIsCall
      <4>2. CASE call' = [call EXCEPT ![w] = [c EXCEPT !.at = "discard", !.fd = FALSE]]
        BY <1>1, <2>1, <4>2 DEF Calls
      <4>3. CASE call' = [call EXCEPT ![w] = [c EXCEPT !.at = "extract", !.fd = FALSE,
                                                       !.size = 0]]
        BY <1>1, <2>1, <4>3 DEF Calls
      <4>4. QED
        BY <1>3, <2>2, <4>1, <4>2, <4>3 DEF Fill, Return, Continue
    <3>2. QED
      BY <2>1, <2>4, <3>1 DEF Measuring
  <2>8. \A v \in Worker \ {w} : Grant(call'[v]) = Grant(call[v])
    BY <2>4
  <2>9. QED
    BY <2>1, <2>3, <2>5, <2>6, <2>7, <2>8, GrantKept
<1>4. CASE StoreArchive(w)
  <2> DEFINE c == call[w]
             e == [c EXCEPT !.at = "extract", !.archive = c.size, !.left = MaxUpload]
  <2>1. c \in Calls /\ c.at = "put" /\ c.do = "zip" /\ page' = page
        /\ call' = [call EXCEPT ![w] = e]
    BY <1>1, <1>4 DEF StoreArchive, Continue
  <2>2. /\ call'[w] = e /\ \A v \in Worker \ {w} : call'[v] = call[v]
        /\ e.at = "extract" /\ e.left = MaxUpload
    BY <1>1, <2>1 DEF Calls
  <2> HIDE DEF e
  <2>3. Grant(c) = MaxUpload /\ Grant(e) = MaxUpload
    BY <2>1, <2>2 DEF Grant
  <2>4. \A v \in Worker : Measuring(v)' <=> Measuring(v)
    BY <2>1, <2>2 DEF Measuring
  <2>5. QED
    BY <1>1, <2>1, <2>2, <2>3, <2>4, GrantKept
<1>5. ASSUME NEW p \in Page, Delete(w, p)
      PROVE  GrantInv'
  <2>1. \A v \in Worker : call'[v] = Detached(call[v], p)
    BY <1>5 DEF Delete, Detach
  <2>2. \A c \in Calls : Grant(Detached(c, p)) = Grant(c) /\ Detached(c, p).at = c.at
    BY DEF Detached, Grant, Calls
  <2>3. /\ \A v \in Worker : Grant(call'[v]) = Grant(call[v])
        /\ \A v \in Worker : Measuring(v)' <=> Measuring(v)
    BY <1>1, <2>1, <2>2 DEF Measuring
  <2>4. page' = [page EXCEPT ![p] = 0] /\ page[p] \in Nat /\ Grant(call[w]) \in Nat
    BY <1>1, <1>5, GrantType DEF Delete
  <2>5. 0 + Grant(call'[w]) <= page[p] + Grant(call[w])
        /\ Grant(call'[w]) <= Grant(call[w])
    BY <2>3, <2>4
  <2>6. QED
    BY <2>3, <2>4, <2>5, GrantKept
<1>6. CASE ExtractEnds(w)
  <2>1. /\ call[w].at = "extract" /\ page' = page
        /\ call' = [call EXCEPT ![w] = Resting]
    BY <1>6 DEF ExtractEnds, Return, Continue
  <2>2. call'[w] = Resting /\ \A v \in Worker \ {w} : call'[v] = call[v]
    BY <1>1, <2>1
  <2>3. Grant(call'[w]) = 0 /\ Grant(call[w]) \in Nat
    BY <1>1, <2>2, RestingIsCall, GrantType DEF Granting
  <2>4. \A v \in Worker : Measuring(v)' <=> Measuring(v)
    BY <2>1, <2>2, RestingIsCall DEF Measuring
  <2>5. QED
    BY <2>1, <2>2, <2>3, <2>4, GrantKept
<1>7. ASSUME \/ \E p \in Page, n \in 1..MaxUpload : Paste(w, p, n)
             \/ \E n \in 1..MaxUpload : Upload(w, n)
      PROVE  GrantInv'
  <2>1. /\ call[w].at = "rest" /\ call'[w].at = "check" /\ page' = page
        /\ \A v \in Worker \ {w} : call'[v] = call[v]
    <3>1. ASSUME NEW p \in Page, NEW n \in 1..MaxUpload, Paste(w, p, n)
          PROVE  /\ call[w].at = "rest" /\ call'[w].at = "check" /\ page' = page
                 /\ \A v \in Worker \ {w} : call'[v] = call[v]
      BY <1>1, <3>1, RestingIsCall DEF Paste, Begin, Calls
    <3>2. ASSUME NEW n \in 1..MaxUpload, Upload(w, n)
          PROVE  /\ call[w].at = "rest" /\ call'[w].at = "check" /\ page' = page
                 /\ \A v \in Worker \ {w} : call'[v] = call[v]
      BY <1>1, <3>2, RestingIsCall DEF Upload, Begin, Calls
    <3>3. QED
      BY <1>7, <3>1, <3>2
  <2>2. QED
    BY <2>1, GrantBegins
<1>8. Shape(w)
  BY DEF TypeInv, ShapeInv
<1>9. ASSUME NEW p \in Page, NEW n \in 1..MaxUpload, ExtractMember(w, p, n)
      PROVE  GrantInv'
  BY <1>1, <1>2, <1>8, <1>9 DEF ExtractMember, Shape
<1>10. CASE PutPage(w)
  BY <1>1, <1>2, <1>8, <1>10 DEF PutPage, Shape
<1>11. QED
  BY <1>3, <1>4, <1>5, <1>6, <1>7, <1>9, <1>10, GrantGiven DEF PageStep

(* A move keeps what is written; while somebody measures it is recorded.   *)
LEMMA GrantMoves ==
  ASSUME TypeInv, TypeInv', GrantInv, Measure, NEW w \in Worker, NEW p \in Page,
         NEW q \in Page, Move(w, p, q),
         slipped' = (slipped \/ \E v \in Worker : Measuring(v))
  PROVE  GrantInv'
<1> DEFINE a == Total(page) + Total(Granted)
           b == Total(page') + Total(Granted)'
<1>1. /\ call \in [Worker -> Calls] /\ call' \in [Worker -> Calls]
      /\ page \in [Page -> Nat] /\ page' \in [Page -> Nat] /\ IsFiniteSet(Page)
  BY WorkspaceAssumption DEF TypeInv, TypeOK
<1>2. \A v \in Worker : Grant(call'[v]) = Grant(call[v]) /\ call'[v].at = call[v].at
  <2>1. \A c \in Calls :
          /\ Grant(Detached(c, q)) = Grant(c) /\ Detached(c, q).at = c.at
          /\ Grant([c EXCEPT !.to = q]) = Grant(c) /\ [c EXCEPT !.to = q].at = c.at
    BY DEF Detached, Grant, Calls
  <2>2. QED
    BY <1>1, <2>1 DEF Move, Moved
<1>3. Total(page') <= Total(page) /\ Total(page) \in Nat /\ Total(page') \in Nat
  <2> DEFINE f == [page EXCEPT ![p] = 0]
  <2>1. /\ f \in [Page -> Nat] /\ page' = [f EXCEPT ![q] = page[p]]
        /\ f[q] = page[q] /\ page[p] \in Nat /\ page[q] \in Nat
    BY <1>1 DEF Move
  <2>2. Total(f) = Total(page) - page[p] + 0
    BY <1>1, PageSums
  <2> HIDE DEF f
  <2>3. Total([f EXCEPT ![q] = page[p]]) = Total(f) - f[q] + page[p]
    BY <1>1, <2>1, PageSums
  <2>4. Total(page) \in Nat /\ Total(page') \in Nat
    BY <1>1, PageSums
  <2>5. QED
    BY <2>1, <2>2, <2>3, <2>4
<1>4. \A v \in Worker : Grant(call'[v]) <= MaxUpload
  BY <1>2 DEF GrantInv, Granted
<1>5. Total(Granted)' = Total(Granted) /\ Total(Granted) \in Nat
  <2>1. Granted' = Granted
    BY <1>2 DEF Granted
  <2>2. Total(Granted') = Total(Granted)
    BY <2>1
  <2>3. QED
    BY <2>2, SeenType
<1>6. ~slipped' => Bounded'
  <2>1. SUFFICES ASSUME ~slipped' PROVE Bounded'
    OBVIOUS
  <2>2. ~slipped /\ Measurers = {} /\ Measurers' = {}
    BY <1>2, <2>1 DEF Measurers, Measuring
  <2>3. Fits(a, Measurers, Seen)
    BY <2>2, BoundedFits DEF GrantInv
  <2>4. a \in Nat /\ b \in Nat /\ b <= a
    BY <1>3, <1>5
  <2> HIDE DEF a, b
  <2>5. Fits(b, Measurers, Seen')
    BY <2>2, <2>3, <2>4, SeenIsTyped, FitsLess
  <2>6. Fits(b, Measurers', Seen')
    BY <2>2, <2>5
  <2>7. QED
    BY <2>6, BoundedFitsAfter DEF b
<1>7. QED
  BY <1>4, <1>6, GrantParts

(* Every step keeps the bound: a check adds a grant, a write uses it up.   *)
LEMMA GrantStep ==
  ASSUME TypeInv, TypeInv', GrantInv, [Next]_vars
  PROVE  GrantInv'
<1>1. /\ call \in [Worker -> Calls] /\ call' \in [Worker -> Calls]
      /\ Resting \in Calls
  BY RestingIsCall DEF TypeInv, TypeOK
<1>2. ASSUME Measure, page' = page, call' = call, slipped' = slipped
      PROVE  GrantInv'
  <2>1. PICK w \in Worker : TRUE
    BY WorkspaceAssumption
  <2>2. \A v \in Worker : Grant(call[v]) \in Nat
    BY <1>1, GrantType
  <2>3. Grant(call'[w]) <= Grant(call[w])
    BY <1>2, <2>2
  <2>4. \A v \in Worker : Measuring(v)' <=> Measuring(v)
    BY <1>2 DEF Measuring
  <2>5. QED
    BY <1>2, <2>3, <2>4, GrantKept
<1>3. ASSUME NEW w \in Worker, Crash(w), slipped' = slipped, Measure
      PROVE  GrantInv'
  <2>1. page' = page /\ call' = [call EXCEPT ![w] = Resting]
    BY <1>3 DEF Crash
  <2>2. call'[w] = Resting /\ \A v \in Worker \ {w} : call'[v] = call[v]
    BY <1>1, <2>1
  <2>3. /\ Grant(call'[w]) = 0 /\ Grant(call[w]) \in Nat /\ call'[w].at = "rest"
        /\ Grant(call'[w]) <= MaxUpload
    BY <1>1, <2>2, RestingIsCall, GrantType, WorkspaceAssumption DEF Granting
  <2>4. CASE call[w].at = "check"
    BY <1>3, <2>1, <2>2, <2>3, <2>4, GrantEnds
  <2>5. CASE call[w].at # "check"
    <3>1. \A v \in Worker : Measuring(v)' <=> Measuring(v)
      BY <2>2, <2>3, <2>5 DEF Measuring
    <3>2. QED
      BY <1>3, <2>1, <2>2, <2>3, <3>1, GrantKept
  <2>6. QED
    BY <2>4, <2>5
<1>4. ASSUME NEW w \in Worker, NEW d \in Draft, NEW q \in Page, MoveDraft(w, d, q),
             slipped' = TRUE, Measure
      PROVE  GrantInv'
  <2>1. \A c \in Calls :
          Grant(Detached(c, q)) = Grant(c) /\ Grant([c EXCEPT !.to = q]) = Grant(c)
    BY DEF Detached, Grant, Calls
  <2>2. \A v \in Worker : Grant(call'[v]) = Grant(call[v])
    BY <1>1, <1>4, <2>1 DEF MoveDraft, Moved
  <2>3. \A v \in Worker : Grant(call'[v]) <= MaxUpload
    BY <2>2 DEF GrantInv, Granted
  <2>4. QED
    BY <1>4, <2>3, GrantParts
<1>5. CASE Next
  BY <1>2, <1>3, <1>4, <1>5, GrantDrafts, GrantPages, GrantMoves
     DEF Next, Step, Age, Quiet
<1>6. CASE UNCHANGED vars
  BY <1>6 DEF vars, GrantInv, Granted, Measurers, Measuring, Bounded, InTurn, PagesSeen
<1>7. QED
  BY <1>5, <1>6

(* Pages exceed the plan by less than one upload for each worker, whatever *)
(* the walks that measured the workspace missed: what was checked at once, *)
(* and what archives unpack to.  Left out are histories in which a file    *)
(* was moved during a walk, or a draft was moved out of .drafts.           *)
THEOREM BoundedOvershoot == Spec => []OvershootIsUnderWay
<1>1. ASSUME Init PROVE TypeInv /\ GrantInv
  <2> DEFINE n == Cardinality(Worker)
             turn == [w \in Worker |-> 0]
  <2>1. TypeInv /\ \A w \in Worker : call[w] = Resting
    BY <1>1, TypeInit DEF Init
  <2>2. /\ \A w \in Worker : Granted[w] = 0
        /\ \A p \in Page : page[p] = 0
        /\ Granted \in [Worker -> Nat] /\ page \in [Page -> Nat]
    <3>1. Grant(Resting) = 0
      BY RestingIsCall, GrantType DEF Granting
    <3>2. QED
      BY <1>1, <2>1, <3>1 DEF Granted, Init
  <2>3. Total(Granted) = 0 /\ Total(page) = 0
    <3>1. Total(Granted) <= Cardinality({}) * 0 /\ Total(page) <= Cardinality({}) * 0
      BY <2>2, TotalOfSome, WorkspaceAssumption
    <3>2. Total(Granted) \in Nat /\ Total(page) \in Nat /\ Cardinality({}) = 0
      BY <2>1, SeenType, FS_EmptySet
    <3>3. QED
      BY <3>1, <3>2
  <2>4. Measurers = {}
    BY <2>1, RestingIsCall DEF Measurers, Measuring
  <2>5. n \in Nat /\ n # 0 /\ Limit \in Nat /\ MaxUpload \in Nat /\ MaxUpload > 0
    BY FS_CardinalityType, FS_EmptySet, WorkspaceAssumption
  <2> HIDE DEF n
  <2>6. n * MaxUpload > 0 /\ n * MaxUpload \in Nat /\ 0 * MaxUpload = 0
    BY <2>5
  <2>7. turn \in [Worker -> 0..n] /\ 0 \in 0..n
    BY <2>5
  <2>8. (0 + 0) + 0 * MaxUpload < Limit + n * MaxUpload
    BY <2>5, <2>6
  <2> HIDE DEF turn
  <2>9. Fits(0 + 0, {}, Seen)
    BY <2>7, <2>8 DEF Fits, n
  <2>10. Bounded
    BY <2>3, <2>4, <2>9, BoundedFits
  <2>11. QED
    BY <2>1, <2>2, <2>4, <2>5, <2>10 DEF GrantInv
<1>2. TypeInv /\ GrantInv /\ [Next]_vars => TypeInv' /\ GrantInv'
  BY TypeStep, GrantStep
<1>3. TypeInv /\ GrantInv => OvershootIsUnderWay
  <2>1. SUFFICES ASSUME TypeInv, GrantInv, ~slipped
                 PROVE  Total(page) < Limit + Cardinality(Worker) * MaxUpload
    BY DEF OvershootIsUnderWay
  <2>2. PICK turn \in [Worker -> 0..Cardinality(Worker)],
             k \in 0..Cardinality(Worker) :
          Total(page) + Total(Granted) + k * MaxUpload
            < Limit + Cardinality(Worker) * MaxUpload
    BY <2>1 DEF GrantInv, Bounded, InTurn
  <2>3. /\ Total(page) \in Nat /\ Total(Granted) \in Nat /\ Limit \in Nat
        /\ Cardinality(Worker) * MaxUpload \in Nat /\ k * MaxUpload \in Nat
    BY <2>1, SeenType
  <2>4. QED
    BY <2>2, <2>3
<1>4. QED
  BY <1>1, <1>2, <1>3, PTL DEF Spec

----------------------------------------------------------------------------
(* How many drafts there may be                                            *)

Writes == {"open", "write"}

(* The files that are there or coming are among the draft ids.             *)
LEMMA ComingAreDrafts ==
  ASSUME TypeInv
  PROVE  /\ Existing \cup Coming \subseteq Draft /\ IsFiniteSet(Existing \cup Coming)
         /\ Cardinality(Existing \cup Coming) \in Nat
<1>1. Coming \subseteq Draft
  BY DEF Coming, TypeInv, ShapeInv, Shape
<1>2. Existing \cup Coming \subseteq Draft
  BY <1>1 DEF Existing
<1>3. IsFiniteSet(Existing \cup Coming)
  BY <1>2, FS_Subset, WorkspaceAssumption
<1>4. QED
  BY <1>2, <1>3, FS_CardinalityType

(* A step of w after which no other file is there or coming.               *)
LEMMA CapKept ==
  ASSUME TypeInv, TypeInv', CapInv, NEW w \in Worker,
         \A v \in Worker \ {w} : call'[v].at = call[v].at /\ call'[v].on = call[v].on,
         call'[w].at \in Writes => call'[w].on \in Existing \cup Coming,
         Existing' \subseteq Existing \cup Coming
  PROVE  CapInv'
<1>1. (Existing \cup Coming)' \subseteq Existing \cup Coming
  BY DEF Coming, Writes
<1>2. /\ Cardinality((Existing \cup Coming)') <= Cardinality(Existing \cup Coming)
      /\ Cardinality((Existing \cup Coming)') \in Nat
      /\ Cardinality(Existing \cup Coming) \in Nat
  BY <1>1, ComingAreDrafts, FS_Subset, FS_CardinalityType
<1>3. Cardinality(Worker) \in Nat
  BY FS_CardinalityType, WorkspaceAssumption
<1>4. QED
  BY <1>2, <1>3, WorkspaceAssumption DEF CapInv

(* MAX_DRAFTS lets a new draft through: the files that were there, one for *)
(* each other worker, and the new one.                                     *)
LEMMA CapGiven ==
  ASSUME TypeInv, NEW w \in Worker, NEW d \in Draft, draft' = draft,
         Cardinality(Existing) < MaxDrafts,
         \A v \in Worker \ {w} : call'[v] = call[v],
         call'[w].on = d
  PROVE  CapInv'
<1> DEFINE V == {v \in Worker \ {w} : call[v].at \in Writes}
           Others == {call[v].on : v \in V}
           f == [v \in V |-> call[v].on]
<1>1. /\ IsFiniteSet(Worker \ {w}) /\ Cardinality(Worker \ {w}) = Cardinality(Worker) - 1
      /\ Cardinality(Worker) \in Nat
  BY FS_RemoveElement, FS_CardinalityType, WorkspaceAssumption
<1>2. IsFiniteSet(V) /\ Cardinality(V) <= Cardinality(Worker) - 1 /\ Cardinality(V) \in Nat
  <2>1. V \subseteq Worker \ {w}
    OBVIOUS
  <2> HIDE DEF V
  <2>2. QED
    BY <1>1, <2>1, FS_Subset, FS_CardinalityType
<1>3. IsFiniteSet(Others) /\ Cardinality(Others) <= Cardinality(V)
  <2>1. f \in Surjection(V, Others)
    BY DEF Surjection
  <2> HIDE DEF V, Others, f
  <2>2. QED
    BY <1>2, <2>1, FS_Surjection
<1>4. IsFiniteSet(Existing) /\ Cardinality(Existing) \in Nat
  <2>1. Existing \subseteq Draft
    BY DEF Existing
  <2>2. QED
    BY <2>1, FS_Subset, FS_CardinalityType, WorkspaceAssumption
<1>5. (Existing \cup Coming)' \subseteq Existing \cup (Others \cup {d})
  BY DEF Existing, Coming, Writes
<1> HIDE DEF V, Others, f
<1>6. IsFiniteSet(Others \cup {d}) /\ Cardinality(Others \cup {d}) <= Cardinality(Worker)
      /\ Cardinality(Others \cup {d}) \in Nat
  <2>1. IsFiniteSet({d}) /\ Cardinality({d}) = 1
    BY FS_Singleton
  <2>2. /\ IsFiniteSet(Others \cup {d})
        /\ Cardinality(Others \cup {d})
             = Cardinality(Others) + Cardinality({d}) - Cardinality(Others \cap {d})
    BY <1>3, <2>1, FS_Union
  <2>3. IsFiniteSet(Others \cap {d})
    BY <1>3, FS_Subset
  <2>4. Cardinality(Others) \in Nat /\ Cardinality(Others \cap {d}) \in Nat
    BY <1>3, <2>3, FS_CardinalityType
  <2>5. QED
    BY <1>1, <1>2, <1>3, <2>1, <2>2, <2>4, FS_CardinalityType
<1>7. /\ IsFiniteSet(Existing \cup (Others \cup {d}))
      /\ Cardinality(Existing \cup (Others \cup {d})) < MaxDrafts + Cardinality(Worker)
      /\ Cardinality(Existing \cup (Others \cup {d})) \in Nat
  <2> DEFINE A == Existing
             B == Others \cup {d}
  <2>1. /\ IsFiniteSet(A \cup B)
        /\ Cardinality(A \cup B) = Cardinality(A) + Cardinality(B) - Cardinality(A \cap B)
    BY <1>4, <1>6, FS_Union
  <2>2. IsFiniteSet(A \cap B)
    BY <1>4, FS_Subset
  <2>3. Cardinality(A \cap B) \in Nat /\ Cardinality(A \cup B) \in Nat
    BY <2>1, <2>2, FS_CardinalityType
  <2>4. QED
    BY <1>1, <1>4, <1>6, <2>1, <2>3, WorkspaceAssumption
<1>8. Cardinality((Existing \cup Coming)') < MaxDrafts + Cardinality(Worker)
  <2>1. /\ IsFiniteSet((Existing \cup Coming)')
        /\ Cardinality((Existing \cup Coming)') <= Cardinality(Existing \cup (Others \cup {d}))
    BY <1>5, <1>7, FS_Subset
  <2>2. Cardinality((Existing \cup Coming)') \in Nat
    BY <2>1, FS_CardinalityType
  <2>3. QED
    BY <1>1, <1>7, <2>1, <2>2, WorkspaceAssumption
<1>9. QED
  BY <1>8 DEF CapInv

(* Every step keeps the bound.                                             *)
LEMMA CapStep ==
  ASSUME TypeInv, TypeInv', CapInv, [Next]_vars
  PROVE  CapInv'
<1>1. /\ call \in [Worker -> Calls] /\ call' \in [Worker -> Calls] /\ Resting \in Calls
      /\ draft \in [Draft -> Contents \cup {Nothing}]
      /\ \A w \in Worker : Shape(w)
  BY RestingIsCall DEF TypeInv, TypeOK, ShapeInv
<1>2. ASSUME NEW w \in Worker, call'[w].at \notin Writes, draft' = draft,
             \A v \in Worker \ {w} : call'[v] = call[v]
      PROVE  CapInv'
  BY <1>2, CapKept DEF Existing
<1>3. ASSUME NEW w \in Worker, Return(w), draft' = draft PROVE CapInv'
  <2>1. call'[w].at = "rest" /\ \A v \in Worker \ {w} : call'[v] = call[v]
    BY <1>1, <1>3, RestingIsCall DEF Return, Continue
  <2>2. QED
    BY <1>2, <1>3, <2>1 DEF Writes
<1>4. ASSUME NEW w \in Worker, NEW c,
             \/ c = Resting \/ c.at \notin Writes,
             call' = [call EXCEPT ![w] = c], draft' = draft
      PROVE  CapInv'
  <2>1. call'[w] = c /\ \A v \in Worker \ {w} : call'[v] = call[v]
    BY <1>1, <1>4
  <2>2. QED
    BY <1>2, <1>4, <2>1, RestingIsCall DEF Writes
<1>5. ASSUME NEW w \in Worker, NEW d \in Draft, Count(w, d) PROVE CapInv'
  <2>1. CASE Return(w)
    BY <1>3, <1>5, <2>1 DEF Count
  <2>2. CASE ~Return(w)
    <3> DEFINE c == [call[w] EXCEPT !.at = "open", !.on = d, !.text = <<1>>]
    <3>1. /\ ~(Cardinality(Existing) >= MaxDrafts) /\ call' = [call EXCEPT ![w] = c]
          /\ draft' = draft
      BY <1>5, <2>2 DEF Count, Continue
    <3>2. Cardinality(Existing) < MaxDrafts
      <4>1. Existing \subseteq Draft
        BY DEF Existing
      <4>2. Cardinality(Existing) \in Nat
        BY <4>1, FS_Subset, FS_CardinalityType, WorkspaceAssumption
      <4>3. QED
        BY <3>1, <4>2, WorkspaceAssumption
    <3>3. call'[w] = c /\ c.on = d /\ \A v \in Worker \ {w} : call'[v] = call[v]
      BY <1>1, <3>1 DEF Calls
    <3> HIDE DEF c
    <3>4. QED
      BY <3>1, <3>2, <3>3, CapGiven
  <2>3. QED
    BY <2>1, <2>2
<1>6. ASSUME NEW w \in Worker, NEW d \in Draft, AddLoads(w, d) PROVE CapInv'
  <2> DEFINE c == [Resting EXCEPT !.do = "add", !.at = "open", !.on = d,
                                  !.text = Append(draft[d].text, sent[d] + 1)]
  <2>1. call' = [call EXCEPT ![w] = c] /\ draft' = draft /\ d \in Existing
    BY <1>6 DEF AddLoads, Begin, Whole, Existing
  <2>2. call'[w] = c /\ c.on = d /\ \A v \in Worker \ {w} : call'[v] = call[v]
    BY <1>1, <2>1 DEF Calls
  <2> HIDE DEF c
  <2>3. Existing' = Existing
    BY <2>1 DEF Existing
  <2>4. QED
    BY <2>1, <2>2, <2>3, CapKept
<1>7. ASSUME NEW w \in Worker, OpenDraft(w) PROVE CapInv'
  <2> DEFINE d == call[w].on
             c == [call[w] EXCEPT !.at = "write", !.fd = TRUE]
  <2>1. /\ call' = [call EXCEPT ![w] = c] /\ draft' = [draft EXCEPT ![d] = Truncated]
        /\ d \in Coming
    BY <1>7 DEF OpenDraft, Continue, Coming
  <2>2. call'[w] = c /\ c.on = d /\ \A v \in Worker \ {w} : call'[v] = call[v]
    BY <1>1, <2>1 DEF Calls
  <2> HIDE DEF c
  <2>3. Existing' \subseteq Existing \cup Coming
    BY <1>1, <2>1 DEF Existing
  <2>4. QED
    BY <2>1, <2>2, <2>3, CapKept
<1>8. ASSUME NEW w \in Worker, WriteDraft(w) PROVE CapInv'
  <2> DEFINE d == call[w].on
  <2>1. Return(w) /\ (draft' = draft \/ \E x : draft' = [draft EXCEPT ![d] = x])
    BY <1>8 DEF WriteDraft
  <2>2. call'[w].at = "rest" /\ \A v \in Worker \ {w} : call'[v] = call[v]
    BY <1>1, <2>1, RestingIsCall DEF Return, Continue
  <2>3. d \in Coming
    BY <1>8 DEF WriteDraft, Coming
  <2>4. Existing' \subseteq Existing \cup Coming
    BY <1>1, <2>1, <2>3 DEF Existing
  <2>5. QED
    BY <2>2, <2>4, CapKept DEF Writes
<1>9. ASSUME NEW w \in Worker, ExpireUnlinks(w) \/ Discard(w) PROVE CapInv'
  <2> DEFINE d == call[w].on
  <2>1. Existing' \subseteq Existing
    BY <1>1, <1>9 DEF ExpireUnlinks, Discard, Existing
  <2>2. \A v \in Worker \ {w} : call'[v] = Detached(call[v], d)
    BY <1>1, <1>9 DEF ExpireUnlinks, Discard, Detach
  <2>3. \A v \in Worker \ {w} : call'[v].at = call[v].at /\ call'[v].on = call[v].on
    BY <1>1, <2>2 DEF Detached, Calls
  <2>4. call'[w].at \in {"expire", "rest"}
    <3>1. call[w] \in Calls /\ Detached(call[w], d) \in Calls
      BY <1>1 DEF Detached, Calls
    <3>2. CASE ExpireUnlinks(w)
      BY <1>1, <3>1, <3>2 DEF ExpireUnlinks, Detach, Calls
    <3>3. CASE Discard(w)
      BY <1>1, <3>3, RestingIsCall DEF Discard, Detach
    <3>4. QED
      BY <1>9, <3>2, <3>3
  <2>5. QED
    BY <2>1, <2>3, <2>4, CapKept DEF Writes
<1>10. ASSUME NEW w \in Worker, NEW p \in Page, Delete(w, p) PROVE CapInv'
  <2>1. \A v \in Worker : call'[v].at = call[v].at /\ call'[v].on = call[v].on
    <3>1. \A c \in Calls : \A f : Detached(c, f).at = c.at /\ Detached(c, f).on = c.on
      BY DEF Detached, Calls
    <3>2. QED
      BY <1>1, <1>10, <3>1 DEF Delete, Detach
  <2>2. Existing' = Existing /\ Coming' = Coming
    BY <1>10, <2>1 DEF Delete, Existing, Coming, drafts
  <2>3. QED
    BY <2>2 DEF CapInv
<1>11. ASSUME NEW f, NEW q \in Page, Existing' \subseteq Existing,
              call' = Moved(f, q)
       PROVE  CapInv'
  <2>1. \A c \in Calls :
          /\ Detached(c, q).at = c.at /\ Detached(c, q).on = c.on
          /\ [c EXCEPT !.to = q].at = c.at /\ [c EXCEPT !.to = q].on = c.on
    BY DEF Detached, Calls
  <2>2. \A v \in Worker : call'[v].at = call[v].at /\ call'[v].on = call[v].on
    BY <1>1, <1>11, <2>1 DEF Moved
  <2>3. PICK w \in Worker : TRUE
    BY WorkspaceAssumption
  <2>4. call'[w].at \in Writes => call'[w].on \in Existing \cup Coming
    BY <2>2 DEF Coming, Writes
  <2>5. QED
    BY <1>11, <2>2, <2>4, CapKept
<1>12. ASSUME NEW w \in Worker, DraftStep(w) PROVE CapInv'
  <2>1. ASSUME NEW do, Arrive(w, do) PROVE CapInv'
    <3> DEFINE c == [Resting EXCEPT !.do = do, !.at = "expire", !.todo = Existing]
    <3>1. c.at = "expire" /\ call' = [call EXCEPT ![w] = c] /\ draft' = draft
      BY <1>1, <2>1 DEF Arrive, Begin, Calls, drafts
    <3> HIDE DEF c
    <3>2. QED
      BY <1>4, <3>1 DEF Writes
  <2>2. ASSUME NEW d \in Draft, ExpireReads(w, d) PROVE CapInv'
    <3> DEFINE doomed == ~Whole(draft[d]) \/ d \in old
               c == [call[w] EXCEPT !.todo = @ \ {d},
                                    !.on = IF doomed THEN d ELSE Nothing,
                                    !.at = IF doomed THEN "unlink" ELSE "expire"]
    <3>1. call' = [call EXCEPT ![w] = c] /\ draft' = draft
      BY <2>2 DEF ExpireReads, Continue, drafts
    <3>2. c.at \in {"unlink", "expire"}
      BY <1>1 DEF Calls
    <3> HIDE DEF c
    <3>3. QED
      BY <1>4, <3>1, <3>2 DEF Writes
  <2>3. ASSUME NEW d \in Draft, AskDiscard(w, d) PROVE CapInv'
    <3> DEFINE c == [Resting EXCEPT !.do = "discard", !.at = "discard", !.on = d]
    <3>1. c.at = "discard" /\ call' = [call EXCEPT ![w] = c] /\ draft' = draft
      BY <1>1, <2>3 DEF AskDiscard, Begin, Calls, drafts
    <3> HIDE DEF c
    <3>2. QED
      BY <1>4, <3>1 DEF Writes
  <2>4. ASSUME NEW d \in Draft, NEW p \in Page, PublishLoads(w, d, p) PROVE CapInv'
    <3> DEFINE c == [Resting EXCEPT !.do = "publish", !.at = "check", !.on = d,
                       !.text = draft[d].text, !.to = p, !.size = Len(draft[d].text)]
    <3>1. c.at = "check" /\ call' = [call EXCEPT ![w] = c] /\ draft' = draft
      BY <1>1, <2>4 DEF PublishLoads, Begin, Calls, drafts
    <3> HIDE DEF c
    <3>2. QED
      BY <1>4, <3>1 DEF Writes
  <2>5. CASE Listed(w)
    BY <1>3, <2>5 DEF Listed, drafts
  <2>6. QED
    BY <1>5, <1>6, <1>7, <1>8, <1>9, <1>12, <2>1, <2>2, <2>3, <2>4, <2>5 DEF DraftStep
<1>13. ASSUME NEW w \in Worker, PageStep(w) PROVE CapInv'
  <2>1. CASE \E p \in Page : Delete(w, p)
    BY <1>10, <2>1
  <2>2. CASE ~(\E p \in Page : Delete(w, p))
    <3>1. draft' = draft
      BY <1>13, <2>2 DEF PageStep, Paste, Upload, Check, StoreArchive, ExtractMember,
                       Opened, ExtractEnds, PutPage, Fill, drafts
    <3>2. ASSUME NEW p \in Page, NEW n, Opened(w, p, n) PROVE CapInv'
      <4> DEFINE c == [call[w] EXCEPT !.at = "fill", !.to = p, !.size = n, !.fd = TRUE,
                         !.left = IF call[w].do = "zip" THEN @ - n ELSE @]
      <4>1. c.at = "fill" /\ call' = [call EXCEPT ![w] = c]
        BY <1>1, <3>2 DEF Opened, Continue, Calls
      <4> HIDE DEF c
      <4>2. QED
        BY <1>4, <3>1, <4>1 DEF Writes
    <3>3. ASSUME NEW p \in Page, NEW n, Paste(w, p, n) PROVE CapInv'
      <4> DEFINE c == [Resting EXCEPT !.do = "paste", !.at = "check", !.to = p, !.size = n]
      <4>1. c.at = "check" /\ call' = [call EXCEPT ![w] = c]
        BY <1>1, <3>3 DEF Paste, Begin, Calls
      <4> HIDE DEF c
      <4>2. QED
        BY <1>4, <3>1, <4>1 DEF Writes
    <3>4. ASSUME NEW n, Upload(w, n) PROVE CapInv'
      <4> DEFINE c == [Resting EXCEPT !.do = "zip", !.at = "check", !.size = n]
      <4>1. c.at = "check" /\ call' = [call EXCEPT ![w] = c]
        BY <1>1, <3>4 DEF Upload, Begin, Calls
      <4> HIDE DEF c
      <4>2. QED
        BY <1>4, <3>1, <4>1 DEF Writes
    <3>5. CASE Check(w)
      <4> DEFINE c == [call[w] EXCEPT !.at = "put"]
      <4>1. Return(w) \/ call' = [call EXCEPT ![w] = c]
        BY <3>5 DEF Check, Continue
      <4>2. c.at = "put"
        BY <1>1 DEF Calls
      <4> HIDE DEF c
      <4>3. QED
        BY <1>3, <1>4, <3>1, <4>1, <4>2 DEF Writes
    <3>6. CASE StoreArchive(w)
      <4> DEFINE c == [call[w] EXCEPT !.at = "extract", !.archive = call[w].size,
                                      !.left = MaxUpload]
      <4>1. c.at = "extract" /\ call' = [call EXCEPT ![w] = c]
        BY <1>1, <3>6 DEF StoreArchive, Continue, Calls
      <4> HIDE DEF c
      <4>2. QED
        BY <1>4, <3>1, <4>1 DEF Writes
    <3>7. CASE Fill(w)
      <4> DEFINE c == [call[w] EXCEPT !.at = "discard", !.fd = FALSE]
                 e == [call[w] EXCEPT !.at = "extract", !.fd = FALSE, !.size = 0]
      <4>1. \/ Return(w)
            \/ call' = [call EXCEPT ![w] = c]
            \/ call' = [call EXCEPT ![w] = e]
        <5>1. call[w].do \in {"publish", "paste", "zip"}
          BY <1>1, <3>7 DEF Fill, Shape
        <5>2. QED
          BY <3>7, <5>1 DEF Fill, Continue
      <4>2. c.at = "discard" /\ e.at = "extract"
        BY <1>1 DEF Calls
      <4> HIDE DEF c, e
      <4>3. QED
        BY <1>3, <1>4, <3>1, <4>1, <4>2 DEF Writes
    <3>8. CASE PutPage(w)
      BY <1>1, <3>2, <3>8 DEF PutPage, Shape
    <3>9. ASSUME NEW p \in Page, NEW n, ExtractMember(w, p, n) PROVE CapInv'
      BY <3>2, <3>9 DEF ExtractMember
    <3>10. CASE ExtractEnds(w)
      BY <1>3, <3>1, <3>10 DEF ExtractEnds
    <3>11. QED
      BY <1>13, <2>2, <3>3, <3>4, <3>5, <3>6, <3>7, <3>8, <3>9, <3>10 DEF PageStep
  <2>3. QED
    BY <2>1, <2>2
<1>14. ASSUME NEW w \in Worker, Crash(w) PROVE CapInv'
  BY <1>4, <1>14 DEF Crash, drafts
<1>15. ASSUME UNCHANGED <<draft, call>> PROVE CapInv'
  BY <1>15 DEF CapInv, Existing, Coming
<1>16. ASSUME NEW w \in Worker, NEW p \in Page, NEW q \in Page, Move(w, p, q)
       PROVE  CapInv'
  BY <1>11, <1>16 DEF Move, drafts, Existing
<1>17. ASSUME NEW w \in Worker, NEW d \in Draft, NEW q \in Page, MoveDraft(w, d, q)
       PROVE  CapInv'
  <2>1. Existing' \subseteq Existing
    BY <1>1, <1>17 DEF MoveDraft, Existing
  <2>2. QED
    BY <1>11, <1>17, <2>1 DEF MoveDraft
<1>18. QED
  BY <1>12, <1>13, <1>14, <1>15, <1>16, <1>17
     DEF Next, Step, Age, Quiet, vars, drafts

(* MAX_DRAFTS and one file for each other worker.                          *)
THEOREM BoundedDrafts == Spec => []DraftCap
<1>1. ASSUME Init PROVE TypeInv /\ CapInv
  <2>1. TypeInv
    BY <1>1, TypeInit
  <2>2. Existing \cup Coming = {}
    BY <1>1, RestingIsCall DEF Init, Existing, Coming
  <2>3. Cardinality({}) = 0 /\ Cardinality(Worker) \in Nat
    BY FS_EmptySet, FS_CardinalityType, WorkspaceAssumption
  <2>4. Cardinality(Existing \cup Coming) = 0
    BY <2>2, <2>3
  <2>5. QED
    BY <2>1, <2>3, <2>4, WorkspaceAssumption DEF CapInv
<1>2. TypeInv /\ CapInv /\ [Next]_vars => TypeInv' /\ CapInv'
  BY TypeStep, CapStep
<1>3. TypeInv /\ CapInv => DraftCap
  <2>1. ASSUME TypeInv, CapInv PROVE DraftCap
    <3>1. /\ Cardinality(Existing) <= Cardinality(Existing \cup Coming)
          /\ Cardinality(Existing) \in Nat
      BY <2>1, ComingAreDrafts, FS_Subset, FS_CardinalityType
    <3>2. Cardinality(Existing \cup Coming) \in Nat /\ Cardinality(Worker) \in Nat
      BY <2>1, ComingAreDrafts, FS_CardinalityType, WorkspaceAssumption
    <3>3. QED
      BY <2>1, <3>1, <3>2, WorkspaceAssumption DEF CapInv, DraftCap
  <2>2. QED
    BY <2>1
<1>4. QED
  BY <1>1, <1>2, <1>3, PTL DEF Spec
----------------------------------------------------------------------------
(* What is in the files                                                    *)

Drafty(d) == /\ sent[d] = 0 => Unborn(d)
             /\ d \notin disturbed => Quietly(d)

(* What a step leaves of the call of v, seen from the draft d.             *)
Unmoved(v, d) ==
  /\ call'[v].at = call[v].at /\ call'[v].do = call[v].do /\ call'[v].on = call[v].on
  /\ call'[v].text = call[v].text /\ call'[v].todo = call[v].todo
  /\ call[v].at = "write" /\ call[v].on = d /\ call[v].to = Nothing =>
       call'[v].fd = call[v].fd /\ call'[v].to = Nothing

(* A step of w that does not touch the file of d, nor what is known of it. *)
Aside(w, d) ==
  /\ draft'[d] = draft[d] /\ sent'[d] = sent[d] /\ acked'[d] = acked[d]
  /\ d \in gone' <=> d \in gone
  /\ old \subseteq old'
  /\ \A v \in Worker \ {w} : Unmoved(v, d)

LEMMA FileParts == FileInv <=> Shared \subseteq disturbed /\ \A d \in Draft : Drafty(d)
BY DEF FileInv, Drafty

(* Nobody else is at a draft that is not disturbed.                        *)
LEMMA AloneAt ==
  ASSUME Shared \subseteq disturbed, NEW d \in Draft, d \notin disturbed,
         NEW w \in Worker, WorksOn(w, d)
  PROVE  \A v \in Worker \ {w} : ~WorksOn(v, d)
BY DEF Shared

LEMMA AloneAfter ==
  ASSUME Shared' \subseteq disturbed', NEW d \in Draft, d \notin disturbed',
         NEW w \in Worker, WorksOn(w, d)'
  PROVE  \A v \in Worker \ {w} : ~WorksOn(v, d)'
BY DEF Shared

(* A worker may come to a draft, or stay with it, as long as what its call *)
(* knows is so.                                                            *)
LEMMA DraftyKept ==
  ASSUME NEW w \in Worker, NEW d \in Draft, Drafty(d), Aside(w, d),
         Shared' \subseteq disturbed', disturbed \subseteq disturbed',
         ~(call[w].at = "write" /\ call[w].on = d),
         ~(call'[w].at = "write" /\ call'[w].on = d),
         call'[w].on = d => /\ WorksOn(w, d) \/ draft[d] # Nothing \/ sent[d] # 0
                            /\ d \notin disturbed' => Knows(w, d)',
         d \in call'[w].todo => d \in call[w].todo \/ draft[d] # Nothing
  PROVE  Drafty(d)'
<1>1. ASSUME sent'[d] = 0 PROVE Unborn(d)'
  <2>1. Unborn(d) /\ sent[d] = 0
    BY <1>1 DEF Drafty, Aside
  <2>2. draft'[d] = Nothing /\ acked'[d] = {} /\ d \notin gone'
    BY <2>1 DEF Unborn, Aside
  <2>3. ~WorksOn(w, d)'
    BY <2>1 DEF Unborn, WorksOn
  <2>4. ASSUME NEW v \in Worker \ {w} PROVE ~WorksOn(v, d)'
    BY <2>1 DEF Unborn, WorksOn, Aside, Unmoved
  <2> QED
    BY <2>2, <2>3, <2>4 DEF Unborn
<1>2. ASSUME d \notin disturbed' PROVE Quietly(d)'
  <2>1. Quietly(d)
    BY <1>2 DEF Drafty
  <2>2. Writing(d)' <=> Writing(d)
    BY DEF Writing, Aside, Unmoved
  <2>3. /\ (d \in gone => draft[d] = Nothing)'
        /\ (d \notin gone /\ acked[d] # {} /\ ~Writing(d) =>
              Whole(draft[d]) /\ acked[d] = Range(draft[d].text))'
        /\ (draft[d] # Nothing /\ acked[d] = {} => Writing(d))'
    BY <2>1, <2>2 DEF Quietly, Aside
  <2>4. ASSUME NEW v \in Worker \ {w}
        PROVE  /\ (call[v].on = d => Knows(v, d))'
               /\ (d \in call[v].todo => draft[d] # Nothing /\ ~Writing(d))'
    <3>1. /\ call[v].on = d => Knows(v, d)
          /\ d \in call[v].todo => draft[d] # Nothing /\ ~Writing(d)
      BY <2>1 DEF Quietly
    <3>2. Unmoved(v, d) /\ draft'[d] = draft[d] /\ sent'[d] = sent[d] /\ acked'[d] = acked[d]
          /\ (d \in gone' <=> d \in gone) /\ old \subseteq old'
      BY DEF Aside
    <3>3. (call[v].on = d => Knows(v, d))'
      BY <3>1, <3>2 DEF Unmoved, Knows
    <3> QED
      BY <2>2, <3>1, <3>2, <3>3 DEF Unmoved
  <2>5. (d \in call[w].todo => draft[d] # Nothing /\ ~Writing(d))'
    <3>1. ASSUME d \in call'[w].todo PROVE draft'[d] # Nothing /\ ~Writing(d)'
      <4>1. draft'[d] # Nothing
        BY <2>1, <3>1 DEF Quietly, Aside
      <4>2. \A v \in Worker \ {w} : ~WorksOn(v, d)'
        BY <1>2, <3>1, AloneAfter DEF WorksOn
      <4> QED
        BY <4>1, <4>2 DEF Writing, WorksOn
    <3> QED
      BY <3>1
  <2> QED
    BY <1>2, <2>3, <2>4, <2>5 DEF Quietly
<1> QED
  BY <1>1, <1>2 DEF Drafty

(* The same for a call that only reads drafts.                             *)
LEMMA DraftyRead ==
  ASSUME TypeInv, NEW w \in Worker, NEW d \in Draft, Drafty(d), NEW c,
         call' = [call EXCEPT ![w] = c], UNCHANGED drafts,
         Shared' \subseteq disturbed', disturbed \subseteq disturbed',
         call[w].at # "write", c.at # "write",
         c.on = d => /\ WorksOn(w, d) \/ draft[d] # Nothing \/ sent[d] # 0
                     /\ d \notin disturbed' => Knows(w, d)',
         d \in c.todo => d \in call[w].todo \/ draft[d] # Nothing
  PROVE  Drafty(d)'
<1>1. call'[w] = c /\ \A v \in Worker \ {w} : call'[v] = call[v]
  BY DEF TypeInv, TypeOK
<1>2. Aside(w, d)
  BY <1>1 DEF Aside, Unmoved, drafts
<1> QED
  BY <1>1, <1>2, DraftyKept

(* It ends, or is about pages only.                                        *)
LEMMA DraftyLeft ==
  ASSUME TypeInv, NEW w \in Worker, NEW d \in Draft, Drafty(d), NEW c,
         call' = [call EXCEPT ![w] = c], UNCHANGED drafts,
         Shared' \subseteq disturbed', disturbed \subseteq disturbed',
         call[w].at # "write", c.at # "write", c.on # d, c.todo = {}
  PROVE  Drafty(d)'
BY DraftyRead

(* A publish goes on with what it has read.                                *)
LEMMA DraftyCarried ==
  ASSUME TypeInv, NEW w \in Worker, NEW d \in Draft, Drafty(d), NEW c,
         call' = [call EXCEPT ![w] = c], UNCHANGED drafts,
         Shared' \subseteq disturbed', disturbed \subseteq disturbed',
         call[w].at \in {"check", "put", "fill"},
         c.at \in {"put", "fill", "discard", "extract"},
         c.do = call[w].do, c.on = call[w].on, c.text = call[w].text, c.todo = {}
  PROVE  Drafty(d)'
<1>1. call'[w] = c
  BY DEF TypeInv, TypeOK
<1>2. ASSUME c.on = d, d \notin disturbed' PROVE Knows(w, d)'
  <2>1. call[w].do = "publish"
    BY <1>2, WorkspaceAssumption DEF TypeInv, ShapeInv, Shape
  <2>2. Quietly(d) /\ Knows(w, d)
    BY <1>2 DEF Drafty, Quietly
  <2> QED
    BY <1>1, <2>1, <2>2 DEF Knows, drafts
<1>3. c.on = d => WorksOn(w, d)
  BY DEF WorksOn
<1> QED
  BY <1>2, <1>3, DraftyRead

(* Where a step is concerned: w, and a draft d that is as it should be.    *)
Ready(w, d) ==
  /\ TypeInv /\ Drafty(d) /\ call[w] \in Calls /\ Shape(w)
  /\ Shared \subseteq disturbed /\ disturbed \subseteq disturbed'
  /\ Shared' \subseteq disturbed'

(* What is appended, and the rest.                                         *)
LEMMA RangeOfAppend ==
  ASSUME NEW s \in Seq(Nat), NEW n \in Nat
  PROVE  LET t == Append(s, n) IN Range(t) = Range(s) \cup {t[Len(t)]}
BY DEF Range

LEMMA DraftyReturns ==
  ASSUME NEW w \in Worker, NEW d \in Draft, Ready(w, d), Return(w), UNCHANGED drafts,
         call[w].at # "write"
  PROVE  Drafty(d)'
BY RestingIsCall, DraftyLeft, WorkspaceAssumption DEF Ready, Return, Continue

(* GET /publish, GET /d/new, and the reading of what glob found.           *)
LEMMA DraftyLists ==
  ASSUME NEW w \in Worker, NEW d \in Draft, Ready(w, d),
         \/ \E do \in {"new", "list"} : Arrive(w, do)
         \/ \E e \in Draft : ExpireReads(w, e)
         \/ Listed(w)
  PROVE  Drafty(d)'
<1>1. ASSUME NEW do \in {"new", "list"}, Arrive(w, do) PROVE Drafty(d)'
  <2> DEFINE c == [Resting EXCEPT !.do = do, !.at = "expire", !.todo = Existing]
  <2>1. call' = [call EXCEPT ![w] = c] /\ UNCHANGED drafts /\ call[w].at = "rest"
    BY <1>1 DEF Arrive, Begin, drafts
  <2>2. c.at = "expire" /\ c.on = Nothing /\ c.todo = Existing
    BY RestingIsCall DEF Calls
  <2> HIDE DEF c
  <2>3. d \in c.todo => draft[d] # Nothing
    BY <2>2 DEF Existing
  <2> QED
    BY <2>1, <2>2, <2>3, DraftyRead, WorkspaceAssumption DEF Ready
<1>2. ASSUME NEW e \in Draft, ExpireReads(w, e) PROVE Drafty(d)'
  <2> DEFINE doomed == ~Whole(draft[e]) \/ e \in old
             c == [call[w] EXCEPT !.todo = @ \ {e},
                                  !.on = IF doomed THEN e ELSE Nothing,
                                  !.at = IF doomed THEN "unlink" ELSE "expire"]
  <2>1. /\ call' = [call EXCEPT ![w] = c] /\ UNCHANGED drafts
        /\ call[w].at = "expire" /\ e \in call[w].todo
    BY <1>2 DEF ExpireReads, Continue, drafts
  <2>2. /\ c.at = (IF doomed THEN "unlink" ELSE "expire") /\ c.do = call[w].do
        /\ c.on = (IF doomed THEN e ELSE Nothing) /\ c.todo = call[w].todo \ {e}
    BY DEF Ready, Calls
  <2>3. call[w].do \in {"new", "list"}
    BY <2>1 DEF Ready, Shape
  <2>4. call'[w] = c
    BY <2>1 DEF Ready, TypeInv, TypeOK
  <2> HIDE DEF c
  <2>5. ASSUME c.on = d, d \notin disturbed' PROVE Knows(w, d)'
    <3>1. doomed /\ d = e
      BY <2>2, <2>5, WorkspaceAssumption
    <3>2. Quietly(d) /\ draft[d] # Nothing /\ ~Writing(d)
      BY <2>1, <2>5, <3>1 DEF Ready, Drafty, Quietly
    <3>3. Whole(draft[d])
      BY <3>2 DEF Quietly
    <3>4. d \in old /\ old' = old
      BY <2>1, <3>1, <3>3 DEF drafts
    <3> QED
      BY <2>2, <2>3, <2>4, <3>1, <3>4 DEF Knows
  <2>6. c.on = d => WorksOn(w, d)
    BY <2>1, <2>2, WorkspaceAssumption DEF WorksOn
  <2> QED
    BY <2>1, <2>2, <2>5, <2>6, DraftyRead DEF Ready
<1>3. CASE Listed(w)
  BY <1>3, DraftyReturns DEF Listed
<1> QED
  BY <1>1, <1>2, <1>3

(* GET /d/new gets its id.                                                 *)
LEMMA DraftyCounts ==
  ASSUME NEW w \in Worker, NEW d \in Draft, Ready(w, d), NEW e \in Draft, Count(w, e)
  PROVE  Drafty(d)'
<1>1. call[w].at = "expire" /\ call[w].do = "new" /\ call[w].on = Nothing /\ call[w].todo = {}
  BY DEF Count, Ready, Shape
<1>2. CASE Return(w) /\ UNCHANGED sent
  BY <1>1, <1>2, DraftyReturns DEF Count, drafts
<1>3. CASE ~(Return(w) /\ UNCHANGED sent)
  <2> DEFINE c == [call[w] EXCEPT !.at = "open", !.on = e, !.text = <<1>>]
  <2>1. /\ sent[e] = 0 /\ sent' = [sent EXCEPT ![e] = 1]
        /\ call' = [call EXCEPT ![w] = c] /\ UNCHANGED <<draft, acked, old, gone>>
    BY <1>3 DEF Count, Continue
  <2>2. c.at = "open" /\ c.do = "new" /\ c.on = e /\ c.text = <<1>> /\ c.todo = {}
    BY <1>1 DEF Ready, Calls
  <2>3. call'[w] = c /\ \A v \in Worker \ {w} : call'[v] = call[v]
    BY <2>1 DEF Ready, TypeInv, TypeOK
  <2> HIDE DEF c
  <2>4. CASE d = e
    <3>1. Unborn(d)
      BY <2>1, <2>4 DEF Ready, Drafty
    <3>2. sent'[d] = 1
      BY <2>1, <2>4 DEF Ready, TypeInv, TypeOK
    <3>3. /\ draft'[d] = Nothing /\ acked'[d] = {} /\ d \notin gone'
          /\ \A v \in Worker \ {w} : ~WorksOn(v, d)'
      BY <2>1, <2>3, <3>1 DEF Unborn, WorksOn
    <3>4. Knows(w, d)'
      BY <2>2, <2>3, <3>3 DEF Knows
    <3>5. Quietly(d)'
      BY <2>2, <2>3, <3>3, <3>4 DEF Quietly, WorksOn
    <3> QED
      BY <3>2, <3>5 DEF Drafty
  <2>5. CASE d # e
    <3>1. sent'[d] = sent[d]
      BY <2>1, <2>5 DEF Ready, TypeInv, TypeOK
    <3>2. Aside(w, d)
      BY <2>1, <2>3, <3>1 DEF Aside, Unmoved
    <3> QED
      BY <1>1, <2>2, <2>3, <2>5, <3>2, DraftyKept DEF Ready
  <2> QED
    BY <2>4, <2>5
<1> QED
  BY <1>2, <1>3

(* POST /d/{id} joins a part to what is there.                             *)
LEMMA DraftyLoads ==
  ASSUME NEW w \in Worker, NEW d \in Draft, Ready(w, d), NEW e \in Draft, AddLoads(w, e)
  PROVE  Drafty(d)'
<1> DEFINE joined == Append(draft[e].text, sent[e] + 1)
           c == [Resting EXCEPT !.do = "add", !.at = "open", !.on = e, !.text = joined]
<1>1. /\ Whole(draft[e]) /\ sent' = [sent EXCEPT ![e] = sent[e] + 1]
      /\ call[w].at = "rest" /\ call' = [call EXCEPT ![w] = c]
      /\ UNCHANGED <<draft, acked, old, gone>>
  BY DEF AddLoads, Begin
<1>2. c.at = "open" /\ c.do = "add" /\ c.on = e /\ c.text = joined /\ c.todo = {}
  BY RestingIsCall DEF Calls
<1>3. call'[w] = c /\ \A v \in Worker \ {w} : call'[v] = call[v]
  BY <1>1 DEF Ready, TypeInv, TypeOK
<1> HIDE DEF c
<1>4. CASE d = e
  <2>1. sent'[d] = sent[d] + 1 /\ sent[d] \in Nat
    BY <1>1, <1>4 DEF Ready, TypeInv, TypeOK
  <2>2. ASSUME d \notin disturbed' PROVE Quietly(d)'
    <3>1. Quietly(d)
      BY <2>2 DEF Ready, Drafty
    <3>2. \A v \in Worker \ {w} : ~WorksOn(v, d)'
      BY <1>2, <1>3, <1>4, <2>2, AloneAfter DEF Ready, WorksOn
    <3>3. ~Writing(d) /\ ~Writing(d)'
      BY <1>1, <1>2, <1>3, <3>2 DEF Writing, WorksOn
    <3>4. draft[d] # Nothing /\ d \notin gone /\ acked[d] # {}
      BY <1>1, <1>4, <3>1, <3>3 DEF Whole, Quietly
    <3>5. Knows(w, d)'
      <4>1. call'[w].text = Append(draft'[d].text, sent'[d])
        BY <1>1, <1>2, <1>3, <1>4, <2>1
      <4> QED
        BY <1>1, <1>2, <1>3, <3>4, <4>1 DEF Knows
    <3>6. /\ d \in gone' => draft'[d] = Nothing
          /\ Whole(draft'[d]) /\ acked'[d] = Range(draft'[d].text)
          /\ acked'[d] # {}
      BY <1>1, <1>4, <3>1, <3>3, <3>4 DEF Quietly
    <3> QED
      BY <1>2, <1>3, <3>2, <3>3, <3>5, <3>6 DEF Quietly, WorksOn
  <2> QED
    BY <2>1, <2>2 DEF Drafty
<1>5. CASE d # e
  <2>1. sent'[d] = sent[d]
    BY <1>1, <1>5 DEF Ready, TypeInv, TypeOK
  <2>2. Aside(w, d)
    BY <1>1, <1>3, <2>1 DEF Aside, Unmoved
  <2> QED
    BY <1>1, <1>2, <1>3, <1>5, <2>2, DraftyKept DEF Ready
<1> QED
  BY <1>4, <1>5

(* write_text opens the file ...                                           *)
LEMMA DraftyOpens ==
  ASSUME NEW w \in Worker, NEW d \in Draft, Ready(w, d), OpenDraft(w)
  PROVE  Drafty(d)'
<1> DEFINE e == call[w].on
           c == [call[w] EXCEPT !.at = "write", !.fd = TRUE]
<1>1. /\ call[w].at = "open" /\ draft' = [draft EXCEPT ![e] = Truncated]
      /\ call' = [call EXCEPT ![w] = c] /\ UNCHANGED <<sent, acked, old, gone>>
  BY DEF OpenDraft, Continue
<1>2. /\ e \in Draft /\ call[w].do \in {"new", "add"} /\ call[w].todo = {}
      /\ call[w].text # <<>> /\ call[w].text \in Seq(Nat) /\ call[w].to = Nothing
  BY <1>1 DEF Ready, Shape, Calls
<1>3. /\ c.at = "write" /\ c.fd = TRUE /\ c.do = call[w].do /\ c.on = e
      /\ c.text = call[w].text /\ c.todo = {} /\ c.to = Nothing
  BY <1>2 DEF Ready, Calls
<1>4. call'[w] = c /\ \A v \in Worker \ {w} : call'[v] = call[v]
  BY <1>1 DEF Ready, TypeInv, TypeOK
<1> HIDE DEF c
<1>5. CASE d = e
  <2>1. sent[d] # 0
    BY <1>5 DEF Ready, Drafty, Unborn, WorksOn
  <2>2. ASSUME d \notin disturbed' PROVE Quietly(d)'
    <3>1. Quietly(d) /\ Knows(w, d)
      BY <1>5, <2>2 DEF Ready, Drafty, Quietly
    <3>2. \A v \in Worker \ {w} : ~WorksOn(v, d)'
      BY <1>3, <1>4, <1>5, <2>2, AloneAfter DEF Ready, WorksOn
    <3>3. ~Writing(d) /\ Writing(d)'
      BY <1>1, <1>3, <1>4, <1>5, <3>2 DEF Writing, WorksOn
    <3>4. d \notin gone /\ draft'[d] = Truncated
      BY <1>1, <1>2, <1>5, <3>1 DEF Knows, Ready, TypeInv, TypeOK
    <3>5. Range(c.text) = acked[d] \cup {c.text[Len(c.text)]}
      <4>1. CASE call[w].do = "new"
        <5>1. acked[d] = {} /\ c.text = <<1>>
          BY <1>1, <1>3, <3>1, <4>1 DEF Knows
        <5> QED
          BY <5>1 DEF Range
      <4>2. CASE call[w].do = "add"
        <5>1. acked[d] # {} /\ c.text = Append(draft[d].text, sent[d])
          BY <1>1, <1>3, <3>1, <4>2 DEF Knows
        <5>2. Whole(draft[d]) /\ acked[d] = Range(draft[d].text)
          BY <3>1, <3>3, <3>4, <5>1 DEF Quietly
        <5>3. draft[d].text \in Seq(Nat) /\ sent[d] \in Nat
          BY <5>2 DEF Ready, TypeInv, TypeOK, Contents, Whole
        <5> QED
          BY <5>1, <5>2, <5>3, RangeOfAppend
      <4> QED
        BY <1>2, <4>1, <4>2
    <3>6. Knows(w, d)'
      BY <1>1, <1>2, <1>3, <1>4, <3>4, <3>5 DEF Knows
    <3> QED
      BY <1>1, <1>3, <1>4, <3>2, <3>3, <3>4, <3>6 DEF Quietly, WorksOn
  <2> QED
    BY <1>1, <2>1, <2>2 DEF Drafty
<1>6. CASE d # e
  <2>1. draft'[d] = draft[d]
    BY <1>1, <1>6 DEF Ready, TypeInv, TypeOK
  <2>2. Aside(w, d)
    BY <1>1, <1>4, <2>1 DEF Aside, Unmoved
  <2> QED
    BY <1>1, <1>3, <1>4, <1>6, <2>2, DraftyKept DEF Ready
<1> QED
  BY <1>5, <1>6

(* ... and writes it.                                                      *)
LEMMA DraftyWrites ==
  ASSUME NEW w \in Worker, NEW d \in Draft, Ready(w, d), WriteDraft(w)
  PROVE  Drafty(d)'
<1> DEFINE c == call[w]
           e == c.on
<1>1. /\ c.at = "write"
      /\ draft' = IF c.fd /\ c.to = Nothing
                    THEN [draft EXCEPT ![e] = Overwritten(draft[e], c.text)]
                    ELSE draft
      /\ acked' = [acked EXCEPT ![e] = acked[e] \cup {c.text[Len(c.text)]}]
      /\ call' = [call EXCEPT ![w] = Resting] /\ UNCHANGED <<sent, old, gone>>
  BY DEF WriteDraft, Return, Continue
<1>2. /\ e \in Draft /\ c.do \in {"new", "add"} /\ c.todo = {}
      /\ c.text # <<>> /\ c.text \in Seq(Nat)
  BY <1>1 DEF Ready, Shape, Calls
<1>3. call'[w] = Resting /\ \A v \in Worker \ {w} : call'[v] = call[v]
  BY <1>1 DEF Ready, TypeInv, TypeOK
<1>4. ~WorksOn(w, d)'
  BY <1>3, RestingIsCall, WorkspaceAssumption DEF WorksOn
<1>5. CASE d = e
  <2>1. sent[d] # 0
    BY <1>5 DEF Ready, Drafty, Unborn, WorksOn
  <2>2. ASSUME d \notin disturbed' PROVE Quietly(d)'
    <3>1. Quietly(d) /\ Knows(w, d)
      BY <1>5, <2>2 DEF Ready, Drafty, Quietly
    <3>2. /\ d \notin gone /\ c.fd /\ c.to = Nothing /\ draft[d] = Truncated
          /\ Range(c.text) = acked[d] \cup {c.text[Len(c.text)]}
      BY <1>1, <3>1 DEF Knows
    <3>3. draft'[d] = Overwritten(Truncated, c.text) /\ acked'[d] = Range(c.text)
      BY <1>1, <1>2, <1>5, <3>2 DEF Ready, TypeInv, TypeOK
    <3>4. draft'[d] = [text |-> c.text, len |-> Len(c.text)] /\ Len(c.text) > 0
      <4>1. Len(c.text) \in Nat /\ Len(c.text) > 0
        BY <1>2
      <4> QED
        BY <3>3, <4>1 DEF Overwritten, Truncated, Longest
    <3>5. Whole(draft'[d]) /\ draft'[d].text = c.text
      <4>1. draft'[d] \in [text : Seq(Nat), len : Nat]
        BY <1>2, <3>4
      <4>2. draft'[d] # Nothing
        BY <4>1, NothingAssumption
      <4> QED
        BY <3>4, <4>2 DEF Whole
    <3>6. \A v \in Worker : ~WorksOn(v, d)'
      <4>1. d \notin Shared
        BY <2>2 DEF Ready
      <4> QED
        BY <1>3, <1>4, <1>5, <4>1 DEF Shared, WorksOn
    <3> QED
      BY <1>1, <3>2, <3>3, <3>5, <3>6 DEF Quietly, WorksOn
  <2> QED
    BY <1>1, <2>1, <2>2 DEF Drafty
<1>6. CASE d # e
  <2>1. draft'[d] = draft[d] /\ acked'[d] = acked[d]
    BY <1>1, <1>6 DEF Ready, TypeInv, TypeOK
  <2>2. Aside(w, d)
    BY <1>1, <1>3, <2>1 DEF Aside, Unmoved
  <2> QED
    BY <1>3, <1>4, <1>6, <2>2, DraftyKept, RestingIsCall DEF Ready, WorksOn
<1> QED
  BY <1>5, <1>6

(* POST /d/{id}/publish and /discard begin.                                *)
LEMMA DraftyTakes ==
  ASSUME NEW w \in Worker, NEW d \in Draft, Ready(w, d), NEW e \in Draft,
         (\E p \in Page : PublishLoads(w, e, p)) \/ AskDiscard(w, e)
  PROVE  Drafty(d)'
<1>1. ASSUME NEW p \in Page, PublishLoads(w, e, p) PROVE Drafty(d)'
  <2> DEFINE c == [Resting EXCEPT !.do = "publish", !.at = "check", !.on = e,
                     !.text = draft[e].text, !.to = p, !.size = Len(draft[e].text)]
  <2>1. /\ Whole(draft[e]) /\ call[w].at = "rest"
        /\ call' = [call EXCEPT ![w] = c] /\ UNCHANGED drafts
    BY <1>1 DEF PublishLoads, Begin
  <2>2. /\ c.at = "check" /\ c.do = "publish" /\ c.on = e /\ c.text = draft[e].text
        /\ c.todo = {}
    BY RestingIsCall DEF Calls
  <2>3. call'[w] = c /\ \A v \in Worker \ {w} : call'[v] = call[v]
    BY <2>1 DEF Ready, TypeInv, TypeOK
  <2> HIDE DEF c
  <2>4. ASSUME d = e, d \notin disturbed' PROVE Knows(w, d)'
    <3>1. Quietly(d) /\ draft[d] # Nothing
      BY <2>1, <2>4 DEF Ready, Drafty, Whole
    <3>2. \A v \in Worker \ {w} : ~WorksOn(v, d)'
      BY <2>2, <2>3, <2>4, AloneAfter DEF Ready, WorksOn
    <3>3. ~Writing(d)
      BY <2>1, <2>3, <3>2 DEF Writing, WorksOn
    <3>4. d \notin gone /\ acked[d] # {}
      BY <3>1, <3>3 DEF Quietly
    <3> QED
      BY <2>1, <2>2, <2>3, <2>4, <3>4 DEF Knows, drafts
  <2>5. d = e => draft[d] # Nothing
    BY <2>1 DEF Whole
  <2> QED
    BY <2>1, <2>2, <2>4, <2>5, DraftyRead DEF Ready
<1>2. CASE AskDiscard(w, e)
  <2> DEFINE c == [Resting EXCEPT !.do = "discard", !.at = "discard", !.on = e]
  <2>1. /\ sent[e] # 0 /\ call[w].at = "rest"
        /\ call' = [call EXCEPT ![w] = c] /\ UNCHANGED drafts
    BY <1>2 DEF AskDiscard, Begin, Ready, TypeInv, TypeOK
  <2>2. c.at = "discard" /\ c.do = "discard" /\ c.on = e /\ c.todo = {}
    BY RestingIsCall DEF Calls
  <2>3. call'[w] = c
    BY <2>1 DEF Ready, TypeInv, TypeOK
  <2> HIDE DEF c
  <2>4. Knows(w, d)'
    BY <2>2, <2>3 DEF Knows
  <2> QED
    BY <2>1, <2>2, <2>4, DraftyRead DEF Ready
<1> QED
  BY <1>1, <1>2

(* A draft is unlinked: it has expired, was discarded or is published.     *)
LEMMA DraftyUnlinks ==
  ASSUME NEW w \in Worker, NEW d \in Draft, Ready(w, d), ExpireUnlinks(w) \/ Discard(w)
  PROVE  Drafty(d)'
<1> DEFINE e == call[w].on
<1>1. /\ call[w].at \in {"unlink", "discard"} /\ e \in Draft
      /\ draft' = [draft EXCEPT ![e] = Nothing]
      /\ e \in old \/ call[w].at = "discard" => gone' = gone \cup {e}
      /\ gone' \in {gone, gone \cup {e}}
      /\ UNCHANGED <<sent, acked, old>>
  BY DEF ExpireUnlinks, Discard, Ready, Shape
<1>2. ASSUME NEW v \in Worker \ {w}
      PROVE  /\ call'[v].at = call[v].at /\ call'[v].do = call[v].do
             /\ call'[v].on = call[v].on /\ call'[v].text = call[v].text
             /\ call'[v].todo = call[v].todo
             /\ call[v].at = "write" /\ call[v].on # e /\ call[v].to = Nothing =>
                  call'[v].fd = call[v].fd /\ call'[v].to = Nothing
  <2>1. call'[v] = Detached(call[v], e) /\ call[v] \in Calls
    BY DEF ExpireUnlinks, Discard, Detach, Ready, TypeInv, TypeOK
  <2> QED
    BY <2>1 DEF Detached, OnFile, Target, Calls
<1>3. /\ call'[w].on = Nothing /\ call'[w].at \in {"expire", "rest"}
      /\ call'[w].todo \subseteq call[w].todo
  <2>1. CASE ExpireUnlinks(w)
    <3>1. call'[w] = [Detached(call[w], e) EXCEPT !.on = Nothing, !.at = "expire"]
      BY <2>1 DEF ExpireUnlinks, Detach, Ready, TypeInv, TypeOK
    <3>2. Detached(call[w], e) \in Calls /\ Detached(call[w], e).todo = call[w].todo
      BY DEF Detached, Calls, Ready
    <3> QED
      BY <3>1, <3>2 DEF Calls
  <2>2. CASE Discard(w)
    BY <2>2, RestingIsCall DEF Discard, Detach, Ready, TypeInv, TypeOK
  <2> QED
    BY <2>1, <2>2
<1>4. CASE d = e
  <2>1. sent[d] # 0 /\ draft'[d] = Nothing
    BY <1>1, <1>4 DEF Ready, Drafty, Unborn, WorksOn, TypeInv, TypeOK
  <2>2. ASSUME d \notin disturbed' PROVE Quietly(d)'
    <3>1. Quietly(d) /\ Knows(w, d)
      BY <1>4, <2>2 DEF Ready, Drafty, Quietly
    <3>2. d \in gone'
      BY <1>1, <1>4, <3>1 DEF Knows
    <3>3. \A v \in Worker \ {w} : ~WorksOn(v, d)
      BY <1>4, <2>2, AloneAt DEF Ready, WorksOn
    <3>4. \A v \in Worker : ~WorksOn(v, d)'
      <4>1. d \notin call[w].todo
        BY <1>1, <3>1 DEF Ready, Shape, Knows
      <4>2. d \notin call'[w].todo
        BY <1>3, <4>1
      <4> QED
        BY <1>2, <1>3, <3>3, <4>2, WorkspaceAssumption DEF WorksOn
    <3> QED
      BY <2>1, <3>2, <3>4 DEF Quietly, WorksOn
  <2> QED
    BY <1>1, <2>1, <2>2 DEF Drafty
<1>5. CASE d # e
  <2>1. Aside(w, d)
    BY <1>1, <1>2, <1>5 DEF Aside, Unmoved, Ready, TypeInv, TypeOK
  <2> QED
    BY <1>1, <1>3, <1>5, <2>1, DraftyKept, WorkspaceAssumption DEF Ready
<1> QED
  BY <1>4, <1>5

(* A page is deleted, another file is moved to q: no call that writes the  *)
(* draft d notices.                                                        *)
LEMMA UnmovedKept ==
  ASSUME TypeInv, NEW v \in Worker, NEW d \in Draft, NEW f, f # d, NEW q \in Page,
         \/ call'[v] = Detached(call[v], q)
         \/ call'[v] = IF OnFile(call[v], f) THEN [call[v] EXCEPT !.to = q]
                                             ELSE Detached(call[v], q)
  PROVE  Unmoved(v, d)
<1>1. call[v] \in Calls /\ q # d
  BY WorkspaceAssumption DEF TypeInv, TypeOK
<1>2. call'[v] \in {call[v], [call[v] EXCEPT !.fd = FALSE], [call[v] EXCEPT !.to = q]}
  BY DEF Detached
<1>3. call[v].at = "write" /\ call[v].on = d /\ call[v].to = Nothing => call'[v] = call[v]
  BY <1>1 DEF Detached, OnFile, Target
<1> QED
  BY <1>1, <1>2, <1>3 DEF Unmoved, Calls

LEMMA DraftyMoves ==
  ASSUME NEW w \in Worker, NEW d \in Draft, Ready(w, d),
         NEW p \in Page, NEW q \in Page, Delete(w, p) \/ Move(w, p, q)
  PROVE  Drafty(d)'
<1>1. call[w] = Resting /\ UNCHANGED drafts /\ p # d
  BY WorkspaceAssumption DEF Delete, Move, Ready, Shape
<1>2. ASSUME NEW v \in Worker PROVE Unmoved(v, d)
  <2>1. CASE Delete(w, p)
    <3>1. call'[v] = Detached(call[v], p)
      BY <2>1 DEF Delete, Detach
    <3> QED
      BY <1>1, <3>1, UnmovedKept DEF Ready
  <2>2. CASE Move(w, p, q)
    <3>1. call'[v] = IF OnFile(call[v], p) THEN [call[v] EXCEPT !.to = q]
                                           ELSE Detached(call[v], q)
      BY <2>2 DEF Move, Moved
    <3> QED
      BY <1>1, <3>1, UnmovedKept DEF Ready
  <2> QED
    BY <2>1, <2>2
<1>3. Aside(w, d)
  BY <1>1, <1>2 DEF Aside, drafts
<1>4. call'[w].on = Nothing /\ call'[w].at = "rest" /\ call'[w].todo = {}
  BY <1>1, <1>2, RestingIsCall DEF Unmoved
<1> QED
  BY <1>1, <1>3, <1>4, RestingIsCall, DraftyKept, WorkspaceAssumption DEF Ready

(* The file of a draft is moved away: that draft is disturbed, the others  *)
(* are what they were.                                                     *)
LEMMA DraftyMoved ==
  ASSUME NEW w \in Worker, NEW d \in Draft, Ready(w, d), NEW e \in Draft,
         NEW q \in Page, MoveDraft(w, e, q), e \in disturbed'
  PROVE  Drafty(d)'
<1>1. /\ call[w] = Resting /\ draft[e] # Nothing
      /\ draft' = [draft EXCEPT ![e] = Nothing] /\ UNCHANGED <<sent, acked, old, gone>>
  BY DEF MoveDraft, Ready, Shape
<1>2. CASE d = e
  <2>1. sent[d] # 0
    BY <1>1, <1>2 DEF Ready, Drafty, Unborn
  <2> QED
    BY <1>1, <1>2, <2>1 DEF Drafty
<1>3. CASE d # e
  <2>1. ASSUME NEW v \in Worker PROVE Unmoved(v, d)
    <3>1. call'[v] = IF OnFile(call[v], e) THEN [call[v] EXCEPT !.to = q]
                                           ELSE Detached(call[v], q)
      BY DEF MoveDraft, Moved
    <3> QED
      BY <1>3, <3>1, UnmovedKept DEF Ready
  <2>2. draft'[d] = draft[d]
    BY <1>1, <1>3 DEF Ready, TypeInv, TypeOK
  <2>3. Aside(w, d)
    BY <1>1, <2>1, <2>2 DEF Aside
  <2>4. call'[w].on = Nothing /\ call'[w].at = "rest" /\ call'[w].todo = {}
    BY <1>1, <2>1, RestingIsCall DEF Unmoved
  <2> QED
    BY <1>1, <2>3, <2>4, RestingIsCall, DraftyKept, WorkspaceAssumption DEF Ready
<1> QED
  BY <1>2, <1>3

(* The other steps of calls that write pages.                              *)
LEMMA DraftyPages ==
  ASSUME NEW w \in Worker, NEW d \in Draft, Ready(w, d), PageStep(w)
  PROVE  Drafty(d)'
<1>1. ASSUME NEW p \in Page, NEW n, Opened(w, p, n), call[w].at \in {"put", "extract"}
      PROVE  Drafty(d)'
  <2> DEFINE c == [call[w] EXCEPT !.at = "fill", !.to = p, !.size = n, !.fd = TRUE,
                     !.left = IF call[w].do = "zip" THEN @ - n ELSE @]
  <2>1. call' = [call EXCEPT ![w] = c] /\ UNCHANGED drafts
    BY <1>1 DEF Opened, Continue
  <2>2. /\ c.at = "fill" /\ c.do = call[w].do /\ c.on = call[w].on
        /\ c.text = call[w].text /\ c.todo = call[w].todo
    BY DEF Ready, Calls
  <2>3. call[w].todo = {} /\ (call[w].at = "extract" => call[w].on = Nothing)
    BY <1>1 DEF Ready, Shape
  <2> HIDE DEF c
  <2>4. CASE call[w].at = "put"
    BY <2>1, <2>2, <2>3, <2>4, DraftyCarried DEF Ready
  <2>5. CASE call[w].at = "extract"
    BY <2>1, <2>2, <2>3, <2>5, DraftyLeft, WorkspaceAssumption DEF Ready
  <2> QED
    BY <1>1, <2>4, <2>5
<1>2. ASSUME NEW p \in Page, NEW n, Paste(w, p, n) PROVE Drafty(d)'
  <2> DEFINE c == [Resting EXCEPT !.do = "paste", !.at = "check", !.to = p, !.size = n]
  <2>1. call' = [call EXCEPT ![w] = c] /\ UNCHANGED drafts /\ call[w].at = "rest"
    BY <1>2 DEF Paste, Begin
  <2>2. c.at = "check" /\ c.on = Nothing /\ c.todo = {}
    BY RestingIsCall DEF Calls
  <2> HIDE DEF c
  <2> QED
    BY <2>1, <2>2, DraftyLeft, WorkspaceAssumption DEF Ready
<1>3. ASSUME NEW n, Upload(w, n) PROVE Drafty(d)'
  <2> DEFINE c == [Resting EXCEPT !.do = "zip", !.at = "check", !.size = n]
  <2>1. call' = [call EXCEPT ![w] = c] /\ UNCHANGED drafts /\ call[w].at = "rest"
    BY <1>3 DEF Upload, Begin
  <2>2. c.at = "check" /\ c.on = Nothing /\ c.todo = {}
    BY RestingIsCall DEF Calls
  <2> HIDE DEF c
  <2> QED
    BY <2>1, <2>2, DraftyLeft, WorkspaceAssumption DEF Ready
<1>4. CASE Check(w)
  <2> DEFINE c == [call[w] EXCEPT !.at = "put"]
  <2>1. /\ call[w].at = "check" /\ UNCHANGED drafts
        /\ Return(w) \/ call' = [call EXCEPT ![w] = c]
    BY <1>4 DEF Check, Continue
  <2>2. /\ c.at = "put" /\ c.do = call[w].do /\ c.on = call[w].on
        /\ c.text = call[w].text /\ c.todo = {}
    BY <2>1 DEF Ready, Calls, Shape
  <2> HIDE DEF c
  <2> QED
    BY <2>1, <2>2, DraftyReturns, DraftyCarried DEF Ready
<1>5. CASE StoreArchive(w)
  <2> DEFINE c == [call[w] EXCEPT !.at = "extract", !.archive = call[w].size,
                                  !.left = MaxUpload]
  <2>1. call[w].at = "put" /\ UNCHANGED drafts /\ call' = [call EXCEPT ![w] = c]
    BY <1>5 DEF StoreArchive, Continue
  <2>2. /\ c.at = "extract" /\ c.do = call[w].do /\ c.on = call[w].on
        /\ c.text = call[w].text /\ c.todo = {}
    BY <2>1 DEF Ready, Calls, Shape
  <2> HIDE DEF c
  <2> QED
    BY <2>1, <2>2, DraftyCarried DEF Ready
<1>6. CASE Fill(w)
  <2> DEFINE c == [call[w] EXCEPT !.at = "discard", !.fd = FALSE]
             e == [call[w] EXCEPT !.at = "extract", !.fd = FALSE, !.size = 0]
  <2>1. /\ call[w].at = "fill" /\ UNCHANGED drafts
        /\ \/ Return(w)
           \/ call' = [call EXCEPT ![w] = c]
           \/ call' = [call EXCEPT ![w] = e]
    <3>1. call[w].at = "fill" /\ call[w].do \in {"publish", "paste", "zip"}
      BY <1>6 DEF Fill, Ready, Shape
    <3> QED
      BY <1>6, <3>1 DEF Fill, Continue
  <2>2. /\ c.at = "discard" /\ c.do = call[w].do /\ c.on = call[w].on
        /\ c.text = call[w].text /\ c.todo = {}
        /\ e.at = "extract" /\ e.do = call[w].do /\ e.on = call[w].on
        /\ e.text = call[w].text /\ e.todo = {}
    BY <2>1 DEF Ready, Calls, Shape
  <2> HIDE DEF c, e
  <2>3. CASE Return(w)
    BY <2>1, <2>3, DraftyReturns
  <2>4. CASE call' = [call EXCEPT ![w] = c]
    BY <2>1, <2>2, <2>4, DraftyCarried DEF Ready
  <2>5. CASE call' = [call EXCEPT ![w] = e]
    BY <2>1, <2>2, <2>5, DraftyCarried DEF Ready
  <2> QED
    BY <2>1, <2>3, <2>4, <2>5
<1>7. CASE ExtractEnds(w)
  BY <1>7, DraftyReturns DEF ExtractEnds
<1>8. CASE PutPage(w)
  <2>1. call[w].to \in Page
    BY <1>8 DEF PutPage, Ready, Shape
  <2> QED
    BY <1>1, <1>8, <2>1 DEF PutPage
<1>9. ASSUME NEW p \in Page, NEW n, ExtractMember(w, p, n) PROVE Drafty(d)'
  BY <1>1, <1>9 DEF ExtractMember
<1> QED
  BY <1>2, <1>3, <1>4, <1>5, <1>6, <1>7, <1>8, <1>9, DraftyMoves DEF PageStep

LEMMA DraftyDrafts ==
  ASSUME NEW w \in Worker, NEW d \in Draft, Ready(w, d), DraftStep(w)
  PROVE  Drafty(d)'
BY DraftyLists, DraftyCounts, DraftyLoads, DraftyOpens, DraftyWrites, DraftyTakes,
   DraftyUnlinks DEF DraftStep

(* A kill leaves what it was at disturbed, and the rest alone.             *)
LEMMA DraftyCrashes ==
  ASSUME NEW w \in Worker, NEW d \in Draft, TypeInv, Drafty(d),
         Crash(w), disturbed' = disturbed \cup Struck(w)
  PROVE  Drafty(d)'
<1>1. /\ call' = [call EXCEPT ![w] = Resting] /\ UNCHANGED drafts
      /\ call'[w] = Resting /\ \A v \in Worker \ {w} : call'[v] = call[v]
  BY DEF Crash, TypeInv, TypeOK
<1>2. ~WorksOn(w, d)'
  BY <1>1, RestingIsCall, WorkspaceAssumption DEF WorksOn
<1>3. sent[d] = 0 => Unborn(d)'
  BY <1>1, <1>2 DEF Drafty, Unborn, WorksOn, drafts
<1>4. ASSUME d \notin disturbed' PROVE Quietly(d)'
  <2>1. Quietly(d) /\ ~WorksOn(w, d)
    BY <1>4 DEF Drafty, Struck
  <2>2. Writing(d)' <=> Writing(d)
    BY <1>1, <1>2, <2>1 DEF Writing, WorksOn
  <2>3. \A v \in Worker \ {w} : Knows(v, d)' <=> Knows(v, d)
    BY <1>1 DEF Knows, drafts
  <2> QED
    BY <1>1, <1>2, <2>1, <2>2, <2>3 DEF Quietly, WorksOn, drafts
<1> QED
  BY <1>1, <1>3, <1>4 DEF Drafty, drafts

(* A draft passes its age: nobody but the clock moves.                     *)
LEMMA DraftyAges ==
  ASSUME NEW d \in Draft, Drafty(d), disturbed \subseteq disturbed', old \subseteq old',
         UNCHANGED <<draft, sent, acked, gone, call>>
  PROVE  Drafty(d)'
<1>1. sent'[d] = 0 => Unborn(d)'
  BY DEF Drafty, Unborn, WorksOn
<1>2. Writing(d)' <=> Writing(d)
  BY DEF Writing
<1>3. \A w \in Worker : Knows(w, d) => Knows(w, d)'
  BY DEF Knows
<1>4. Quietly(d) => Quietly(d)'
  BY <1>2, <1>3 DEF Quietly
<1> QED
  BY <1>1, <1>4 DEF Drafty

LEMMA FileStep == TypeInv /\ FileInv /\ [Next]_vars => FileInv'
<1> SUFFICES ASSUME TypeInv, FileInv, [Next]_vars PROVE FileInv'
  OBVIOUS
<1>1. Shared \subseteq disturbed /\ \A d \in Draft : Drafty(d)
  BY FileParts
<1>2. \A w \in Worker : call[w] \in Calls /\ Shape(w)
  BY DEF TypeInv, TypeOK, ShapeInv
<1>3. Shared' \subseteq disturbed'
  <2>1. CASE disturbed' = disturbed \cup Shared'
    BY <2>1
  <2>2. ASSUME NEW w \in Worker, Crash(w), disturbed' = disturbed \cup Struck(w)
        PROVE  Shared' \subseteq disturbed'
    <3>1. call'[w] = Resting /\ \A v \in Worker \ {w} : call'[v] = call[v]
      BY <2>2 DEF Crash, TypeInv, TypeOK
    <3>2. \A d \in Draft, v \in Worker : WorksOn(v, d)' => WorksOn(v, d)
      BY <3>1, RestingIsCall, WorkspaceAssumption DEF WorksOn
    <3>3. Shared' \subseteq Shared
      BY <3>2 DEF Shared
    <3> QED
      BY <1>1, <2>2, <3>3
  <2>3. CASE UNCHANGED <<call, disturbed>>
    BY <1>1, <2>3 DEF Shared, WorksOn
  <2>4. ASSUME NEW f, NEW q \in Page, call' = Moved(f, q), disturbed \subseteq disturbed'
        PROVE  Shared' \subseteq disturbed'
    <3>1. \A c \in Calls :
            /\ Detached(c, q).on = c.on /\ Detached(c, q).todo = c.todo
            /\ [c EXCEPT !.to = q].on = c.on /\ [c EXCEPT !.to = q].todo = c.todo
      BY DEF Detached, Calls
    <3>2. \A v \in Worker : call'[v].on = call[v].on /\ call'[v].todo = call[v].todo
      BY <1>2, <2>4, <3>1 DEF Moved
    <3>3. Shared' = Shared
      BY <3>2 DEF Shared, WorksOn
    <3> QED
      BY <1>1, <2>4, <3>3
  <2> QED
    BY <2>1, <2>2, <2>3, <2>4 DEF Next, Step, Quiet, vars, Move, MoveDraft
<1>4. ASSUME NEW d \in Draft PROVE Drafty(d)'
  <2>1. ASSUME NEW w \in Worker, DraftStep(w) \/ PageStep(w), disturbed' = disturbed \cup Shared'
        PROVE  Drafty(d)'
    <3>1. Ready(w, d)
      BY <1>1, <1>2, <1>3, <2>1 DEF Ready
    <3> QED
      BY <2>1, <3>1, DraftyDrafts, DraftyPages
  <2>2. ASSUME NEW e \in Draft, Age(e), disturbed' = disturbed \cup Shared' PROVE Drafty(d)'
    BY <1>1, <2>2, DraftyAges DEF Age
  <2>3. ASSUME NEW w \in Worker, Crash(w), disturbed' = disturbed \cup Struck(w)
        PROVE  Drafty(d)'
    BY <1>1, <2>3, DraftyCrashes
  <2>4. CASE (Quiet /\ UNCHANGED disturbed) \/ UNCHANGED vars
    BY <1>1, <2>4, DraftyAges DEF Quiet, vars, drafts
  <2>5. ASSUME NEW w \in Worker, NEW p \in Page, NEW q \in Page, Move(w, p, q),
               disturbed' = disturbed
        PROVE  Drafty(d)'
    <3>1. Ready(w, d)
      BY <1>1, <1>2, <1>3, <2>5 DEF Ready
    <3> QED
      BY <2>5, <3>1, DraftyMoves
  <2>6. ASSUME NEW w \in Worker, NEW e \in Draft, NEW q \in Page, MoveDraft(w, e, q),
               disturbed' = disturbed \cup {e}
        PROVE  Drafty(d)'
    <3>1. Ready(w, d)
      BY <1>1, <1>2, <1>3, <2>6 DEF Ready
    <3> QED
      BY <2>6, <3>1, DraftyMoved
  <2> QED
    BY <2>1, <2>2, <2>3, <2>4, <2>5, <2>6 DEF Next, Step
<1> QED
  BY <1>3, <1>4, FileParts DEF FileInv, Drafty

LEMMA FileInit == Init => FileInv
<1> SUFFICES ASSUME Init PROVE FileInv
  OBVIOUS
<1>1. \A w \in Worker, d \in Draft : ~WorksOn(w, d)
  BY RestingIsCall, WorkspaceAssumption DEF Init, WorksOn
<1>2. Shared = {}
  BY <1>1 DEF Shared
<1>3. \A d \in Draft : draft[d] = Nothing /\ acked[d] = {} /\ d \notin gone
  BY DEF Init
<1>4. \A d \in Draft : Unborn(d)
  BY <1>1, <1>3 DEF Unborn
<1>5. \A d \in Draft : Quietly(d)
  BY <1>1, <1>3 DEF Quietly, WorksOn
<1> QED
  BY <1>2, <1>4, <1>5 DEF FileInv

(* A part that was acknowledged is in the file, or has been published with *)
(* it, and what was published, discarded or expired stays away, wherever   *)
(* no two calls were at the draft at once.                                 *)
THEOREM KeptUntilGone == Spec => []DraftsAreKept
<1>1. TypeInv /\ FileInv => DraftsAreKept
  <2> SUFFICES ASSUME TypeInv, FileInv, NEW d \in Draft \ disturbed
               PROVE  /\ d \in gone => draft[d] = Nothing
                      /\ d \notin gone /\ acked[d] # {} /\ ~Writing(d) =>
                           Whole(draft[d]) /\ acked[d] = Range(draft[d].text)
                      /\ \A w \in Worker : call[w].do = "publish" /\ call[w].on = d =>
                                             Range(call[w].text) = acked[d]
    BY DEF DraftsAreKept
  <2>1. Quietly(d)
    BY DEF FileInv
  <2>2. ASSUME NEW w \in Worker, call[w].do = "publish", call[w].on = d
        PROVE  Range(call[w].text) = acked[d]
    <3>1. d \notin gone /\ acked[d] # {} /\ call[w].text = draft[d].text
      BY <2>1, <2>2 DEF Quietly, Knows
    <3>2. ~Writing(d)
      <4>1. call[w].at # "write"
        BY <2>2 DEF TypeInv, ShapeInv, Shape
      <4> QED
        BY <2>2, <4>1, AloneAt DEF FileInv, Writing, WorksOn
    <3> QED
      BY <2>1, <3>1, <3>2 DEF Quietly
  <2> QED
    BY <2>1, <2>2 DEF Quietly
<1>2. Init => TypeInv /\ FileInv
  BY TypeInit, FileInit
<1>3. TypeInv /\ FileInv /\ [Next]_vars => TypeInv' /\ FileInv'
  BY TypeStep, FileStep
<1> QED
  BY <1>1, <1>2, <1>3, PTL DEF Spec

----------------------------------------------------------------------------
(* What a call does to a draft                                             *)

(* Where a step is concerned: w, and a draft d that no two calls are at.   *)
Calm(w, d) ==
  /\ Ready(w, d) /\ d \notin disturbed' /\ Ordered(d)
  /\ Quietly(d) /\ Quietly(d)'

(* The parts but the last.                                                 *)
LEMMA AllButLastOfAppend ==
  ASSUME NEW s \in Seq(Nat), NEW n \in Nat
  PROVE  /\ AllButLast(Append(s, n)) = s
         /\ Append(s, n)[Len(Append(s, n))] = n
         /\ Len(Append(s, n)) = Len(s) + 1
BY DEF AllButLast

LEMMA AppendOfAllButLast ==
  ASSUME NEW t \in Seq(Nat), t # <<>>
  PROVE  /\ AllButLast(t) \in Seq(Nat) /\ Len(AllButLast(t)) = Len(t) - 1
         /\ t = Append(AllButLast(t), t[Len(t)])
<1> DEFINE u == SubSeq(t, 1, Len(t) - 1)
<1>1. PICK k \in Nat \ {0} : Len(t) = k
  BY EmptySeq
<1>2. \A n \in 1..k : t[n] \in Nat
  BY <1>1
<1>3. \A n \in 1..(k - 1) : t[n] \in Nat
  BY <1>2
<1>4. /\ u \in Seq(Nat) /\ Len(u) = IF 1 <= k - 1 THEN (k - 1) - 1 + 1 ELSE 0
      /\ \A n \in 1..((k - 1) - 1 + 1) : u[n] = t[1 + n - 1]
  BY <1>1, <1>3, SubSeqProperties
<1> HIDE DEF u
<1>5. u \in Seq(Nat) /\ Len(u) = k - 1 /\ \A n \in 1..(k - 1) : u[n] = t[n]
  BY <1>4
<1>6. /\ Append(u, t[k]) \in Seq(Nat) /\ Len(Append(u, t[k])) = k
      /\ \A n \in 1..k : Append(u, t[k])[n] = t[n]
  BY <1>2, <1>5, AppendProperties
<1>7. t = Append(u, t[k])
  BY <1>1, <1>6, SeqEqual
<1> QED
  BY <1>1, <1>5, <1>7 DEF AllButLast, u

(* With one call at a draft, and with none, it is seen through that call.  *)
LEMMA OneAt ==
  ASSUME NEW w \in Worker, NEW d \in Draft, \A v \in Worker \ {w} : call[v].on # d
  PROVE  /\ Writing(d) <=> call[w].on = d /\ call[w].at = "write"
         /\ d \in Coming <=> call[w].on = d /\ call[w].at \in Writes
         /\ PartsOf(d) =
              IF StateOf(d) # "there" THEN <<>>
              ELSE IF call[w].on = d /\ call[w].at = "write"
                   THEN AllButLast(call[w].text) ELSE draft[d].text
         /\ TakenOf(d) = IF call[w].on = d /\ call[w].do = "publish"
                         THEN call[w].text ELSE <<>>
<1>1. /\ Writing(d) <=> call[w].on = d /\ call[w].at = "write"
      /\ d \in Coming <=> call[w].on = d /\ call[w].at \in Writes
  BY DEF Writing, Coming, Writes
<1>2. ASSUME call[w].on = d, call[w].at = "write"
      PROVE  TextOf(At(d, "write")) = call[w].text
  <2>1. At(d, "write") = {w}
    BY <1>2 DEF At
  <2>2. (CHOOSE v \in At(d, "write") : TRUE) = w
    BY <2>1
  <2> QED
    BY <2>2 DEF TextOf
<1>3. ASSUME call[w].on = d, call[w].do = "publish"
      PROVE  TextOf(Publishing(d)) = call[w].text /\ Publishing(d) # {}
  <2>1. Publishing(d) = {w}
    BY <1>3 DEF Publishing
  <2>2. (CHOOSE v \in Publishing(d) : TRUE) = w
    BY <2>1
  <2> QED
    BY <2>1, <2>2 DEF TextOf
<1>4. ~(call[w].on = d /\ call[w].do = "publish") => Publishing(d) = {}
  BY DEF Publishing
<1> QED
  BY <1>1, <1>2, <1>3, <1>4 DEF PartsOf, TakenOf

LEMMA OneAfter ==
  ASSUME NEW w \in Worker, NEW d \in Draft, \A v \in Worker \ {w} : call'[v].on # d
  PROVE  /\ Writing(d)' <=> call'[w].on = d /\ call'[w].at = "write"
         /\ (d \in Coming)' <=> call'[w].on = d /\ call'[w].at \in Writes
         /\ PartsOf(d)' =
              IF StateOf(d)' # "there" THEN <<>>
              ELSE IF call'[w].on = d /\ call'[w].at = "write"
                   THEN AllButLast(call'[w].text) ELSE draft'[d].text
         /\ TakenOf(d)' = IF call'[w].on = d /\ call'[w].do = "publish"
                          THEN call'[w].text ELSE <<>>
<1>1. /\ Writing(d)' <=> call'[w].on = d /\ call'[w].at = "write"
      /\ (d \in Coming)' <=> call'[w].on = d /\ call'[w].at \in Writes
  BY DEF Writing, Coming, Writes
<1>2. ASSUME call'[w].on = d, call'[w].at = "write"
      PROVE  TextOf(At(d, "write"))' = call'[w].text
  <2>1. At(d, "write")' = {w}
    BY <1>2 DEF At
  <2>2. (CHOOSE v \in At(d, "write")' : TRUE) = w
    BY <2>1
  <2> QED
    BY <2>2 DEF TextOf
<1>3. ASSUME call'[w].on = d, call'[w].do = "publish"
      PROVE  TextOf(Publishing(d))' = call'[w].text /\ Publishing(d)' # {}
  <2>1. Publishing(d)' = {w}
    BY <1>3 DEF Publishing
  <2>2. (CHOOSE v \in Publishing(d)' : TRUE) = w
    BY <2>1
  <2> QED
    BY <2>1, <2>2 DEF TextOf
<1>4. ~(call'[w].on = d /\ call'[w].do = "publish") => Publishing(d)' = {}
  BY DEF Publishing
<1> QED
  BY <1>1, <1>2, <1>3, <1>4 DEF PartsOf, TakenOf

(* A step that neither begins nor ends anything at a draft is not seen.    *)
LEMMA NothingSeen ==
  ASSUME NEW w \in Worker, NEW d \in Draft, Ordered(d), Aside(w, d),
         ~(call[w].on = d /\ call[w].at \in Writes),
         ~(call'[w].on = d /\ call'[w].at \in Writes),
         call'[w].on = d /\ call'[w].do = "publish"
           <=> call[w].on = d /\ call[w].do = "publish",
         call'[w].on = d /\ call'[w].do = "publish" => call'[w].text = call[w].text,
         call'[w].on = d /\ call'[w].at \in {"unlink", "discard"} => acked[d] # {}
  PROVE  StoreStep(d) /\ Ordered(d)'
<1>1. ASSUME NEW v \in Worker
      PROVE  /\ call'[v].on = d /\ call'[v].at = "write"
                  <=> call[v].on = d /\ call[v].at = "write"
             /\ call'[v].on = d /\ call'[v].at \in Writes
                  <=> call[v].on = d /\ call[v].at \in Writes
             /\ call'[v].on = d /\ call'[v].do = "publish"
                  <=> call[v].on = d /\ call[v].do = "publish"
             /\ call[v].on = d /\ (call[v].at \in Writes \/ call[v].do = "publish")
                  => call'[v].text = call[v].text
  BY DEF Aside, Unmoved, Writes
<1>2. At(d, "write")' = At(d, "write") /\ Publishing(d)' = Publishing(d)
  BY <1>1 DEF At, Publishing
<1>3. (Writing(d)' <=> Writing(d)) /\ ((d \in Coming)' <=> d \in Coming)
  BY <1>1 DEF Writing, Coming, Writes
<1>4. Writing(d) => TextOf(At(d, "write"))' = TextOf(At(d, "write"))
  <2> SUFFICES ASSUME Writing(d)
               PROVE  TextOf(At(d, "write"))' = TextOf(At(d, "write"))
    OBVIOUS
  <2> DEFINE x == CHOOSE v \in At(d, "write") : TRUE
  <2>1. x \in At(d, "write")
    BY DEF Writing, At
  <2>2. (CHOOSE v \in At(d, "write") : TRUE)' = x
    BY <1>2
  <2> HIDE DEF x
  <2>3. x \in Worker /\ call[x].on = d /\ call[x].at = "write"
    BY <2>1 DEF At
  <2>4. call'[x].text = call[x].text
    BY <1>1, <2>3 DEF Writes
  <2> QED
    BY <2>2, <2>4 DEF TextOf, x
<1>5. Publishing(d) # {} => TextOf(Publishing(d))' = TextOf(Publishing(d))
  <2> SUFFICES ASSUME Publishing(d) # {}
               PROVE  TextOf(Publishing(d))' = TextOf(Publishing(d))
    OBVIOUS
  <2> DEFINE x == CHOOSE v \in Publishing(d) : TRUE
  <2>1. x \in Publishing(d)
    OBVIOUS
  <2>2. (CHOOSE v \in Publishing(d) : TRUE)' = x
    BY <1>2
  <2> HIDE DEF x
  <2>3. x \in Worker /\ call[x].on = d /\ call[x].do = "publish"
    BY <2>1 DEF Publishing
  <2>4. call'[x].text = call[x].text
    BY <1>1, <2>3
  <2> QED
    BY <2>2, <2>4 DEF TextOf, x
<1>6. StateOf(d)' = StateOf(d)
  BY DEF StateOf, Aside
<1>7. PartsOf(d)' = PartsOf(d)
  BY <1>3, <1>4, <1>6 DEF PartsOf, Aside, AllButLast
<1>8. TakenOf(d)' = TakenOf(d)
  BY <1>2, <1>5 DEF TakenOf
<1>9. Ordered(d)'
  <2>1. (acked[d] \subseteq 1..sent[d])' /\ (sent[d] # 0 /\ acked[d] = {} => d \in Coming)'
    BY <1>3 DEF Ordered, Aside
  <2>2. ASSUME NEW v \in Worker, call'[v].on = d
        PROVE  /\ call'[v].at \in {"open", "write"} => Adds(v, d)'
               /\ call'[v].at \in {"unlink", "discard"} => acked'[d] # {}
    <3>1. ASSUME call'[v].at \in {"open", "write"} PROVE Adds(v, d)'
      <4>1. call[v].on = d /\ call[v].at \in {"open", "write"} /\ call'[v].text = call[v].text
        BY <1>1, <2>2, <3>1 DEF Writes
      <4>2. Adds(v, d)
        BY <4>1 DEF Ordered
      <4> QED
        BY <4>1, <4>2 DEF Adds, Aside
    <3>2. ASSUME call'[v].at \in {"unlink", "discard"} PROVE acked'[d] # {}
      BY <2>2, <3>2 DEF Ordered, Aside, Unmoved
    <3> QED
      BY <3>1, <3>2
  <2> QED
    BY <2>1, <2>2 DEF Ordered
<1> QED
  BY <1>6, <1>7, <1>8, <1>9 DEF StoreStep

(* A draft is one of three things.                                         *)
LEMMA StateSeen ==
  ASSUME NEW d \in Draft
  PROVE  /\ StateOf(d) = "there" <=> d \notin gone /\ acked[d] # {}
         /\ StateOf(d) = "new" <=> d \notin gone /\ acked[d] = {}
         /\ StateOf(d)' = "there" <=> d \notin gone' /\ acked'[d] # {}
         /\ StateOf(d)' = "new" <=> d \notin gone' /\ acked'[d] = {}
BY DEF StateOf

(* A step that only one call takes, and that leaves the files alone.       *)
LEMMA CalmRead ==
  ASSUME NEW w \in Worker, NEW d \in Draft, Calm(w, d), NEW c,
         call' = [call EXCEPT ![w] = c], UNCHANGED drafts,
         ~(call[w].on = d /\ call[w].at \in Writes),
         ~(c.on = d /\ c.at \in Writes),
         c.on = d /\ c.do = "publish" <=> call[w].on = d /\ call[w].do = "publish",
         c.on = d /\ c.do = "publish" => c.text = call[w].text,
         c.on = d /\ c.at \in {"unlink", "discard"} => acked[d] # {}
  PROVE  StoreStep(d) /\ Ordered(d)'
<1>1. call'[w] = c /\ \A v \in Worker \ {w} : call'[v] = call[v]
  BY DEF Calm, Ready, TypeInv, TypeOK
<1>2. Aside(w, d)
  BY <1>1 DEF Aside, Unmoved, drafts
<1> QED
  BY <1>1, <1>2, NothingSeen DEF Calm

(* The call ends, and it was no publish.                                   *)
LEMMA CalmReturns ==
  ASSUME NEW w \in Worker, NEW d \in Draft, Calm(w, d), Return(w), UNCHANGED drafts,
         call[w].at \notin Writes, ~(call[w].on = d /\ call[w].do = "publish")
  PROVE  StoreStep(d) /\ Ordered(d)'
BY RestingIsCall, CalmRead, WorkspaceAssumption DEF Return, Continue

LEMMA CalmLists ==
  ASSUME NEW w \in Worker, NEW d \in Draft, Calm(w, d),
         \/ \E do \in {"new", "list"} : Arrive(w, do)
         \/ \E e \in Draft : ExpireReads(w, e)
         \/ Listed(w)
  PROVE  StoreStep(d) /\ Ordered(d)'
<1>1. ASSUME NEW do \in {"new", "list"}, Arrive(w, do) PROVE StoreStep(d) /\ Ordered(d)'
  <2> DEFINE c == [Resting EXCEPT !.do = do, !.at = "expire", !.todo = Existing]
  <2>1. /\ call' = [call EXCEPT ![w] = c] /\ UNCHANGED drafts /\ call[w].at = "rest"
        /\ call[w] = Resting
    BY <1>1 DEF Arrive, Begin, drafts, Calm, Ready, Shape
  <2>2. c.at = "expire" /\ c.on = Nothing
    BY RestingIsCall DEF Calls
  <2> HIDE DEF c
  <2> QED
    BY <2>1, <2>2, CalmRead, RestingIsCall, WorkspaceAssumption DEF Writes
<1>2. ASSUME NEW e \in Draft, ExpireReads(w, e) PROVE StoreStep(d) /\ Ordered(d)'
  <2> DEFINE doomed == ~Whole(draft[e]) \/ e \in old
             c == [call[w] EXCEPT !.todo = @ \ {e},
                                  !.on = IF doomed THEN e ELSE Nothing,
                                  !.at = IF doomed THEN "unlink" ELSE "expire"]
  <2>1. /\ call' = [call EXCEPT ![w] = c] /\ UNCHANGED drafts
        /\ call[w].at = "expire" /\ e \in call[w].todo
    BY <1>2 DEF ExpireReads, Continue, drafts
  <2>2. /\ c.at \in {"unlink", "expire"} /\ c.do = call[w].do
        /\ c.on \in {e, Nothing}
    BY DEF Calm, Ready, Calls
  <2>3. call[w].do \in {"new", "list"} /\ call[w].on = Nothing
    BY <2>1 DEF Calm, Ready, Shape
  <2> HIDE DEF c
  <2>4. d = e => acked[d] # {}
    BY <2>1 DEF Calm, Quietly
  <2> QED
    BY <2>1, <2>2, <2>3, <2>4, CalmRead, WorkspaceAssumption DEF Writes
<1>3. CASE Listed(w)
  <2>1. call[w].at = "expire" /\ call[w].on = Nothing
    BY <1>3 DEF Listed, Calm, Ready, Shape
  <2> QED
    BY <1>3, <2>1, CalmReturns, WorkspaceAssumption DEF Listed, Writes
<1> QED
  BY <1>1, <1>2, <1>3

LEMMA CalmCounts ==
  ASSUME NEW w \in Worker, NEW d \in Draft, Calm(w, d), NEW e \in Draft, Count(w, e)
  PROVE  StoreStep(d) /\ Ordered(d)'
<1>1. call[w].at = "expire" /\ call[w].do = "new" /\ call[w].on = Nothing
  BY DEF Count, Calm, Ready, Shape
<1>2. CASE Return(w) /\ UNCHANGED sent
  <2>1. UNCHANGED drafts
    BY <1>2 DEF Count, drafts
  <2> QED
    BY <1>1, <1>2, <2>1, CalmReturns, WorkspaceAssumption DEF Writes
<1>3. CASE ~(Return(w) /\ UNCHANGED sent)
  <2> DEFINE c == [call[w] EXCEPT !.at = "open", !.on = e, !.text = <<1>>]
  <2>1. /\ sent[e] = 0 /\ sent' = [sent EXCEPT ![e] = 1]
        /\ call' = [call EXCEPT ![w] = c] /\ UNCHANGED <<draft, acked, old, gone>>
    BY <1>3 DEF Count, Continue
  <2>2. c.at = "open" /\ c.do = "new" /\ c.on = e /\ c.text = <<1>>
    BY <1>1 DEF Calm, Ready, Calls
  <2>3. call'[w] = c /\ \A v \in Worker \ {w} : call'[v] = call[v]
    BY <2>1 DEF Calm, Ready, TypeInv, TypeOK
  <2> HIDE DEF c
  <2>4. CASE d = e
    <3>1. Unborn(d) /\ sent'[d] = 1
      BY <2>1, <2>4 DEF Calm, Ready, Drafty, TypeInv, TypeOK
    <3>2. /\ acked[d] = {} /\ \A v \in Worker : call[v].on # d
          /\ \A v \in Worker \ {w} : call'[v].on # d
      BY <2>3, <3>1 DEF Unborn, WorksOn
    <3>3. UNCHANGED <<StateOf(d), PartsOf(d), TakenOf(d)>>
      <4>1. StateOf(d) = "new" /\ StateOf(d)' = "new"
        BY <2>1, <3>1, StateSeen DEF Unborn
      <4> QED
        BY <2>2, <2>3, <3>2, <4>1, OneAt, OneAfter
    <3>4. Adds(w, d)'
      <4>1. AllButLast(<<1>>) = <<>> /\ Len(<<1>>) = 1 /\ Range(<<>>) = {}
        BY DEF AllButLast, Range
      <4>2. call'[w].text = <<1>> /\ acked'[d] = {}
        BY <2>1, <2>2, <2>3, <3>2
      <4>3. AllButLast(call[w].text)' = AllButLast(<<1>>)
        BY <4>2 DEF AllButLast
      <4> QED
        BY <3>1, <4>1, <4>2, <4>3 DEF Adds
    <3>5. Ordered(d)'
      <4>1. (d \in Coming)'
        BY <2>2, <2>3, <2>4, <3>2, OneAfter DEF Writes
      <4> QED
        BY <2>1, <2>2, <2>3, <3>2, <3>4, <4>1 DEF Ordered
    <3> QED
      BY <3>3, <3>5 DEF StoreStep
  <2>5. CASE d # e
    <3>1. sent'[d] = sent[d]
      BY <2>1, <2>5 DEF Calm, Ready, TypeInv, TypeOK
    <3>2. Aside(w, d)
      BY <2>1, <2>3, <3>1 DEF Aside, Unmoved
    <3> QED
      BY <1>1, <2>2, <2>3, <2>5, <3>2, NothingSeen, WorkspaceAssumption DEF Calm
  <2> QED
    BY <2>4, <2>5
<1> QED
  BY <1>2, <1>3

LEMMA CalmLoads ==
  ASSUME NEW w \in Worker, NEW d \in Draft, Calm(w, d), NEW e \in Draft, AddLoads(w, e)
  PROVE  StoreStep(d) /\ Ordered(d)'
<1> DEFINE joined == Append(draft[e].text, sent[e] + 1)
           c == [Resting EXCEPT !.do = "add", !.at = "open", !.on = e, !.text = joined]
<1>1. /\ Whole(draft[e]) /\ Len(joined) <= MaxDraftSize
      /\ sent' = [sent EXCEPT ![e] = sent[e] + 1]
      /\ call[w].at = "rest" /\ call' = [call EXCEPT ![w] = c]
      /\ UNCHANGED <<draft, acked, old, gone>>
  BY DEF AddLoads, Begin
<1>2. c.at = "open" /\ c.do = "add" /\ c.on = e /\ c.text = joined /\ c.todo = {}
  BY RestingIsCall DEF Calls
<1>3. /\ call'[w] = c /\ \A v \in Worker \ {w} : call'[v] = call[v]
      /\ call[w] = Resting
  BY <1>1 DEF Calm, Ready, TypeInv, TypeOK, Shape
<1> HIDE DEF c
<1>4. CASE d = e
  <2>1. \A v \in Worker \ {w} : call[v].on # d /\ call'[v].on # d
    BY <1>2, <1>3, <1>4, AloneAfter DEF Calm, Ready, WorksOn
  <2>2. call[w].on # d /\ ~Writing(d)
    BY <1>3, <2>1, RestingIsCall, WorkspaceAssumption DEF Writing
  <2>3. d \notin gone /\ acked[d] # {} /\ acked[d] = Range(draft[d].text)
    BY <1>1, <1>4, <2>2 DEF Calm, Quietly, Whole
  <2>4. draft[d].text \in Seq(Nat) /\ sent[d] \in Nat /\ sent'[d] = sent[d] + 1
    BY <1>1, <1>4 DEF Calm, Ready, TypeInv, TypeOK, Whole, Contents
  <2>5. UNCHANGED <<StateOf(d), PartsOf(d), TakenOf(d)>>
    <3>1. StateOf(d) = "there" /\ StateOf(d)' = "there"
      BY <1>1, <2>3, StateSeen
    <3> QED
      BY <1>1, <1>2, <1>3, <2>1, <2>2, <3>1, OneAt, OneAfter
  <2>6. Adds(w, d)'
    <3>1. /\ joined[Len(joined)] = sent'[d] /\ AllButLast(joined) = draft[d].text
          /\ Len(joined) <= MaxDraftSize
      BY <1>1, <1>4, <2>4, AllButLastOfAppend
    <3>2. sent'[d] \notin acked[d]
      BY <2>4 DEF Calm, Ordered
    <3>3. call'[w].text = joined /\ AllButLast(call[w].text)' = AllButLast(joined)
      BY <1>2, <1>3 DEF AllButLast
    <3> HIDE DEF joined
    <3> QED
      BY <1>1, <2>3, <3>1, <3>2, <3>3 DEF Adds
  <2>7. acked'[d] \subseteq 1..sent'[d] /\ acked'[d] # {}
    BY <1>1, <2>3, <2>4 DEF Calm, Ordered
  <2> QED
    BY <1>2, <1>3, <2>1, <2>5, <2>6, <2>7 DEF StoreStep, Ordered
<1>5. CASE d # e
  <2>1. sent'[d] = sent[d]
    BY <1>1, <1>5 DEF Calm, Ready, TypeInv, TypeOK
  <2>2. Aside(w, d)
    BY <1>1, <1>3, <2>1 DEF Aside, Unmoved
  <2> QED
    BY <1>2, <1>3, <1>5, <2>2, NothingSeen, RestingIsCall, WorkspaceAssumption DEF Calm
<1> QED
  BY <1>4, <1>5

LEMMA CalmOpens ==
  ASSUME NEW w \in Worker, NEW d \in Draft, Calm(w, d), OpenDraft(w)
  PROVE  StoreStep(d) /\ Ordered(d)'
<1> DEFINE e == call[w].on
           c == [call[w] EXCEPT !.at = "write", !.fd = TRUE]
<1>1. /\ call[w].at = "open" /\ draft' = [draft EXCEPT ![e] = Truncated]
      /\ call' = [call EXCEPT ![w] = c] /\ UNCHANGED <<sent, acked, old, gone>>
  BY DEF OpenDraft, Continue
<1>2. call[w].do \in {"new", "add"} /\ e \in Draft
  BY <1>1 DEF Calm, Ready, Shape
<1>3. c.at = "write" /\ c.do = call[w].do /\ c.on = e /\ c.text = call[w].text
  BY DEF Calm, Ready, Calls
<1>4. call'[w] = c /\ \A v \in Worker \ {w} : call'[v] = call[v]
  BY <1>1 DEF Calm, Ready, TypeInv, TypeOK
<1> HIDE DEF c
<1>5. CASE d = e
  <2>1. \A v \in Worker \ {w} : call[v].on # d /\ call'[v].on # d
    BY <1>3, <1>4, <1>5, AloneAfter DEF Calm, Ready, WorksOn
  <2>2. Adds(w, d) /\ Knows(w, d) /\ d \notin gone
    BY <1>1, <1>5 DEF Calm, Ordered, Quietly, Knows
  <2>3. acked[d] # {} => AllButLast(call[w].text) = draft[d].text
    <3> SUFFICES ASSUME acked[d] # {} PROVE AllButLast(call[w].text) = draft[d].text
      OBVIOUS
    <3>1. call[w].text = Append(draft[d].text, sent[d])
      BY <1>1, <1>2, <2>2 DEF Knows
    <3>2. ~Writing(d)
      BY <1>1, <2>1 DEF Writing
    <3>3. draft[d].text \in Seq(Nat) /\ sent[d] \in Nat
      BY <2>2, <3>2 DEF Calm, Quietly, Ready, TypeInv, TypeOK, Whole, Contents
    <3> QED
      BY <3>1, <3>3, AllButLastOfAppend
  <2>4. AllButLast(call[w].text)' = AllButLast(call[w].text)
    BY <1>3, <1>4 DEF AllButLast
  <2>5. UNCHANGED <<StateOf(d), PartsOf(d), TakenOf(d)>>
    <3>1. /\ StateOf(d)' = StateOf(d)
          /\ StateOf(d) = "there" <=> acked[d] # {}
      BY <1>1, <2>2, StateSeen DEF StateOf
    <3> QED
      BY <1>1, <1>2, <1>3, <1>4, <1>5, <2>1, <2>3, <2>4, <3>1, OneAt, OneAfter
  <2>6. Adds(w, d)'
    BY <1>1, <1>3, <1>4, <2>2, <2>4 DEF Adds
  <2>7. (d \in Coming)'
    BY <1>3, <1>4, <1>5, <2>1, OneAfter DEF Writes
  <2> QED
    BY <1>1, <1>3, <1>4, <2>1, <2>5, <2>6, <2>7 DEF StoreStep, Ordered, Calm
<1>6. CASE d # e
  <2>1. draft'[d] = draft[d]
    BY <1>1, <1>6 DEF Calm, Ready, TypeInv, TypeOK
  <2>2. Aside(w, d)
    BY <1>1, <1>4, <2>1 DEF Aside, Unmoved
  <2> QED
    BY <1>3, <1>4, <1>6, <2>2, NothingSeen DEF Calm
<1> QED
  BY <1>5, <1>6

(* The part is there: this is the step of the store.                       *)
LEMMA CalmWrites ==
  ASSUME NEW w \in Worker, NEW d \in Draft, Calm(w, d), WriteDraft(w)
  PROVE  StoreStep(d) /\ Ordered(d)'
<1> DEFINE c == call[w]
           e == c.on
<1>1. /\ c.at = "write"
      /\ draft' = IF c.fd /\ c.to = Nothing
                    THEN [draft EXCEPT ![e] = Overwritten(draft[e], c.text)]
                    ELSE draft
      /\ acked' = [acked EXCEPT ![e] = acked[e] \cup {c.text[Len(c.text)]}]
      /\ call' = [call EXCEPT ![w] = Resting] /\ UNCHANGED <<sent, old, gone>>
  BY DEF WriteDraft, Return, Continue
<1>2. /\ e \in Draft /\ c.do \in {"new", "add"}
      /\ c.text # <<>> /\ c.text \in Seq(Nat)
  BY <1>1 DEF Calm, Ready, Shape, Calls
<1>3. call'[w] = Resting /\ \A v \in Worker \ {w} : call'[v] = call[v]
  BY <1>1 DEF Calm, Ready, TypeInv, TypeOK
<1>4. call'[w].on = Nothing
  BY <1>3, RestingIsCall
<1>5. CASE d = e
  <2>1. /\ \A v \in Worker \ {w} : call[v].on # d /\ call'[v].on # d
        /\ \A v \in Worker : call'[v].on # d
    <3>1. d \notin Shared /\ d \notin disturbed
      BY DEF Calm, Ready
    <3> QED
      BY <1>3, <1>4, <1>5, <3>1, WorkspaceAssumption DEF Shared, WorksOn
  <2>2. Adds(w, d) /\ Knows(w, d) /\ d \notin gone
    BY <1>1, <1>5 DEF Calm, Ordered, Quietly, Knows
  <2> DEFINE part == sent[d]
             before == AllButLast(c.text)
  <2>3. /\ before \in Seq(Nat) /\ c.text = Append(before, part)
        /\ Len(before) = Len(c.text) - 1 /\ Range(before) = acked[d]
        /\ part \in Nat /\ part \notin Range(before)
        /\ acked[d] = {} \/ Len(c.text) <= MaxDraftSize
    BY <1>2, <2>2, AppendOfAllButLast DEF Adds, Calm, Ready, TypeInv, TypeOK
  <2>4. draft'[d].text = c.text /\ acked'[d] = acked[d] \cup {part}
    <3>1. c.fd /\ c.to = Nothing /\ draft[d] = Truncated /\ c.text[Len(c.text)] = part
      BY <1>1, <2>2 DEF Knows, Adds
    <3> QED
      BY <1>1, <1>5, <3>1 DEF Calm, Ready, TypeInv, TypeOK, Overwritten
  <2>5. PartsOf(d) = before
    <3>1. CASE acked[d] = {}
      <4>1. before = <<>>
        BY <2>3, <3>1, EmptySeq DEF Range
      <4> QED
        BY <1>1, <3>1, <4>1, <2>1, <2>2, OneAt, StateSeen
    <3>2. CASE acked[d] # {}
      BY <1>1, <1>5, <3>2, <2>1, <2>2, OneAt, StateSeen
    <3> QED
      BY <3>1, <3>2
  <2>6. /\ PartsOf(d)' = c.text /\ StateOf(d)' = "there" /\ StateOf(d) # "gone"
        /\ TakenOf(d) = <<>> /\ TakenOf(d)' = <<>>
        /\ StateOf(d) = "there" => Len(before) < MaxDraftSize
    <3>1. StateOf(d)' = "there" /\ StateOf(d) # "gone"
      BY <1>1, <2>2, <2>4, StateSeen DEF StateOf
    <3>2. TakenOf(d) = <<>>
      BY <1>2, <2>1, OneAt
    <3>3. TakenOf(d)' = <<>> /\ PartsOf(d)' = c.text
      BY <2>1, <2>4, <3>1, OneAfter
    <3>4. StateOf(d) = "there" => Len(before) < MaxDraftSize
      <4>1. Len(c.text) \in Nat
        BY <1>2
      <4> QED
        BY <2>3, <4>1, StateSeen, WorkspaceAssumption
    <3> QED
      BY <3>1, <3>2, <3>3, <3>4
  <2> HIDE DEF before, part
  <2>7. Store(d)!Add
    <3>1. part \in Range(c.text)
      BY <2>3, RangeOfAppend DEF Range
    <3> QED
      BY <2>3, <2>5, <2>6, <3>1 DEF Store!Add, Store!Range, Range
  <2>8. Ordered(d)'
    <3>1. part \in 1..part
      <4>1. part # 0
        BY <1>5 DEF part, Calm, Ready, Drafty, Unborn, WorksOn
      <4> QED
        BY <2>3, <4>1
    <3>2. acked[d] \subseteq 1..part /\ sent'[d] = part
      BY <1>1 DEF part, Calm, Ordered
    <3> QED
      BY <2>1, <2>4, <3>1, <3>2 DEF Ordered
  <2> QED
    BY <2>7, <2>8 DEF StoreStep, Store!Next
<1>6. CASE d # e
  <2>1. draft'[d] = draft[d] /\ acked'[d] = acked[d]
    BY <1>1, <1>6 DEF Calm, Ready, TypeInv, TypeOK
  <2>2. Aside(w, d)
    BY <1>1, <1>3, <2>1 DEF Aside, Unmoved
  <2> QED
    BY <1>4, <1>6, <2>2, NothingSeen, WorkspaceAssumption DEF Calm
<1> QED
  BY <1>5, <1>6

LEMMA CalmTakes ==
  ASSUME NEW w \in Worker, NEW d \in Draft, Calm(w, d), NEW e \in Draft,
         (\E p \in Page : PublishLoads(w, e, p)) \/ AskDiscard(w, e)
  PROVE  StoreStep(d) /\ Ordered(d)'
<1>1. ASSUME NEW p \in Page, PublishLoads(w, e, p) PROVE StoreStep(d) /\ Ordered(d)'
  <2> DEFINE c == [Resting EXCEPT !.do = "publish", !.at = "check", !.on = e,
                     !.text = draft[e].text, !.to = p, !.size = Len(draft[e].text)]
  <2>1. /\ Whole(draft[e]) /\ call[w].at = "rest" /\ call[w] = Resting
        /\ call' = [call EXCEPT ![w] = c] /\ UNCHANGED drafts
    BY <1>1 DEF PublishLoads, Begin, Calm, Ready, Shape
  <2>2. c.at = "check" /\ c.do = "publish" /\ c.on = e /\ c.text = draft[e].text
    BY RestingIsCall DEF Calls
  <2>3. call'[w] = c /\ \A v \in Worker \ {w} : call'[v] = call[v]
    BY <2>1 DEF Calm, Ready, TypeInv, TypeOK
  <2> HIDE DEF c
  <2>4. CASE d = e
    <3>1. \A v \in Worker \ {w} : call[v].on # d /\ call'[v].on # d
      BY <2>2, <2>3, <2>4, AloneAfter DEF Calm, Ready, WorksOn
    <3>2. call[w].on # d /\ ~Writing(d)
      BY <2>1, <3>1, RestingIsCall, WorkspaceAssumption DEF Writing
    <3>3. d \notin gone /\ acked[d] # {}
      BY <2>1, <2>4, <3>2 DEF Calm, Quietly, Whole
    <3>4. StateOf(d) = "there" /\ StateOf(d)' = "there"
      BY <2>1, <3>3, StateSeen DEF drafts
    <3>5. /\ TakenOf(d) = <<>> /\ TakenOf(d)' = draft[d].text
          /\ PartsOf(d) = draft[d].text /\ PartsOf(d)' = draft[d].text
      BY <2>1, <2>2, <2>3, <2>4, <3>1, <3>2, <3>4, OneAt, OneAfter DEF drafts
    <3>6. Store(d)!Next
      BY <3>4, <3>5 DEF Store!Next, Store!Take
    <3>7. Ordered(d)'
      BY <2>1, <2>2, <2>3, <3>1, <3>3 DEF Calm, Ordered, drafts
    <3> QED
      BY <3>6, <3>7 DEF StoreStep
  <2>5. CASE d # e
    BY <2>1, <2>2, <2>5, CalmRead, RestingIsCall, WorkspaceAssumption
  <2> QED
    BY <2>4, <2>5
<1>2. CASE AskDiscard(w, e)
  <2> DEFINE c == [Resting EXCEPT !.do = "discard", !.at = "discard", !.on = e]
  <2>1. /\ sent[e] # 0 /\ call[w].at = "rest" /\ call[w] = Resting
        /\ call' = [call EXCEPT ![w] = c] /\ UNCHANGED drafts
    BY <1>2 DEF AskDiscard, Begin, Calm, Ready, TypeInv, TypeOK, Shape
  <2>2. c.at = "discard" /\ c.do = "discard" /\ c.on = e
    BY RestingIsCall DEF Calls
  <2>3. call'[w] = c /\ \A v \in Worker \ {w} : call'[v] = call[v]
    BY <2>1 DEF Calm, Ready, TypeInv, TypeOK
  <2> HIDE DEF c
  <2>4. d = e => acked[d] # {}
    <3> SUFFICES ASSUME d = e PROVE acked[d] # {}
      OBVIOUS
    <3>1. \A v \in Worker \ {w} : call[v].on # d
      BY <2>2, <2>3, AloneAfter DEF Calm, Ready, WorksOn
    <3>2. d \notin Coming
      BY <2>1, <3>1 DEF Coming
    <3> QED
      BY <2>1, <3>2 DEF Calm, Ordered
  <2> QED
    BY <2>1, <2>2, <2>4, CalmRead, RestingIsCall, WorkspaceAssumption DEF Writes
<1> QED
  BY <1>1, <1>2

LEMMA CalmUnlinks ==
  ASSUME NEW w \in Worker, NEW d \in Draft, Calm(w, d), ExpireUnlinks(w) \/ Discard(w)
  PROVE  StoreStep(d) /\ Ordered(d)'
<1> DEFINE e == call[w].on
<1>1. /\ call[w].at \in {"unlink", "discard"} /\ e \in Draft
      /\ draft' = [draft EXCEPT ![e] = Nothing]
      /\ e \in old \/ call[w].at = "discard" => gone' = gone \cup {e}
      /\ gone' \in {gone, gone \cup {e}}
      /\ UNCHANGED <<sent, acked, old>>
  BY DEF ExpireUnlinks, Discard, Calm, Ready, Shape
<1>2. ASSUME NEW v \in Worker \ {w}
      PROVE  /\ call'[v].at = call[v].at /\ call'[v].do = call[v].do
             /\ call'[v].on = call[v].on /\ call'[v].text = call[v].text
             /\ call'[v].todo = call[v].todo
             /\ call[v].at = "write" /\ call[v].on # e /\ call[v].to = Nothing =>
                  call'[v].fd = call[v].fd /\ call'[v].to = Nothing
  <2>1. call'[v] = Detached(call[v], e) /\ call[v] \in Calls
    BY DEF ExpireUnlinks, Discard, Detach, Calm, Ready, TypeInv, TypeOK
  <2> QED
    BY <2>1 DEF Detached, OnFile, Target, Calls
<1>3. call'[w].on = Nothing
  <2>1. CASE ExpireUnlinks(w)
    <3>1. call'[w] = [Detached(call[w], e) EXCEPT !.on = Nothing, !.at = "expire"]
      BY <2>1 DEF ExpireUnlinks, Detach, Calm, Ready, TypeInv, TypeOK
    <3>2. Detached(call[w], e) \in Calls
      BY DEF Detached, Calls, Calm, Ready
    <3> QED
      BY <3>1, <3>2 DEF Calls
  <2>2. CASE Discard(w)
    BY <2>2, RestingIsCall DEF Discard, Detach, Calm, Ready, TypeInv, TypeOK
  <2> QED
    BY <2>1, <2>2
<1>4. CASE d = e
  <2>1. acked[d] # {} /\ Knows(w, d)
    BY <1>1, <1>4 DEF Calm, Ordered, Quietly
  <2>2. d \in gone'
    BY <1>1, <1>4, <2>1 DEF Knows
  <2>3. /\ \A v \in Worker \ {w} : call[v].on # d
        /\ \A v \in Worker : call'[v].on # d
    <3>1. d \notin Shared
      BY DEF Calm, Ready
    <3> QED
      BY <1>2, <1>3, <1>4, <3>1, WorkspaceAssumption DEF Shared, WorksOn
  <2>4. /\ StateOf(d)' = "gone" /\ PartsOf(d)' = <<>> /\ TakenOf(d)' = <<>>
    <3>1. StateOf(d)' = "gone"
      BY <2>2 DEF StateOf
    <3> QED
      BY <2>3, <3>1, OneAfter
  <2>5. Ordered(d)'
    BY <1>1, <2>1, <2>3 DEF Calm, Ordered
  <2>6. CASE d \in gone
    <3>1. StateOf(d) = "gone" /\ PartsOf(d) = <<>>
      BY <2>6 DEF StateOf, PartsOf
    <3>2. TakenOf(d) = <<>>
      BY <2>1, <2>3, <2>6, OneAt DEF Knows
    <3> QED
      BY <2>4, <2>5, <3>1, <3>2 DEF StoreStep
  <2>7. CASE d \notin gone
    <3>1. StateOf(d) = "there"
      BY <2>1, <2>7, StateSeen
    <3> QED
      BY <2>4, <2>5, <3>1 DEF StoreStep, Store!Next, Store!Drop
  <2> QED
    BY <2>6, <2>7
<1>5. CASE d # e
  <2>1. Aside(w, d)
    BY <1>1, <1>2, <1>5 DEF Aside, Unmoved, Calm, Ready, TypeInv, TypeOK
  <2> QED
    BY <1>1, <1>3, <1>5, <2>1, NothingSeen, WorkspaceAssumption DEF Calm
<1> QED
  BY <1>4, <1>5

LEMMA CalmMoves ==
  ASSUME NEW w \in Worker, NEW d \in Draft, Calm(w, d),
         NEW p \in Page, NEW q \in Page, Delete(w, p) \/ Move(w, p, q)
  PROVE  StoreStep(d) /\ Ordered(d)'
<1>1. call[w] = Resting /\ UNCHANGED drafts /\ p # d
  BY WorkspaceAssumption DEF Delete, Move, Calm, Ready, Shape
<1>2. ASSUME NEW v \in Worker PROVE Unmoved(v, d)
  <2>1. CASE Delete(w, p)
    <3>1. call'[v] = Detached(call[v], p)
      BY <2>1 DEF Delete, Detach
    <3> QED
      BY <1>1, <3>1, UnmovedKept DEF Calm, Ready
  <2>2. CASE Move(w, p, q)
    <3>1. call'[v] = IF OnFile(call[v], p) THEN [call[v] EXCEPT !.to = q]
                                           ELSE Detached(call[v], q)
      BY <2>2 DEF Move, Moved
    <3> QED
      BY <1>1, <3>1, UnmovedKept DEF Calm, Ready
  <2> QED
    BY <2>1, <2>2
<1>3. Aside(w, d)
  BY <1>1, <1>2 DEF Aside, drafts
<1>4. call[w].on = Nothing /\ call'[w].on = Nothing
  BY <1>1, <1>2, RestingIsCall DEF Unmoved
<1> QED
  BY <1>3, <1>4, NothingSeen, WorkspaceAssumption DEF Calm

(* The file of another draft is moved away.                                *)
LEMMA CalmMoved ==
  ASSUME NEW w \in Worker, NEW d \in Draft, Calm(w, d),
         NEW e \in Draft, NEW q \in Page, MoveDraft(w, e, q), e \in disturbed'
  PROVE  StoreStep(d) /\ Ordered(d)'
<1>1. /\ call[w] = Resting /\ d # e
      /\ draft' = [draft EXCEPT ![e] = Nothing] /\ UNCHANGED <<sent, acked, old, gone>>
  BY DEF MoveDraft, Calm, Ready, Shape
<1>2. ASSUME NEW v \in Worker PROVE Unmoved(v, d)
  <2>1. call'[v] = IF OnFile(call[v], e) THEN [call[v] EXCEPT !.to = q]
                                         ELSE Detached(call[v], q)
    BY DEF MoveDraft, Moved
  <2> QED
    BY <1>1, <2>1, UnmovedKept DEF Calm, Ready
<1>3. draft'[d] = draft[d]
  BY <1>1 DEF Calm, Ready, TypeInv, TypeOK
<1>4. Aside(w, d)
  BY <1>1, <1>2, <1>3 DEF Aside
<1>5. call[w].on = Nothing /\ call'[w].on = Nothing
  BY <1>1, <1>2, RestingIsCall DEF Unmoved
<1> QED
  BY <1>4, <1>5, NothingSeen, WorkspaceAssumption DEF Calm

(* The page is not written: what was taken is put back.                    *)
LEMMA CalmRefuses ==
  ASSUME NEW w \in Worker, NEW d \in Draft, Calm(w, d), Return(w), UNCHANGED drafts,
         call[w].at = "check", call[w].on = d, call[w].do = "publish"
  PROVE  StoreStep(d) /\ Ordered(d)'
<1>1. call'[w] = Resting /\ \A v \in Worker \ {w} : call'[v] = call[v]
  BY DEF Return, Continue, Calm, Ready, TypeInv, TypeOK
<1>2. /\ \A v \in Worker \ {w} : call[v].on # d
      /\ \A v \in Worker : call'[v].on # d
  <2>1. d \notin Shared
    BY DEF Calm, Ready
  <2> QED
    BY <1>1, <2>1, RestingIsCall, WorkspaceAssumption DEF Shared, WorksOn
<1>3. d \notin gone /\ acked[d] # {} /\ call[w].text = draft[d].text
  BY DEF Calm, Quietly, Knows
<1>4. call[w].text # <<>>
  <2>1. ~Writing(d)
    BY <1>2 DEF Writing
  <2> QED
    BY <1>3, <2>1 DEF Calm, Quietly, Whole
<1>5. StateOf(d) = "there" /\ StateOf(d)' = "there"
  BY <1>3, StateSeen DEF drafts
<1>6. /\ PartsOf(d)' = PartsOf(d) /\ TakenOf(d) = call[w].text /\ TakenOf(d)' = <<>>
  BY <1>2, <1>5, OneAt, OneAfter DEF drafts
<1>7. Store(d)!Next
  BY <1>4, <1>5, <1>6 DEF Store!Next, Store!Refuse
<1>8. Ordered(d)'
  BY <1>2, <1>3 DEF Calm, Ordered, drafts
<1> QED
  BY <1>7, <1>8 DEF StoreStep

LEMMA CalmPages ==
  ASSUME NEW w \in Worker, NEW d \in Draft, Calm(w, d), PageStep(w)
  PROVE  StoreStep(d) /\ Ordered(d)'
<1>1. ASSUME NEW p \in Page, NEW n, Opened(w, p, n), call[w].at \in {"put", "extract"}
      PROVE  StoreStep(d) /\ Ordered(d)'
  <2> DEFINE c == [call[w] EXCEPT !.at = "fill", !.to = p, !.size = n, !.fd = TRUE,
                     !.left = IF call[w].do = "zip" THEN @ - n ELSE @]
  <2>1. call' = [call EXCEPT ![w] = c] /\ UNCHANGED drafts
    BY <1>1 DEF Opened, Continue
  <2>2. c.at = "fill" /\ c.do = call[w].do /\ c.on = call[w].on /\ c.text = call[w].text
    BY DEF Calm, Ready, Calls
  <2> HIDE DEF c
  <2> QED
    BY <1>1, <2>1, <2>2, CalmRead DEF Writes
<1>2. ASSUME NEW p \in Page, NEW n, Paste(w, p, n) PROVE StoreStep(d) /\ Ordered(d)'
  <2> DEFINE c == [Resting EXCEPT !.do = "paste", !.at = "check", !.to = p, !.size = n]
  <2>1. call' = [call EXCEPT ![w] = c] /\ UNCHANGED drafts /\ call[w] = Resting
    BY <1>2 DEF Paste, Begin, Calm, Ready, Shape
  <2>2. c.on = Nothing
    BY RestingIsCall DEF Calls
  <2> HIDE DEF c
  <2> QED
    BY <2>1, <2>2, CalmRead, RestingIsCall, WorkspaceAssumption
<1>3. ASSUME NEW n, Upload(w, n) PROVE StoreStep(d) /\ Ordered(d)'
  <2> DEFINE c == [Resting EXCEPT !.do = "zip", !.at = "check", !.size = n]
  <2>1. call' = [call EXCEPT ![w] = c] /\ UNCHANGED drafts /\ call[w] = Resting
    BY <1>3 DEF Upload, Begin, Calm, Ready, Shape
  <2>2. c.on = Nothing
    BY RestingIsCall DEF Calls
  <2> HIDE DEF c
  <2> QED
    BY <2>1, <2>2, CalmRead, RestingIsCall, WorkspaceAssumption
<1>4. CASE Check(w)
  <2> DEFINE c == [call[w] EXCEPT !.at = "put"]
  <2>1. /\ call[w].at = "check" /\ UNCHANGED drafts
        /\ Return(w) \/ call' = [call EXCEPT ![w] = c]
    BY <1>4 DEF Check, Continue
  <2>2. c.at = "put" /\ c.do = call[w].do /\ c.on = call[w].on /\ c.text = call[w].text
    BY DEF Calm, Ready, Calls
  <2> HIDE DEF c
  <2>3. CASE Return(w) /\ call[w].on = d /\ call[w].do = "publish"
    BY <2>1, <2>3, CalmRefuses
  <2>4. CASE Return(w) /\ ~(call[w].on = d /\ call[w].do = "publish")
    BY <2>1, <2>4, CalmReturns DEF Writes
  <2>5. CASE call' = [call EXCEPT ![w] = c]
    BY <2>1, <2>2, <2>5, CalmRead DEF Writes
  <2> QED
    BY <2>1, <2>3, <2>4, <2>5
<1>5. CASE StoreArchive(w)
  <2> DEFINE c == [call[w] EXCEPT !.at = "extract", !.archive = call[w].size,
                                  !.left = MaxUpload]
  <2>1. call[w].at = "put" /\ UNCHANGED drafts /\ call' = [call EXCEPT ![w] = c]
    BY <1>5 DEF StoreArchive, Continue
  <2>2. c.at = "extract" /\ c.do = call[w].do /\ c.on = call[w].on /\ c.text = call[w].text
    BY DEF Calm, Ready, Calls
  <2> HIDE DEF c
  <2> QED
    BY <2>1, <2>2, CalmRead DEF Writes
<1>6. CASE Fill(w)
  <2> DEFINE c == [call[w] EXCEPT !.at = "discard", !.fd = FALSE]
             e == [call[w] EXCEPT !.at = "extract", !.fd = FALSE, !.size = 0]
  <2>1. /\ call[w].at = "fill" /\ UNCHANGED drafts
        /\ \/ Return(w) /\ call[w].do = "paste"
           \/ call' = [call EXCEPT ![w] = c] /\ call[w].do = "publish"
           \/ call' = [call EXCEPT ![w] = e]
    <3>1. call[w].at = "fill" /\ call[w].do \in {"publish", "paste", "zip"}
      BY <1>6 DEF Fill, Calm, Ready, Shape
    <3> QED
      BY <1>6, <3>1 DEF Fill, Continue
  <2>2. /\ c.at = "discard" /\ c.do = call[w].do /\ c.on = call[w].on /\ c.text = call[w].text
        /\ e.at = "extract" /\ e.do = call[w].do /\ e.on = call[w].on /\ e.text = call[w].text
    BY DEF Calm, Ready, Calls
  <2> HIDE DEF c, e
  <2>3. CASE Return(w) /\ call[w].do = "paste"
    BY <2>1, <2>3, CalmReturns DEF Writes
  <2>4. CASE call' = [call EXCEPT ![w] = c] /\ call[w].do = "publish"
    <3>1. call[w].on = d => acked[d] # {}
      BY <2>4 DEF Calm, Quietly, Knows
    <3> QED
      BY <2>1, <2>2, <2>4, <3>1, CalmRead DEF Writes
  <2>5. CASE call' = [call EXCEPT ![w] = e]
    BY <2>1, <2>2, <2>5, CalmRead DEF Writes
  <2> QED
    BY <2>1, <2>3, <2>4, <2>5
<1>7. CASE ExtractEnds(w)
  <2>1. call[w].at = "extract" /\ call[w].do = "zip"
    BY <1>7 DEF ExtractEnds, Calm, Ready, Shape
  <2> QED
    BY <1>7, <2>1, CalmReturns DEF ExtractEnds, Writes
<1>8. CASE PutPage(w)
  <2>1. call[w].to \in Page
    BY <1>8 DEF PutPage, Calm, Ready, Shape
  <2> QED
    BY <1>1, <1>8, <2>1 DEF PutPage
<1>9. ASSUME NEW p \in Page, NEW n, ExtractMember(w, p, n) PROVE StoreStep(d) /\ Ordered(d)'
  BY <1>1, <1>9 DEF ExtractMember
<1> QED
  BY <1>2, <1>3, <1>4, <1>5, <1>6, <1>7, <1>8, <1>9, CalmMoves DEF PageStep

LEMMA CalmDrafts ==
  ASSUME NEW w \in Worker, NEW d \in Draft, Calm(w, d), DraftStep(w)
  PROVE  StoreStep(d) /\ Ordered(d)'
BY CalmLists, CalmCounts, CalmLoads, CalmOpens, CalmWrites, CalmTakes, CalmUnlinks
   DEF DraftStep

(* A call that was not at the draft is killed.                             *)
LEMMA CalmCrashes ==
  ASSUME TypeInv, NEW w \in Worker, NEW d \in Draft, Ordered(d), Crash(w), ~WorksOn(w, d)
  PROVE  StoreStep(d) /\ Ordered(d)'
<1>1. /\ UNCHANGED drafts
      /\ call'[w] = Resting /\ \A v \in Worker \ {w} : call'[v] = call[v]
  BY DEF Crash, TypeInv, TypeOK
<1>2. Aside(w, d)
  BY <1>1 DEF Aside, Unmoved, drafts
<1>3. call[w].on # d /\ call'[w].on # d
  BY <1>1, RestingIsCall, WorkspaceAssumption DEF WorksOn
<1> QED
  BY <1>2, <1>3, NothingSeen

(* Nobody moves.                                                           *)
LEMMA CalmStays ==
  ASSUME NEW d \in Draft, Ordered(d), UNCHANGED <<draft, sent, acked, gone, call>>
  PROVE  StoreStep(d) /\ Ordered(d)'
<1>1. UNCHANGED <<StateOf(d), PartsOf(d), TakenOf(d)>>
  BY DEF StateOf, PartsOf, TakenOf, Writing, At, Publishing, TextOf, AllButLast
<1>2. Ordered(d)'
  BY DEF Ordered, Adds, Coming, AllButLast
<1> QED
  BY <1>1, <1>2 DEF StoreStep

LEMMA OrderStep ==
  TypeInv /\ FileInv /\ OrderInv /\ [Next]_vars
    => OrderInv' /\ \A d \in Draft \ disturbed' : StoreStep(d)
<1> SUFFICES ASSUME TypeInv, FileInv, OrderInv, [Next]_vars, NEW d \in Draft, d \notin disturbed'
             PROVE  StoreStep(d) /\ Ordered(d)'
  BY DEF OrderInv
<1>1. FileInv'
  BY FileStep
<1>2. disturbed \subseteq disturbed'
  BY DEF Next, Step, vars
<1>3. /\ Shared \subseteq disturbed /\ Drafty(d) /\ Shared' \subseteq disturbed'
      /\ Quietly(d) /\ Ordered(d)
  BY <1>1, <1>2, FileParts DEF FileInv, OrderInv
<1>4. Quietly(d)'
  BY <1>1 DEF FileInv
<1>5. \A w \in Worker : Calm(w, d)
  BY <1>2, <1>3, <1>4 DEF Calm, Ready, TypeInv, TypeOK, ShapeInv
<1>6. ASSUME NEW w \in Worker, DraftStep(w) \/ PageStep(w)
      PROVE  StoreStep(d) /\ Ordered(d)'
  BY <1>5, <1>6, CalmDrafts, CalmPages
<1>7. ASSUME NEW w \in Worker, Crash(w), disturbed' = disturbed \cup Struck(w)
      PROVE  StoreStep(d) /\ Ordered(d)'
  BY <1>3, <1>7, CalmCrashes DEF Struck
<1>8. ASSUME NEW w \in Worker, NEW p \in Page, NEW q \in Page, Move(w, p, q)
      PROVE  StoreStep(d) /\ Ordered(d)'
  BY <1>5, <1>8, CalmMoves
<1>9. ASSUME NEW w \in Worker, NEW e \in Draft, NEW q \in Page, MoveDraft(w, e, q),
             disturbed' = disturbed \cup {e}
      PROVE  StoreStep(d) /\ Ordered(d)'
  BY <1>5, <1>9, CalmMoved
<1>10. CASE (\E e \in Draft : Age(e)) \/ Quiet \/ UNCHANGED vars
  BY <1>3, <1>10, CalmStays DEF Age, Quiet, vars, drafts
<1> QED
  BY <1>6, <1>7, <1>8, <1>9, <1>10 DEF Next, Step

LEMMA OrderInit == Init => OrderInv
BY RestingIsCall, WorkspaceAssumption DEF Init, OrderInv, Ordered

(* Whatever the number of its steps, a call does one thing to a draft that *)
(* no other call is at and that no kill has struck: a part is added at its *)
(* end, it is published as it stands, it is dropped, or nothing happens.   *)
THEOREM CallsActAtOnce == Spec => DraftsAreAtomic
<1> DEFINE Inv == TypeInv /\ FileInv /\ OrderInv
           Act == \A d \in Draft \ disturbed' : StoreStep(d)
<1>1. Init => Inv
  BY TypeInit, FileInit, OrderInit
<1>2. Inv /\ [Next]_vars => Inv'
  BY TypeStep, FileStep, OrderStep
<1>3. Inv /\ [Next]_vars => [Act]_vars
  BY OrderStep
<1>4. DraftsAreAtomic <=> [][Act]_vars
  BY DEF DraftsAreAtomic
<1> HIDE DEF Inv, Act
<1> QED
  BY <1>1, <1>2, <1>3, <1>4, PTL DEF Spec

(* What one worker that is never killed disturbs is what it moves away.    *)
LEMMA NobodyDisturbs ==
  ASSUME NEW w, Worker = {w}, Crashes = FALSE, NEW d \in Draft
  PROVE  /\ Init => d \notin disturbed
         /\ TypeInv /\ d \notin disturbed /\ [Next]_vars
            /\ [~\E q \in Page : MoveDraft(w, d, q)]_vars
              => d \notin disturbed'
<1>1. Shared' = {}
  BY DEF Shared
<1>2. ASSUME TypeInv, NEW e \in Draft, NEW q \in Page, MoveDraft(w, e, q),
             [~\E p \in Page : MoveDraft(w, d, p)]_vars
      PROVE  e # d
  <2>1. calls' = calls + 1 /\ calls \in Nat
    BY <1>2, WorkspaceAssumption DEF MoveDraft, TypeInv, TypeOK
  <2>2. CASE UNCHANGED vars
    BY <2>1, <2>2 DEF vars
  <2>3. CASE ~\E p \in Page : MoveDraft(w, d, p)
    BY <1>2, <2>3
  <2> QED
    BY <1>2, <2>2, <2>3
<1> QED
  BY <1>1, <1>2 DEF Init, Next, Step, Crash, vars

(* With one worker that is never killed, a draft whose file is not moved   *)
(* away is the store that DraftStore.tla describes.                        *)
THEOREM OneWorkerKeepsStores ==
  ASSUME NEW w, Worker = {w}, Crashes = FALSE, NEW d \in Draft
  PROVE  Spec /\ [][~\E q \in Page : MoveDraft(w, d, q)]_vars => Store(d)!Spec
<1> DEFINE Inv == TypeInv /\ FileInv /\ OrderInv /\ d \notin disturbed
           Stays == ~\E q \in Page : MoveDraft(w, d, q)
<1>1. Init => Inv
  BY TypeInit, FileInit, OrderInit, NobodyDisturbs
<1>2. Inv /\ [Next]_vars /\ [Stays]_vars => Inv'
  BY TypeStep, FileStep, OrderStep, NobodyDisturbs
<1>3. Inv /\ [Next]_vars /\ [Stays]_vars => [Store(d)!Next]_(Store(d)!store)
  BY <1>2, OrderStep DEF StoreStep, Store!store
<1>4. Init => Store(d)!Init
  <2> SUFFICES ASSUME Init PROVE Store(d)!Init
    OBVIOUS
  <2>1. StateOf(d) = "new"
    BY StateSeen DEF Init
  <2>2. Publishing(d) = {}
    BY RestingIsCall DEF Init, Publishing
  <2> QED
    BY <2>1, <2>2 DEF Store!Init, PartsOf, TakenOf
<1> HIDE DEF Inv, Stays
<1> QED
  BY <1>1, <1>2, <1>3, <1>4, PTL DEF Spec, Store!Spec, Stays
=============================================================================
