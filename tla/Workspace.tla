------------------------------- MODULE Workspace -------------------------------
(***************************************************************************)
(* The files of one account: published pages and other content, and the    *)
(* drafts that app/publish.py keeps as JSON files beside them.             *)
(*                                                                         *)
(* No table and no lock stands in front of the files.  Within one worker a *)
(* handler runs from its first to its last file operation without giving   *)
(* up the event loop; several workers take turns between any two of them.  *)
(* Opening a file for writing truncates it, so others can meet it empty;   *)
(* unlinking it leaves whoever has it open writing to a file without a     *)
(* name; of two that have it open, each writes from its start.  A measure  *)
(* of the disk quota is a walk that takes one file after the other, while  *)
(* other workers write, delete and move them.                              *)
(*                                                                         *)
(* A draft is the list of parts it was sent, numbered in the order of      *)
(* arrival; a part is one byte of the disk quota.                          *)
(***************************************************************************)
EXTENDS Integers, Sequences, FiniteSets, Functions

CONSTANTS
  Worker,        (* the uvicorn workers                                     *)
  Draft,         (* draft ids (secrets.token_urlsafe)                       *)
  Page,          (* every other file of the workspace                       *)
  Nothing,       (* no file                                                 *)
  Limit,         (* plan.disk_mb                                            *)
  MaxUpload,     (* plan.max_upload_mb                                      *)
  MaxDrafts,     (* MAX_DRAFTS                                              *)
  MaxDraftSize,  (* MAX_DRAFT_BYTES                                         *)
  Crashes,       (* TRUE: workers may be killed                             *)
  MaxCalls       (* bound: calls and kills in a behaviour                   *)

ASSUME WorkspaceAssumption ==
  /\ IsFiniteSet(Worker) /\ Worker # {}
  /\ IsFiniteSet(Draft) /\ IsFiniteSet(Page) /\ Draft \cap Page = {}
  /\ Worker \cap (Draft \cup Page) = {}
  /\ Nothing \notin Draft \cup Page
  /\ Limit \in Nat /\ MaxUpload \in Nat \ {0}
  /\ MaxDrafts \in Nat \ {0} /\ MaxDraftSize \in Nat
  /\ Crashes \in BOOLEAN /\ MaxCalls \in Nat
ASSUME NothingAssumption == Nothing \notin [text : Seq(Nat), len : Nat]

VARIABLES
  draft,      (* draft[d]: the file of d, or Nothing                        *)
  page,       (* page[p]: its size, 0 without a file                        *)
  leftover,   (* leftover[w]: bytes of w's uploaded archives left by kills  *)
  call,       (* what each worker is doing                                  *)
  low,        (* low[w]: the least size of each file since w began to       *)
              (* measure                                                    *)
  sent,       (* sent[d]: how many parts were numbered                      *)
  acked,      (* acked[d]: parts whose request was answered                 *)
  old,        (* drafts older than DRAFT_TTL_S                              *)
  gone,       (* drafts published, discarded or expired                     *)
  disturbed,  (* history: drafts two calls worked on at once, one of whose  *)
              (* calls was killed, or whose file was moved away             *)
  slipped,    (* history: a file was moved during a measure, or a draft     *)
              (* became a page by a move                                    *)
  calls       (* how many calls and kills there were                        *)

drafts == <<draft, sent, acked, old, gone>>
vars == <<drafts, page, leftover, call, low, disturbed, slipped, calls>>

----------------------------------------------------------------------------
(* A draft's file: the parts written last, and the bytes that are there.   *)
(* It is JSON when they belong together.                                   *)
Contents == [text : Seq(Nat), len : Nat]
Whole(c) == c # Nothing /\ c.len > 0 /\ c.len = Len(c.text)
Truncated == [text |-> <<>>, len |-> 0]
Longest(m, n) == IF m > n THEN m ELSE n
Overwritten(c, text) == [text |-> text, len |-> Longest(c.len, Len(text))]

Existing == {d \in Draft : draft[d] # Nothing}

(* Sum of f: its bytes, counted.                                           *)
Total(f) == Cardinality(UNION {{x} \X (1..f[x]) : x \in DOMAIN f})
(* The workspace, hidden directories included: pages, drafts, and in       *)
(* .agentspace/uploads the archives of each worker's uploads.              *)
Files == Page \cup Draft \cup Worker
Size == [f \in Files |->
           IF f \in Page THEN page[f]
           ELSE IF f \in Draft THEN IF draft[f] = Nothing THEN 0 ELSE draft[f].len
           ELSE leftover[f] + call[f].archive]

Doings == {"nothing", "new", "list", "add", "publish", "discard", "paste", "zip"}
Places == {"rest", "expire", "unlink", "open", "write", "check", "put",
           "fill", "extract", "discard"}
Calls == [do : Doings, at : Places, on : Draft \cup {Nothing}, text : Seq(Nat),
          todo : SUBSET Draft, to : Page \cup {Nothing}, size : Nat,
          archive : Nat, left : Nat, fd : BOOLEAN]
Resting == [do |-> "nothing", at |-> "rest", on |-> Nothing, text |-> <<>>,
            todo |-> {}, to |-> Nothing, size |-> 0, archive |-> 0, left |-> 0,
            fd |-> FALSE]

(* w begins a call.                                                        *)
Begin(w, c) ==
  /\ call[w].at = "rest" /\ calls < MaxCalls
  /\ call' = [call EXCEPT ![w] = c]
  /\ calls' = calls + 1

Continue(w, c) ==
  /\ call' = [call EXCEPT ![w] = c]
  /\ UNCHANGED calls

Return(w) == Continue(w, Resting)

(* The file c writes: its draft, or the page either was moved to.          *)
Target(c) == IF c.to = Nothing THEN c.on ELSE c.to

(* After unlink: an open handle no longer leads to the name; after a move  *)
(* it leads to the new one.                                                *)
OnFile(c, f) == c.at \in {"write", "fill"} /\ c.fd /\ Target(c) = f
Detached(c, f) == IF OnFile(c, f) THEN [c EXCEPT !.fd = FALSE] ELSE c
Detach(f) == [v \in Worker |-> Detached(call[v], f)]

----------------------------------------------------------------------------
(* Drafts                                                                  *)

(* GET /publish and GET /d/new: _expire_drafts over what glob found.       *)
Arrive(w, do) ==
  /\ Begin(w, [Resting EXCEPT !.do = do, !.at = "expire", !.todo = Existing])
  /\ UNCHANGED <<drafts, page, leftover>>

(* Unreadable, or past its age: it will be unlinked.                       *)
ExpireReads(w, d) ==
  LET doomed == ~Whole(draft[d]) \/ d \in old IN
  /\ call[w].at = "expire" /\ d \in call[w].todo
  /\ Continue(w, [call[w] EXCEPT !.todo = @ \ {d},
                                 !.on = IF doomed THEN d ELSE Nothing,
                                 !.at = IF doomed THEN "unlink" ELSE "expire"])
  /\ UNCHANGED <<drafts, page, leftover>>

ExpireUnlinks(w) ==
  LET d == call[w].on IN
  /\ call[w].at = "unlink"
  /\ draft' = [draft EXCEPT ![d] = Nothing]
  /\ gone' = IF d \in old THEN gone \cup {d} ELSE gone
  /\ call' = [Detach(d) EXCEPT ![w].on = Nothing, ![w].at = "expire"]
  /\ UNCHANGED <<page, leftover, sent, acked, old, calls>>

(* Bound: there are as many ids as drafts in Draft.                        *)
NoIds == \A d \in Draft : sent[d] > 0

(* Mutant of Count: the limit is passed before it refuses.                 *)
Count_OneMore(w, d) ==
  /\ call[w].at = "expire" /\ call[w].todo = {} /\ call[w].do = "new"
  /\ IF Cardinality(Existing) > MaxDrafts \/ NoIds
       THEN Return(w) /\ UNCHANGED sent
       ELSE /\ sent[d] = 0
            /\ sent' = [sent EXCEPT ![d] = 1]
            /\ Continue(w, [call[w] EXCEPT !.at = "open", !.on = d, !.text = <<1>>])
  /\ UNCHANGED <<draft, acked, old, gone, page, leftover>>

(* The drafts are counted, then the new one gets its id.                   *)
Count(w, d) ==
  /\ call[w].at = "expire" /\ call[w].todo = {} /\ call[w].do = "new"
  /\ IF Cardinality(Existing) >= MaxDrafts \/ NoIds
       THEN Return(w) /\ UNCHANGED sent
       ELSE /\ sent[d] = 0
            /\ sent' = [sent EXCEPT ![d] = 1]
            /\ Continue(w, [call[w] EXCEPT !.at = "open", !.on = d, !.text = <<1>>])
  /\ UNCHANGED <<draft, acked, old, gone, page, leftover>>

Listed(w) ==
  /\ call[w].at = "expire" /\ call[w].todo = {} /\ call[w].do = "list"
  /\ Return(w)
  /\ UNCHANGED <<drafts, page, leftover>>

(* Mutant of AddLoads: the part is joined in front.                        *)
AddLoads_InFront(w, d) ==
  LET joined == <<sent[d] + 1>> \o draft[d].text IN
  /\ Whole(draft[d]) /\ Len(joined) <= MaxDraftSize
  /\ sent' = [sent EXCEPT ![d] = @ + 1]
  /\ Begin(w, [Resting EXCEPT !.do = "add", !.at = "open", !.on = d,
                              !.text = joined])
  /\ UNCHANGED <<draft, acked, old, gone, page, leftover>>

(* append_draft reads the file and joins the part to it.                   *)
AddLoads(w, d) ==
  LET joined == Append(draft[d].text, sent[d] + 1) IN
  /\ Whole(draft[d]) /\ Len(joined) <= MaxDraftSize
  /\ sent' = [sent EXCEPT ![d] = @ + 1]
  /\ Begin(w, [Resting EXCEPT !.do = "add", !.at = "open", !.on = d,
                              !.text = joined])
  /\ UNCHANGED <<draft, acked, old, gone, page, leftover>>

(* _write_draft: write_text creates or truncates the file ...              *)
OpenDraft(w) ==
  /\ call[w].at = "open"
  /\ draft' = [draft EXCEPT ![call[w].on] = Truncated]
  /\ Continue(w, [call[w] EXCEPT !.at = "write", !.fd = TRUE])
  /\ UNCHANGED <<sent, acked, old, gone, page, leftover>>

(* ... and writes it; the reply names its size.                            *)
WriteDraft(w) ==
  LET c == call[w] IN
  /\ c.at = "write"
  /\ draft' = IF c.fd /\ c.to = Nothing
                THEN [draft EXCEPT ![c.on] = Overwritten(@, c.text)] ELSE draft
  /\ page' = IF c.fd /\ c.to # Nothing
               THEN [page EXCEPT ![c.to] = Longest(@, Len(c.text))] ELSE page
  /\ acked' = [acked EXCEPT ![c.on] = @ \cup {c.text[Len(c.text)]}]
  /\ Return(w)
  /\ UNCHANGED <<sent, old, gone, leftover>>

(* Mutant of PublishLoads: the draft is discarded when it is read.         *)
PublishLoads_DiscardsFirst(w, d, p) ==
  /\ Whole(draft[d])
  /\ Begin(w, [Resting EXCEPT !.do = "publish", !.at = "check", !.on = d,
                 !.text = draft[d].text, !.to = p, !.size = Len(draft[d].text)])
  /\ draft' = [draft EXCEPT ![d] = Nothing]
  /\ UNCHANGED <<sent, acked, old, gone, page, leftover>>

(* POST /d/{id}/publish: the draft becomes the page p.                     *)
PublishLoads(w, d, p) ==
  /\ Whole(draft[d])
  /\ Begin(w, [Resting EXCEPT !.do = "publish", !.at = "check", !.on = d,
                 !.text = draft[d].text, !.to = p, !.size = Len(draft[d].text)])
  /\ UNCHANGED <<drafts, page, leftover>>

(* POST /d/{id}/discard.                                                   *)
AskDiscard(w, d) ==
  /\ sent[d] > 0
  /\ Begin(w, [Resting EXCEPT !.do = "discard", !.at = "discard", !.on = d])
  /\ UNCHANGED <<drafts, page, leftover>>

Discard(w) ==
  LET d == call[w].on IN
  /\ call[w].at = "discard"
  /\ draft' = [draft EXCEPT ![d] = Nothing]
  /\ gone' = gone \cup {d}
  /\ call' = [Detach(d) EXCEPT ![w] = Resting]
  /\ UNCHANGED <<page, leftover, sent, acked, old, calls>>

----------------------------------------------------------------------------
(* Pages                                                                   *)

(* POST /publish, POST /edit and write_file at any of the three doors.     *)
Paste(w, p, n) ==
  /\ n \in 1..MaxUpload
  /\ Begin(w, [Resting EXCEPT !.do = "paste", !.at = "check", !.to = p, !.size = n])
  /\ UNCHANGED <<drafts, page, leftover>>

(* An archive of n bytes is uploaded.                                      *)
Upload(w, n) ==
  /\ n \in 1..MaxUpload
  /\ Begin(w, [Resting EXCEPT !.do = "zip", !.at = "check", !.size = n])
  /\ UNCHANGED <<drafts, page, leftover>>

(* Mutant of Counted: only hidden files are counted.                       *)
Counted_HiddenOnly(w) == Total([f \in Draft \cup Worker |-> low[w][f]])

(* os.walk reaches each file at some moment of the measure, and one that   *)
(* was deleted, moved or truncated then counts for nothing: what it is     *)
(* sure to count.                                                          *)
Counted(w) == Total(low[w])

(* The measure goes on while the directory changes.                        *)
Measuring(w) == call[w].at = "check"
Least(m, n) == IF m < n THEN m ELSE n
Measure ==
  low' = [w \in Worker |->
            IF ~Measuring(w)' THEN [f \in Files |-> 0]
            ELSE IF Measuring(w) THEN [f \in Files |-> Least(low[w][f], Size'[f])]
            ELSE Size']

(* check_host_disk, check_disk and the size limit of write_file; the       *)
(* host's disk may be full at any time.                                    *)
Check(w) ==
  LET c == call[w] IN
  /\ c.at = "check"
  /\ \/ Return(w)
     \/ /\ Counted(w) + c.size <= Limit /\ c.size <= MaxUpload
        /\ Continue(w, [c EXCEPT !.at = "put"])
  /\ UNCHANGED <<drafts, page, leftover>>

(* The archive goes to .agentspace/uploads first.                          *)
StoreArchive(w) ==
  LET c == call[w] IN
  /\ c.at = "put" /\ c.do = "zip"
  /\ Continue(w, [c EXCEPT !.at = "extract", !.archive = c.size, !.left = MaxUpload])
  /\ UNCHANGED <<drafts, page, leftover>>

(* w opens the file p to write n bytes.                                    *)
Opened(w, p, n) ==
  /\ page' = [page EXCEPT ![p] = 0]
  /\ Continue(w, [call[w] EXCEPT !.at = "fill", !.to = p, !.size = n, !.fd = TRUE,
                                 !.left = IF call[w].do = "zip" THEN @ - n ELSE @])
  /\ UNCHANGED <<drafts, leftover>>

(* Mutant of ExtractMember: each member is limited, not their sum.         *)
ExtractMember_EachLimited(w, p, n) ==
  /\ call[w].at = "extract" /\ n \in 1..MaxUpload
  /\ Opened(w, p, n)

(* A member is unpacked: the members together stay within one upload.      *)
ExtractMember(w, p, n) ==
  /\ call[w].at = "extract" /\ n \in 1..call[w].left
  /\ Opened(w, p, n)

(* The archive ends, holds too much or is broken: it is unlinked, and what *)
(* was unpacked stays.                                                     *)
ExtractEnds(w) ==
  /\ call[w].at = "extract"
  /\ Return(w)
  /\ UNCHANGED <<drafts, page, leftover>>

PutPage(w) ==
  /\ call[w].at = "put" /\ call[w].do # "zip"
  /\ Opened(w, call[w].to, call[w].size)

Fill(w) ==
  LET c == call[w] IN
  /\ c.at = "fill"
  /\ page' = IF c.fd THEN [page EXCEPT ![c.to] = Longest(@, c.size)] ELSE page
  /\ CASE c.do = "paste"   -> Return(w)
       [] c.do = "publish" -> Continue(w, [c EXCEPT !.at = "discard", !.fd = FALSE])
       [] c.do = "zip"     -> Continue(w, [c EXCEPT !.at = "extract", !.fd = FALSE,
                                                    !.size = 0])
  /\ UNCHANGED <<drafts, leftover>>

(* A delete or a move is one system call of a worker that does nothing     *)
(* else.                                                                   *)
Delete(w, p) ==
  /\ call[w].at = "rest" /\ calls < MaxCalls
  /\ page' = [page EXCEPT ![p] = 0]
  /\ call' = Detach(p)
  /\ calls' = calls + 1
  /\ UNCHANGED <<drafts, leftover>>

(* f is moved to q: shutil.move replaces what was there, an open handle    *)
(* follows the file.                                                       *)
Moved(f, q) == [v \in Worker |-> IF OnFile(call[v], f)
                                   THEN [call[v] EXCEPT !.to = q]
                                   ELSE Detached(call[v], q)]

Move(w, p, q) ==
  /\ call[w].at = "rest" /\ calls < MaxCalls /\ p # q
  /\ page' = [page EXCEPT ![p] = 0, ![q] = page[p]]
  /\ call' = Moved(p, q)
  /\ calls' = calls + 1
  /\ UNCHANGED <<drafts, leftover>>

(* The file of a draft is a file like any other to POST /files/move.       *)
MoveDraft(w, d, q) ==
  /\ call[w].at = "rest" /\ calls < MaxCalls /\ draft[d] # Nothing
  /\ draft' = [draft EXCEPT ![d] = Nothing]
  /\ page' = [page EXCEPT ![q] = draft[d].len]
  /\ call' = Moved(d, q)
  /\ calls' = calls + 1
  /\ UNCHANGED <<sent, acked, old, gone, leftover>>

----------------------------------------------------------------------------
(* The surroundings                                                        *)

(* A draft passes its age.                                                 *)
Age(d) ==
  /\ sent[d] > 0 /\ d \notin old
  /\ old' = old \cup {d}
  /\ UNCHANGED <<draft, sent, acked, gone, page, leftover, call, calls>>

(* A worker is killed: its files stay as they are.                         *)
Crash(w) ==
  /\ Crashes /\ call[w].at # "rest" /\ calls < MaxCalls
  /\ call' = [call EXCEPT ![w] = Resting]
  /\ leftover' = [leftover EXCEPT ![w] = @ + call[w].archive]
  /\ calls' = calls + 1
  /\ UNCHANGED <<drafts, page>>

Quiet == /\ \A w \in Worker : call[w].at = "rest"
         /\ UNCHANGED <<drafts, page, leftover, call, calls>>

----------------------------------------------------------------------------
Init ==
  /\ draft = [d \in Draft |-> Nothing]
  /\ page = [p \in Page |-> 0]
  /\ leftover = [w \in Worker |-> 0]
  /\ call = [w \in Worker |-> Resting]
  /\ sent = [d \in Draft |-> 0]
  /\ acked = [d \in Draft |-> {}]
  /\ low = [w \in Worker |-> [f \in Files |-> 0]]
  /\ old = {} /\ gone = {} /\ disturbed = {} /\ slipped = FALSE
  /\ calls = 0

DraftStep(w) ==
  \/ \E do \in {"new", "list"} : Arrive(w, do)
  \/ \E d \in Draft : ExpireReads(w, d) \/ Count(w, d) \/ AddLoads(w, d) \/ AskDiscard(w, d)
  \/ \E d \in Draft, p \in Page : PublishLoads(w, d, p)
  \/ ExpireUnlinks(w) \/ Listed(w) \/ OpenDraft(w) \/ WriteDraft(w) \/ Discard(w)

PageStep(w) ==
  \/ \E p \in Page, n \in 1..MaxUpload : Paste(w, p, n) \/ ExtractMember(w, p, n)
  \/ \E n \in 1..MaxUpload : Upload(w, n)
  \/ Check(w) \/ StoreArchive(w) \/ ExtractEnds(w) \/ PutPage(w) \/ Fill(w)
  \/ \E p \in Page : Delete(w, p)

(* w works on d, or is about to look at it.                                *)
WorksOn(w, d) == call[w].on = d \/ d \in call[w].todo

(* History: who is at a draft together, and which draft a kill left.       *)
Shared == {d \in Draft : \E v, w \in Worker :
                            v # w /\ WorksOn(v, d) /\ WorksOn(w, d)}
Struck(w) == {d \in Draft : WorksOn(w, d)}

Step ==
  \/ /\ (\E w \in Worker : DraftStep(w) \/ PageStep(w)) \/ \E d \in Draft : Age(d)
     /\ disturbed' = disturbed \cup Shared' /\ UNCHANGED slipped
  \/ /\ \E w \in Worker, p, q \in Page : Move(w, p, q)
     /\ slipped' = (slipped \/ \E w \in Worker : Measuring(w))
     /\ UNCHANGED disturbed
  \/ \E w \in Worker, d \in Draft, q \in Page :
       /\ MoveDraft(w, d, q)
       /\ disturbed' = disturbed \cup {d} /\ slipped' = TRUE
  \/ \E w \in Worker : /\ Crash(w) /\ disturbed' = disturbed \cup Struck(w)
                      /\ UNCHANGED slipped
  \/ Quiet /\ UNCHANGED <<disturbed, slipped>>

Next == Step /\ Measure

Spec == Init /\ [][Next]_vars

----------------------------------------------------------------------------
(* Properties                                                              *)

TypeOK ==
  /\ draft \in [Draft -> Contents \cup {Nothing}]
  /\ page \in [Page -> Nat]
  /\ leftover \in [Worker -> Nat]
  /\ call \in [Worker -> Calls]
  /\ sent \in [Draft -> Nat] /\ acked \in [Draft -> SUBSET Nat]
  /\ old \subseteq Draft /\ gone \subseteq Draft /\ disturbed \subseteq Draft
  /\ low \in [Worker -> [Files -> Nat]] /\ slipped \in BOOLEAN
  /\ calls \in 0..MaxCalls

(* "Per-user quotas cap one workspace": check_disk measures and the write  *)
(* follows, an archive is measured packed and written unpacked, and other  *)
(* workers write while the measure goes on.  Pages exceed the plan by what *)
(* each worker may have under way, and no more, as long as no file is      *)
(* moved while a measure is under way, which hides it, and no draft is     *)
(* moved out of .drafts, whose size was never checked.                     *)
OvershootIsUnderWay ==
  ~slipped => Total(page) < Limit + Cardinality(Worker) * MaxUpload

(* MAX_DRAFTS is counted before the file is there, and an append writes    *)
(* back what may have been unlinked: the files exceed it by at most one    *)
(* for each other worker.                                                  *)
DraftCap == Cardinality(Existing) < MaxDrafts + Cardinality(Worker)

(* "Draft ... holds n bytes.  It is NOT published": a part whose request   *)
(* was answered is in the file until the draft is published, discarded or  *)
(* expired, and published with it; and then the draft does not come back.  *)
(* All this unless two calls were at the draft at once or one was killed   *)
(* at it: an append under way writes the file again.                       *)
Writing(d) == \E w \in Worker : call[w].at = "write" /\ call[w].on = d
DraftsAreKept ==
  \A d \in Draft \ disturbed :
    /\ d \in gone => draft[d] = Nothing
    /\ d \notin gone /\ acked[d] # {} /\ ~Writing(d) =>
         /\ Whole(draft[d])
         /\ acked[d] = Range(draft[d].text)
    /\ \A w \in Worker :
         call[w].do = "publish" /\ call[w].on = d => Range(call[w].text) = acked[d]

(* The draft d as its clients know it: the parts that were answered; of a  *)
(* file that is being written, all but the last.                           *)
At(d, at) == {w \in Worker : call[w].at = at /\ call[w].on = d}
Publishing(d) == {w \in Worker : call[w].do = "publish" /\ call[w].on = d}
TextOf(ws) == call[CHOOSE w \in ws : TRUE].text
AllButLast(text) == SubSeq(text, 1, Len(text) - 1)

StateOf(d) == IF d \in gone THEN "gone" ELSE IF acked[d] = {} THEN "new" ELSE "there"
PartsOf(d) ==
  IF StateOf(d) # "there" THEN <<>>
  ELSE IF Writing(d) THEN AllButLast(TextOf(At(d, "write"))) ELSE draft[d].text
TakenOf(d) == IF Publishing(d) = {} THEN <<>> ELSE TextOf(Publishing(d))

Store(d) == INSTANCE DraftStore
              WITH state <- StateOf(d), parts <- PartsOf(d), taken <- TakenOf(d)

(* However many steps a call takes, what it does to a draft is one: it     *)
(* adds a whole part at the end, publishes what is there, drops it, or     *)
(* nothing, unless two calls were at the draft at once or one was killed   *)
(* at it.                                                                  *)
StoreStep(d) ==
  Store(d)!Next \/ UNCHANGED <<StateOf(d), PartsOf(d), TakenOf(d)>>
DraftsAreAtomic == [][\A d \in Draft \ disturbed' : StoreStep(d)]_vars

----------------------------------------------------------------------------
(* What the invariants rest on                                             *)

(* Where a call is tells what it has in hand.                              *)
Shape(w) ==
  LET c == call[w] IN
  /\ c.at = "rest" => c = Resting
  /\ c.at \in {"expire", "unlink"} => c.do \in {"new", "list"}
  /\ c.at \notin {"expire", "unlink"} => c.todo = {}
  /\ c.at \in {"unlink", "open", "write", "discard"} => c.on \in Draft
  /\ c.at = "expire" => c.on = Nothing
  /\ c.at \in {"open", "write"} => c.do \in {"new", "add"} /\ c.text # <<>>
  /\ c.at = "write" /\ c.fd /\ c.to = Nothing => draft[c.on] # Nothing
  /\ c.at = "write" /\ c.to # Nothing => slipped
  /\ c.do \in {"new", "add"} /\ c.at # "write" => c.to = Nothing
  /\ c.at \in {"check", "put", "fill"} => c.do \in {"publish", "paste", "zip"}
  /\ c.do = "publish" => c.on \in Draft /\ c.at \in {"check", "put", "fill", "discard"}
  /\ c.do \in {"paste", "zip"} => c.on = Nothing
  /\ c.do = "zip" => c.at \in {"check", "put", "extract", "fill"} /\ c.size <= MaxUpload
  /\ c.at = "extract" => c.do = "zip"
  /\ c.do = "zip" /\ c.at \in {"extract", "fill"} => c.left <= MaxUpload
  /\ c.at \in {"check", "put"} /\ c.do = "zip" => c.size > 0
  /\ c.at = "put" /\ c.do # "zip" => c.to \in Page /\ c.size <= MaxUpload
  /\ c.at = "check" /\ c.do # "zip" => c.to \in Page
  /\ c.at = "fill" => c.to \in Page
ShapeInv == \A w \in Worker : Shape(w)

(* Bytes a call has been granted and not yet written.                      *)
Grant(c) ==
  CASE c.at = "put"     -> IF c.do = "zip" THEN MaxUpload ELSE c.size
    [] c.at = "fill"    -> IF c.do = "zip" THEN c.left + c.size ELSE c.size
    [] c.at = "extract" -> c.left
    [] OTHER            -> 0
Granted == [w \in Worker |-> Grant(call[w])]

(* Measures under way began one after the other.  What pages hold and      *)
(* calls were granted is bounded, with an upload for each of the oldest k  *)
(* measures: they may have missed all of it.  A later one knows of         *)
(* everything but one upload of each worker that is neither it nor         *)
(* measuring since before.                                                 *)
Measurers == {w \in Worker : Measuring(w)}
PagesSeen(w) == Total([p \in Page |-> low[w][p]])
InTurn(turn, k) ==
  LET written == Total(page) + Total(Granted) IN
  /\ \A w \in Measurers : turn[w] \in 1..Cardinality(Measurers)
  /\ \A v, w \in Measurers : turn[v] = turn[w] => v = w
  /\ written + k * MaxUpload < Limit + Cardinality(Worker) * MaxUpload
  /\ \A w \in Measurers : turn[w] > k =>
       written + turn[w] * MaxUpload <= PagesSeen(w) + Cardinality(Worker) * MaxUpload
Bounded == \E turn \in [Worker -> 0..Cardinality(Worker)],
              k \in 0..Cardinality(Worker) : InTurn(turn, k)
GrantInv ==
  /\ \A w \in Worker : Granted[w] <= MaxUpload
  /\ \A w \in Measurers, p \in Page : low[w][p] <= page[p]
  /\ ~slipped => Bounded

(* Files that are there, or that a call is about to write.                 *)
Coming == {call[w].on : w \in {v \in Worker : call[v].at \in {"open", "write"}}}
CapInv == Cardinality(Existing \cup Coming) < MaxDrafts + Cardinality(Worker)

(* A draft only one call at a time has worked on: what is in the file, and *)
(* what the call that works on it knows of it.                             *)
Knows(w, d) ==
  LET c == call[w]
      f == draft[d] IN
  /\ c.at = "unlink" => d \in old /\ d \notin c.todo
  /\ c.at \in {"open", "write"} \/ c.do = "publish" => d \notin gone
  /\ c.at = "open" /\ c.do = "new" => acked[d] = {} /\ f = Nothing /\ c.text = <<1>>
  /\ c.at = "open" /\ c.do = "add" => acked[d] # {} /\ c.text = Append(f.text, sent[d])
  /\ c.at = "write" => /\ c.fd /\ c.to = Nothing /\ f = Truncated
                       /\ Range(c.text) = acked[d] \cup {c.text[Len(c.text)]}
  /\ c.do = "publish" => acked[d] # {} /\ c.text = f.text
Quietly(d) ==
  /\ d \in gone => draft[d] = Nothing
  /\ d \notin gone /\ acked[d] # {} /\ ~Writing(d) =>
       Whole(draft[d]) /\ acked[d] = Range(draft[d].text)
  /\ draft[d] # Nothing /\ acked[d] = {} => Writing(d)
  /\ \A w \in Worker : /\ call[w].on = d => Knows(w, d)
                       /\ d \in call[w].todo => draft[d] # Nothing /\ ~Writing(d)
Unborn(d) ==
  /\ draft[d] = Nothing /\ acked[d] = {} /\ d \notin gone
  /\ \A w \in Worker : ~WorksOn(w, d)
FileInv ==
  /\ Shared \subseteq disturbed
  /\ \A d \in Draft : sent[d] = 0 => Unborn(d)
  /\ \A d \in Draft \ disturbed : Quietly(d)

(* A draft only one call at a time has worked on: the part that is being   *)
(* added is a new one, and comes after those that were answered.           *)
Adds(w, d) ==
  LET text == call[w].text
  IN /\ text[Len(text)] = sent[d] /\ sent[d] \notin acked[d]
     /\ Range(AllButLast(text)) = acked[d]
     /\ acked[d] = {} \/ Len(text) <= MaxDraftSize
Ordered(d) ==
  /\ acked[d] \subseteq 1..sent[d]
  /\ sent[d] # 0 /\ acked[d] = {} => d \in Coming
  /\ \A w \in Worker : call[w].on = d =>
       /\ call[w].at \in {"open", "write"} => Adds(w, d)
       /\ call[w].at \in {"unlink", "discard"} => acked[d] # {}
OrderInv == \A d \in Draft \ disturbed : Ordered(d)
===============================================================================
