--------------------------- MODULE EnrichmentProofs ---------------------------
(***************************************************************************)
(* Proofs about the enrichment for any number of terminals, parts, names   *)
(* and workbooks, any programs, any upstreams and any number of faults.    *)
(***************************************************************************)
EXTENDS Enrichment, WellFoundedInduction, TLAPS

-----------------------------------------------------------------------------
(***************************************************************************)
(* The inductive invariant.  A name reaches a row along a chain: a         *)
(* candidate with a Chinese name some workbook gave it, a key made of that *)
(* name, a line of that key, the reply.  So every link of the chain is     *)
(* invariant: what a process has in its index, in hand and in reply, and   *)
(* the lines of the file that any process may load.  What a run's status   *)
(* means is an invariant of its counters (Worked, Ingested), what its      *)
(* operator gets one of a fill's memory (Used).                            *)
(***************************************************************************)
Texts(c)   == UNION {Replies[u][c] : u \in DOMAIN Replies}
Lines      == {l \in [key : Keys, result : UNION {Texts(c) : c \in Chinese}, by : {"a", "b"}] :
                 l.result # None /\ l.result \in Texts(l.key.cn)}
Given(p, cn) == \E r \in RowsOf(p) : r.cn = cn

TableOK(p) ==
  /\ DOMAIN products[p] = DOMAIN Absent
  /\ products[p].cn \notin {None, Blank} => products[p].cn \in Chinese /\ Given(p, products[p].cn)

Candidate(c) == /\ c.part \in Parts /\ c.cn \in Chinese /\ Given(c.part, c.cn)
InHandOf(p)  == p.step \in {"record", "update"}

Form(s, p) ==
  /\ DOMAIN p = DOMAIN Idle
  /\ p.attempted \in Nat /\ p.succeeded \in Nat /\ p.failed \in Nat
  /\ p.program \in Programs[s] \cup {NoProgram}
  /\ \/ p.step = "idle" /\ p.program = NoProgram
     \/ p.step \in {"row", "link"} /\ p.program.tool = "ingest"
     \/ p.step \in {"load", "next", "asked"} /\ p.program.tool = "mart"
     \/ p.step \in {"load", "next", "asked", "record", "update"} /\ p.program.tool = "enrich"

(* What a process asks for, and what it knows. *)
Chain(p) ==
  p.program.tool \in {"enrich", "mart"} =>
    /\ DOMAIN p.index = Keys
    /\ \A k \in Keys : p.index[k] # None => p.index[k] \in Lines /\ p.index[k].key = k
    /\ p.program.tool = "mart" => \A c \in p.todo : c.cn \in Chinese
    /\ p.program.tool = "enrich" => /\ p.todo \subseteq p.goal
                                    /\ \A c \in p.goal : Candidate(c)
                                    /\ \A c, d \in p.goal : c.part = d.part => c = d
    /\ p.step = "load" => p.goal = {} /\ p.todo = {}
    /\ p.step = "asked" => p.now \in p.todo
    /\ InHandOf(p) => /\ p.now \in p.goal \ p.todo
                      /\ p.reply.key = Key("a", p.now.cn)
                      /\ p.reply.result # None => p.reply \in Lines
    /\ p.step = "update" => p.reply.result \notin {None, Blank}

(* As long as every attempt succeeded, all candidates dealt with are done. *)
Worked(p) ==
  p.program.tool = "enrich" =>
    LET count == IF p.step = "update" THEN p.succeeded + 1 ELSE p.succeeded IN
    /\ count <= p.attempted
    /\ count = p.attempted =>
         \A c \in p.goal \ p.todo : Done(p, c) \/ (InHandOf(p) /\ c = p.now)

(* As long as no row failed, all rows read are there and linked. *)
Ingested(p) ==
  p.program.tool = "ingest" =>
    /\ p.attempted <= Len(p.program.rows)
    /\ p.step = "link" => p.picture /\ p.attempted # 0 /\ p.program.rows[p.attempted].part # None
                          /\ products[p.program.rows[p.attempted].part].there
    /\ p.failed = 0 => \A i \in 1 .. p.attempted :
         LET part == p.program.rows[i].part IN
         /\ part # None /\ products[part].there
         /\ p.picture => part \in linked \/ (p.step = "link" /\ i = p.attempted)

BlankLine(k) == \E i \in DOMAIN file : file[i].result = Blank /\ file[i].key = k

(* What a fill with the operator's answers was answered, it uses. *)
Excused(p, c) == \/ products[c.part].translated
                 \/ c.cn \notin p.answered
                 \/ BlankLine(Key("a", c.cn))
Used(p) ==
  p.program = HandoffFill =>
    /\ p.answered \subseteq answers
    /\ p.step = "load" => p.memo = None /\ p.answered = {}
    /\ p.memo = None \/ p.answered \subseteq p.memo
    /\ \A k \in Keys : p.index[k] # None /\ p.index[k].result = Blank => BlankLine(k)
    /\ \A c \in p.goal \ p.todo : Excused(p, c) \/ (InHandOf(p) /\ c = p.now)
    /\ InHandOf(p) => /\ p.reply.result = None => p.now.cn \notin p.answered
                      /\ p.reply.result = Blank => BlankLine(p.reply.key)

Sound(s, p) == Form(s, p) /\ Chain(p) /\ Worked(p) /\ Ingested(p) /\ Used(p)

(* The processes are bound, so that what is known next is known of values. *)
EInv ==
  /\ DOMAIN products = Parts /\ \A p \in Parts : TableOK(p)
  /\ NamesAreOwn
  /\ file \in Seq(Lines)
  /\ DOMAIN process = Slots
  /\ \A s \in Slots : \A p \in {process[s]} : Sound(s, p)
  /\ ~overlapped => \A s, t \in Translating : s = t

-----------------------------------------------------------------------------
(* Lemmas on the operators of the model.                                    *)

(* A nonempty set of positions has a last one. *)
LEMMA LastOne ==
  ASSUME NEW n \in Nat, NEW S \in SUBSET (1 .. n), S # {}
  PROVE  \E i \in S : \A j \in S : j <= i
<1>. DEFINE T == {n - i : i \in S}
            R == {p \in Nat \X Nat : p[1] < p[2]}
<1>1. IsWellFoundedOn(R, Nat)
  BY NatLessThanWellFounded DEF OpToRel
<1>2. T \subseteq Nat
  OBVIOUS
<1>3. T # {}
  <2>1. PICK i \in S : TRUE
    OBVIOUS
  <2>2. n - i \in T
    OBVIOUS
  <2>. QED BY <2>2
<1>. HIDE DEF T
<1>4. PICK x \in T : \A y \in T : ~(<<y, x>> \in R)
  <2>. HIDE DEF R
  <2>. QED BY <1>1, <1>2, <1>3, WFMin
<1>5. \A y \in T : ~(y < x)
  BY <1>2, <1>4
<1>6. PICK i \in S : x = n - i
  BY <1>4 DEF T
<1>7. \A j \in S : n - j \in T
  BY DEF T
<1>8. \A j \in S : ~(n - j < n - i)
  BY <1>5, <1>6, <1>7
<1>. QED BY <1>8

LEMMA KeyType ==
  ASSUME NEW track, NEW c \in Chinese
  PROVE  Key(track, c) \in Keys /\ Key(track, c).cn = c
BY DEF Key, Keys

(* What a process loads from the file are lines of the file. *)
LEMMA IndexType ==
  ASSUME file \in Seq(Lines), NEW track
  PROVE  /\ DOMAIN Index(track) = Keys
         /\ \A k \in Keys : Index(track)[k] # None =>
              \E i \in DOMAIN file : Index(track)[k] = file[i] /\ file[i].key = k
<1>1. DOMAIN Index(track) = Keys
  BY DEF Index
<1>2. ASSUME NEW k \in Keys, Index(track)[k] # None
      PROVE  \E i \in DOMAIN file : Index(track)[k] = file[i] /\ file[i].key = k
  <2>. DEFINE own == {i \in DOMAIN file : file[i].key = k /\ (track = "a" \/ file[i].by = "b")}
              last == CHOOSE i \in own : \A j \in own : j <= i
  <2>1. Index(track)[k] = IF own = {} THEN None ELSE file[last]
    BY DEF Index
  <2>2. own # {} /\ Index(track)[k] = file[last]
    BY <1>2, <2>1
  <2>3. Len(file) \in Nat /\ DOMAIN file = 1 .. Len(file)
    OBVIOUS
  <2>4. \E i \in own : \A j \in own : j <= i
    BY <2>2, <2>3, LastOne
  <2>5. last \in own
    BY <2>4
  <2>. QED BY <2>2, <2>5
<1>. QED BY <1>1, <1>2

(* A line that was asked for. *)
LEMMA LineType ==
  ASSUME NEW track \in {"a", "b"}, NEW c \in Chinese, NEW u \in DOMAIN Replies,
         NEW result \in Replies[u][c], result # None
  PROVE  [key |-> Key(track, c), result |-> result, by |-> track] \in Lines
<1>1. result \in Texts(c)
  BY DEF Texts
<1>. QED BY <1>1, KeyType DEF Lines

LEMMA BookRows ==
  ASSUME NEW book \in Workbooks
  PROVE  /\ Len(book) \in Nat /\ DOMAIN book = 1 .. Len(book)
         /\ \A i \in DOMAIN book :
              /\ book[i].part \in Parts \cup {None} /\ book[i].cn \in Chinese \cup {None, Blank}
              /\ book[i] \in RowsOf(book[i].part)
<1>1. book \in Seq(ToSet(book))
  BY ProgramAssumption
<1>2. Len(book) \in Nat /\ DOMAIN book = 1 .. Len(book)
  BY <1>1
<1>3. \A i \in DOMAIN book : book[i] \in ToSet(book)
  BY DEF ToSet
<1>. QED BY <1>2, <1>3, ProgramAssumption DEF RowsOf

-----------------------------------------------------------------------------
(* What a step of one process leaves to the others.                         *)

Grown ==
  /\ \A p \in Parts : /\ products[p].there => products'[p].there
                      /\ products[p].translated => products'[p].translated
                      /\ products[p].verified => products'[p].verified
  /\ linked \subseteq linked' /\ answers \subseteq answers'
  /\ \A k : BlankLine(k) => BlankLine(k)'

LEMMA KeptSound ==
  ASSUME Grown, NEW s \in Slots, NEW p, Sound(s, p)  PROVE Sound(s, p)'
<1>1. Form(s, p)'
  BY DEF Sound, Form
<1>2. Chain(p)'
  BY DEF Sound, Chain, InHandOf, Candidate, Given
<1>3. Worked(p)'
  <2>1. p.program.tool = "enrich" => \A c \in p.goal : c.part \in Parts
    BY DEF Sound, Chain, Candidate
  <2>2. p.program.tool = "enrich" => \A c \in p.goal : Done(p, c) => Done(p, c)'
    BY <2>1 DEF Done, Grown
  <2>. QED BY <2>2 DEF Sound, Worked, InHandOf
<1>4. Ingested(p)'
  <2>1. SUFFICES ASSUME p.program.tool = "ingest" PROVE Ingested(p)'
    BY DEF Ingested
  <2>2. p.program.rows \in Workbooks
    BY <2>1, ProgramAssumption DEF Sound, Form, NoProgram
  <2>3. \A i \in 1 .. p.attempted : p.program.rows[i].part \in Parts \cup {None}
    BY <2>1, <2>2, BookRows DEF Sound, Form, Ingested
  <2>4. p.step = "link" => p.attempted \in 1 .. p.attempted
    BY <2>1 DEF Sound, Form, Ingested
  <2>. QED BY <2>1, <2>3, <2>4 DEF Sound, Ingested, Grown
<1>5. Used(p)'
  <2>1. \A c : c.part \in Parts /\ Excused(p, c) => Excused(p, c)'
    BY DEF Excused, Grown
  <2>2. p.program = HandoffFill => \A c \in p.goal : c.part \in Parts
    BY DEF Sound, Chain, Candidate, HandoffFill
  <2>3. p.program = HandoffFill => p.todo \subseteq p.goal
    BY DEF Sound, Chain, HandoffFill
  <2>. QED BY <2>1, <2>2, <2>3 DEF Sound, Used, InHandOf, Grown
<1>. QED BY <1>1, <1>2, <1>3, <1>4, <1>5 DEF Sound

LEMMA MovedSound ==
  ASSUME EInv, Grown, NEW s \in Slots, NEW q, Becomes(s, q), Sound(s, q)'
  PROVE  DOMAIN process' = Slots /\ \A t \in Slots : \A p \in {process'[t]} : Sound(t, p)'
<1>1. DOMAIN process' = Slots /\ process'[s] = q /\ \A t \in Slots \ {s} : process'[t] = process[t]
  BY DEF EInv, Becomes
<1>. QED BY <1>1, KeptSound DEF EInv

(* A step of one process that leaves the products alone. *)
LEMMA Moved ==
  ASSUME EInv, NEW s \in Slots, NEW q, Becomes(s, q), Sound(s, q)',
         UNCHANGED products, linked \subseteq linked', answers \subseteq answers',
         file' \in Seq(Lines), \A k : BlankLine(k) => BlankLine(k)',
         ~overlapped' => ~overlapped,
         ~overlapped' /\ q.program.tool \in {"enrich", "mart"} =>
           s \in Translating \/ Translating = {}
  PROVE  EInv'
<1>1. Grown
  BY DEF Grown
<1>2. DOMAIN process' = Slots /\ \A t \in Slots : \A p \in {process'[t]} : Sound(t, p)'
  BY <1>1, MovedSound
<1>3. process'[s] = q /\ \A t \in Slots \ {s} : process'[t] = process[t]
  BY DEF EInv, Becomes
<1>6. ~overlapped' => \A t, u \in Translating' : t = u
  BY <1>3 DEF EInv, Translating, Tool
<1>7. (\A p \in Parts : TableOK(p)') /\ NamesAreOwn'
  BY DEF EInv, TableOK, NamesAreOwn, Given
<1>. QED BY <1>2, <1>6, <1>7 DEF EInv

(* A step of one process that leaves the tables alone. *)
LEMMA Quiet ==
  ASSUME EInv, NEW s \in Slots, NEW q, Becomes(s, q), Sound(s, q),
         UNCHANGED <<products, linked, answers, overlapped>>,
         file' \in Seq(Lines), \A k : BlankLine(k) => BlankLine(k)',
         q.program \in {process[s].program, NoProgram}
  PROVE  EInv'
<1>1. Sound(s, q)'
  BY KeptSound DEF Grown
<1>2. q.program.tool \in {"enrich", "mart"} => s \in Translating
  BY DEF Translating, Tool, NoProgram
<1>. QED BY <1>1, <1>2, Moved

-----------------------------------------------------------------------------
(* The steps of an enrichment.                                              *)

LEMMA IdleSound == \A s \in Slots : Sound(s, Idle)
BY DEF Sound, Form, Chain, Worked, Ingested, Used, Idle, NoProgram, HandoffFill

(* A reply to candidate c is taken in hand, or printed. *)
LEMMA ReplySound ==
  ASSUME NEW s \in Slots, NEW p, Sound(s, p), p.step \in {"next", "asked"},
         NEW c \in p.todo, NEW reply,
         p.program.tool = "enrich" => /\ reply.key = Key("a", c.cn)
                                      /\ reply.result # None => reply \in Lines,
         p.program = HandoffFill => /\ reply.result = None => c.cn \notin p.answered
                                    /\ reply.result = Blank => BlankLine(reply.key)
  PROVE  /\ Sound(s, Replied(p, c, reply))
         /\ Replied(p, c, reply).program = p.program
<1>1. p.program.tool \in {"mart", "enrich"} /\ DOMAIN p = DOMAIN Idle
  BY DEF Sound, Form
<1>2. CASE p.program.tool = "mart"
  <2>1. PICK q : q = [p EXCEPT !.step = "next", !.todo = @ \ {c}, !.now = None]
    OBVIOUS
  <2>2. /\ DOMAIN q = DOMAIN Idle /\ q.step = "next" /\ q.todo = p.todo \ {c}
        /\ q.program = p.program /\ q.index = p.index
        /\ q.attempted = p.attempted /\ q.succeeded = p.succeeded /\ q.failed = p.failed
    BY <1>1, <2>1 DEF Idle
  <2>3. Sound(s, q)
    BY <1>2, <2>2
    DEF Sound, Form, Chain, Worked, Ingested, Used, HandoffFill, InHandOf
  <2>. QED BY <1>2, <2>1, <2>2, <2>3 DEF Replied
<1>3. CASE p.program.tool = "enrich"
  <2>1. PICK q : q = [p EXCEPT !.step = "record", !.todo = @ \ {c}, !.now = c, !.reply = reply]
    OBVIOUS
  <2>2. /\ DOMAIN q = DOMAIN Idle /\ q.step = "record" /\ q.todo = p.todo \ {c} /\ q.now = c
        /\ q.reply = reply /\ q.program = p.program /\ q.index = p.index /\ q.memo = p.memo
        /\ q.attempted = p.attempted /\ q.succeeded = p.succeeded /\ q.failed = p.failed
        /\ q.goal = p.goal /\ q.answered = p.answered
    BY <1>1, <2>1 DEF Idle
  <2>3. Form(s, q)
    BY <1>3, <2>2 DEF Sound, Form
  <2>4. Chain(q)
    BY <1>3, <2>2 DEF Sound, Chain, InHandOf
  <2>5. Worked(q)
    BY <1>3, <2>2 DEF Sound, Worked, InHandOf, Done
  <2>6. Ingested(q) /\ Used(q)
    BY <1>3, <2>2 DEF Sound, Ingested, Used, InHandOf, Excused, HandoffFill
  <2>. QED BY <1>3, <2>1, <2>2, <2>3, <2>4, <2>5, <2>6 DEF Replied, Sound
<1>. QED BY <1>1, <1>2, <1>3

LEMMA SelfNow == ASSUME EInv, NEW s \in Slots PROVE Sound(s, process[s])
BY DEF EInv

LEMMA TrackType ==
  ASSUME EInv, NEW s \in Slots
  PROVE  /\ Track(s) \in {"a", "b"}
         /\ process[s].program.tool = "enrich" => Track(s) = "a"
BY DEF Track, Tool

LEMMA LoadInv == ASSUME EInv, NEW s \in Slots, Load(s) PROVE EInv'
<1>1. PICK p : p = process[s]
  OBVIOUS
<1>2. Sound(s, p) /\ p.step = "load" /\ DOMAIN p = DOMAIN Idle
  BY <1>1, SelfNow DEF Load, At, Sound, Form
<1>3. CASE p.program.tool = "enrich"
  <2>1. PICK found, asked :
          /\ found = {[part |-> x, cn |-> products[x].cn, en |-> products[x].en] :
                         x \in Candidates(p.program.mode)}
          /\ asked = {c \in found : c.cn \notin Spaces}
    OBVIOUS
  <2>2. PICK q : q = [p EXCEPT !.step = "next", !.todo = asked, !.goal = asked,
                               !.skipped = Cardinality(found \ asked), !.answered = answers]
    OBVIOUS
  <2>3. Becomes(s, q)
    BY <1>1, <1>3, <2>1, <2>2 DEF Load, Tool
  <2>4. /\ DOMAIN q = DOMAIN Idle /\ q.step = "next" /\ q.todo = asked /\ q.now = p.now
        /\ q.reply = p.reply /\ q.program = p.program /\ q.index = p.index /\ q.memo = p.memo
        /\ q.attempted = p.attempted /\ q.succeeded = p.succeeded /\ q.failed = p.failed
        /\ q.goal = asked /\ q.answered = answers
    BY <1>2, <2>2 DEF Idle
  <2>5. \A c \in asked : Candidate(c)
    BY <2>1 DEF Candidates, Candidate, EInv, TableOK
  <2>6. \A c, d \in asked : c.part = d.part => c = d
    BY <2>1
  <2>7. Sound(s, q)
    BY <1>2, <1>3, <2>4, <2>5, <2>6
    DEF Sound, Form, Chain, Worked, Ingested, Used, InHandOf, HandoffFill
  <2>. QED BY <1>1, <2>3, <2>4, <2>7, Quiet DEF Load, EInv, tables, handoff, history, BlankLine
<1>4. CASE p.program.tool = "mart"
  <2>1. PICK q : q = [p EXCEPT !.step = "next", !.todo = p.program.rows]
    OBVIOUS
  <2>2. Becomes(s, q)
    BY <1>1, <1>4, <2>1 DEF Load, Tool
  <2>3. /\ DOMAIN q = DOMAIN Idle /\ q.step = "next" /\ q.todo = p.program.rows
        /\ q.program = p.program /\ q.index = p.index
        /\ q.attempted = p.attempted /\ q.succeeded = p.succeeded /\ q.failed = p.failed
    BY <1>2, <2>1 DEF Idle
  <2>4. \A c \in p.program.rows : c.cn \in Chinese
    BY <1>2, <1>4, ProgramAssumption DEF Sound, Form, NoProgram
  <2>5. Sound(s, q)
    BY <1>2, <1>4, <2>3, <2>4
    DEF Sound, Form, Chain, Worked, Ingested, Used, InHandOf, HandoffFill
  <2>. QED BY <1>1, <2>2, <2>3, <2>5, Quiet DEF Load, EInv, tables, handoff, history, BlankLine
<1>. QED BY <1>2, <1>3, <1>4 DEF Sound, Form

LEMMA AskInv == ASSUME EInv, NEW s \in Slots, NEW c \in process[s].todo, Ask(s, c) PROVE EInv'
<1>1. PICK p : p = process[s]
  OBVIOUS
<1>2. Sound(s, p) /\ p.step = "next" /\ DOMAIN p = DOMAIN Idle
      /\ c \in p.todo /\ p.program.tool \in {"enrich", "mart"}
  BY <1>1, SelfNow DEF Ask, At, Sound, Form
<1>3. c.cn \in Chinese
  BY <1>2 DEF Sound, Chain, Candidate
<1>4. PICK hit : hit = p.index[Key(Track(s), c.cn)]
  OBVIOUS
<1>5. hit # None => hit \in Lines /\ hit.key = Key(Track(s), c.cn)
  BY <1>2, <1>3, <1>4, KeyType DEF Sound, Chain
<1>6. PICK q : q = IF hit # None THEN Replied(p, c, hit)
                   ELSE [p EXCEPT !.step = "asked", !.now = c]
  OBVIOUS
<1>7. Becomes(s, q)
  BY <1>1, <1>4, <1>6 DEF Ask
<1>8. Sound(s, q) /\ q.program = p.program
  <2>1. CASE hit # None
    <3>1. hit.result # None
      BY <1>5, <2>1 DEF Lines
    <3>2. p.program.tool = "enrich" => hit.key = Key("a", c.cn)
      BY <1>1, <1>5, <2>1, TrackType
    <3>3. p.program = HandoffFill => (hit.result = Blank => BlankLine(hit.key))
      BY <1>2, <1>3, <1>4, <1>5, <2>1, KeyType DEF Sound, Used
    <3>. QED BY <1>2, <1>5, <1>6, <2>1, <3>1, <3>2, <3>3, ReplySound
  <2>2. CASE hit = None
    <3>1. /\ DOMAIN q = DOMAIN Idle /\ q.step = "asked" /\ q.todo = p.todo /\ q.now = c
          /\ q.reply = p.reply /\ q.program = p.program /\ q.index = p.index /\ q.memo = p.memo
          /\ q.attempted = p.attempted /\ q.succeeded = p.succeeded /\ q.failed = p.failed
          /\ q.goal = p.goal /\ q.answered = p.answered
      BY <1>2, <1>6, <2>2 DEF Idle
    <3>2. Form(s, q) /\ Chain(q)
      BY <1>2, <3>1 DEF Sound, Form, Chain, InHandOf
    <3>3. Worked(q) /\ Ingested(q)
      BY <1>2, <3>1 DEF Sound, Worked, Ingested, InHandOf, Done
    <3>4. Used(q)
      BY <1>2, <3>1 DEF Sound, Used, InHandOf, Excused
    <3>. QED BY <3>1, <3>2, <3>3, <3>4 DEF Sound
  <2>. QED BY <2>1, <2>2
<1>. QED BY <1>1, <1>2, <1>7, <1>8, Quiet DEF Ask, EInv, tables, handoff, history, BlankLine

(* What is known of a process that waits for an upstream. *)
LEMMA AskedNow ==
  ASSUME EInv, NEW s \in Slots, NEW p, p = process[s], p.step = "asked"
  PROVE  /\ Sound(s, p) /\ DOMAIN p = DOMAIN Idle
         /\ p.program.tool \in {"enrich", "mart"} /\ p.now \in p.todo /\ p.now.cn \in Chinese
<1>1. Sound(s, p) /\ DOMAIN p = DOMAIN Idle
  BY SelfNow DEF Sound, Form
<1>2. p.program.tool \in {"enrich", "mart"}
  BY <1>1 DEF Sound, Form
<1>. QED BY <1>1, <1>2 DEF Sound, Chain, Candidate

(* A process that knows more, or has read the results file. *)
Knowing(p, index, memo) == [p EXCEPT !.index = index, !.memo = memo]

LEMMA KnowingSound ==
  ASSUME NEW s \in Slots, NEW p, Sound(s, p), p.step = "asked", NEW memo,
         NEW index, DOMAIN index = Keys,
         \A k \in Keys : index[k] # None => index[k] \in Lines /\ index[k].key = k,
         p.program = HandoffFill => /\ p.answered \subseteq memo
                                    /\ \A k \in Keys : index[k] # None /\ index[k].result = Blank
                                         => BlankLine(k)
  PROVE  /\ Sound(s, Knowing(p, index, memo))
         /\ Knowing(p, index, memo).step = "asked"
         /\ Knowing(p, index, memo).program = p.program
         /\ Knowing(p, index, memo).todo = p.todo
         /\ Knowing(p, index, memo).answered = p.answered
<1>1. DOMAIN p = DOMAIN Idle
  BY DEF Sound, Form
<1>2. PICK q : q = Knowing(p, index, memo)
  OBVIOUS
<1>3. /\ DOMAIN q = DOMAIN Idle /\ q.step = p.step /\ q.todo = p.todo /\ q.now = p.now
      /\ q.reply = p.reply /\ q.program = p.program /\ q.index = index /\ q.memo = memo
      /\ q.attempted = p.attempted /\ q.succeeded = p.succeeded /\ q.failed = p.failed
      /\ q.goal = p.goal /\ q.answered = p.answered
  BY <1>1, <1>2 DEF Idle, Knowing
<1>4. Form(s, q) /\ Chain(q)
  BY <1>3 DEF Sound, Form, Chain, InHandOf
<1>5. Worked(q)
  BY <1>3 DEF Sound, Worked, InHandOf, Done
<1>6. Ingested(q) /\ Used(q)
  <2>1. Ingested(q)
    BY <1>3 DEF Sound, Form, Ingested
  <2>. QED BY <1>3, <2>1 DEF Sound, Used, InHandOf, Excused
<1>. QED BY <1>2, <1>3, <1>4, <1>5, <1>6 DEF Sound

LEMMA AnsweredInv ==
  ASSUME EInv, NEW s \in Slots, At(s, "asked"), NEW memo,
         NEW u \in DOMAIN Replies, NEW result \in Replies[u][process[s].now.cn],
         result # None, Answered(s, result, memo),
         process[s].program = HandoffFill => /\ result # Blank
                                             /\ process[s].answered \subseteq memo,
         UNCHANGED <<products, linked, answers, overlapped>>
  PROVE  EInv'
<1>1. PICK p : p = process[s]
  OBVIOUS
<1>2. /\ Sound(s, p) /\ DOMAIN p = DOMAIN Idle /\ p.step = "asked"
      /\ p.program.tool \in {"enrich", "mart"} /\ p.now \in p.todo /\ p.now.cn \in Chinese
  BY <1>1, AskedNow DEF At
<1>3. PICK line : line = [key |-> Key(Track(s), p.now.cn), result |-> result, by |-> Track(s)]
  OBVIOUS
<1>4. line \in Lines /\ line.key = Key(Track(s), p.now.cn) /\ line.result = result
  BY <1>1, <1>2, <1>3, LineType, TrackType
<1>5. line.key \in Keys
  BY <1>2, <1>4, KeyType
<1>6. PICK index : index = [p.index EXCEPT ![line.key] = line]
  OBVIOUS
<1>7. PICK kept : kept = Knowing(p, index, memo)
  OBVIOUS
<1>8. /\ DOMAIN index = Keys
      /\ \A k \in Keys : index[k] = IF k = line.key THEN line ELSE p.index[k]
  BY <1>2, <1>6 DEF Sound, Chain
<1>9. \A k \in Keys : index[k] # None => index[k] \in Lines /\ index[k].key = k
  BY <1>2, <1>4, <1>8 DEF Sound, Chain
<1>10. p.program = HandoffFill =>
         /\ p.answered \subseteq memo
         /\ \A k \in Keys : index[k] # None /\ index[k].result = Blank => BlankLine(k)
  BY <1>1, <1>2, <1>4, <1>8 DEF Sound, Used
<1>11. /\ Sound(s, kept)
       /\ kept.step = "asked" /\ kept.program = p.program /\ kept.todo = p.todo
       /\ kept.answered = p.answered
  BY <1>2, <1>7, <1>8, <1>9, <1>10, KnowingSound
<1>12. PICK q : q = Replied(kept, p.now, line)
  OBVIOUS
<1>13. p.program.tool = "enrich" => line.key = Key("a", p.now.cn)
  BY <1>1, <1>4, TrackType
<1>14. Sound(s, q) /\ q.program = p.program
  <2>1. kept.program.tool = "enrich" => /\ line.key = Key("a", p.now.cn)
                                        /\ line.result # None => line \in Lines
    BY <1>4, <1>11, <1>13
  <2>2. kept.program = HandoffFill => /\ line.result = None => p.now.cn \notin kept.answered
                                      /\ line.result = Blank => BlankLine(line.key)
    BY <1>1, <1>4, <1>11
  <2>3. p.now \in kept.todo /\ kept.step \in {"next", "asked"}
    BY <1>2, <1>11
  <2>4. /\ Sound(s, Replied(kept, p.now, line))
        /\ Replied(kept, p.now, line).program = kept.program
    BY <1>11, <2>1, <2>2, <2>3, ReplySound
  <2>. QED BY <1>11, <1>12, <2>4
<1>15. Becomes(s, q)
  <2>1. kept = [process[s] EXCEPT !.index[line.key] = line, !.memo = memo]
    BY <1>1, <1>2, <1>6, <1>7 DEF Knowing
  <2>. QED BY <1>1, <1>3, <1>12, <2>1 DEF Answered, Line
<1>16. file' = Append(file, line) \/ file' = file
  BY <1>1, <1>3 DEF Answered, Line
<1>17. file' \in Seq(Lines) /\ \A k : BlankLine(k) => BlankLine(k)'
  BY <1>4, <1>16 DEF EInv, BlankLine
<1>. QED BY <1>1, <1>2, <1>14, <1>15, <1>17, Quiet

LEMMA NotAnsweredInv ==
  ASSUME EInv, NEW s \in Slots, At(s, "asked"), NEW memo, NotAnswered(s, memo),
         process[s].program = HandoffFill => /\ process[s].now.cn \notin process[s].answered
                                             /\ process[s].answered \subseteq memo,
         UNCHANGED <<products, linked, answers, overlapped>>
  PROVE  EInv'
<1>1. PICK p : p = process[s]
  OBVIOUS
<1>2. /\ Sound(s, p) /\ DOMAIN p = DOMAIN Idle /\ p.step = "asked"
      /\ p.program.tool \in {"enrich", "mart"} /\ p.now \in p.todo /\ p.now.cn \in Chinese
  BY <1>1, AskedNow DEF At
<1>3. PICK line : line = [key |-> Key(Track(s), p.now.cn), result |-> None, by |-> Track(s)]
  OBVIOUS
<1>4. line.result = None /\ (p.program.tool = "enrich" => line.key = Key("a", p.now.cn))
  BY <1>1, <1>3, TrackType
<1>5. PICK kept : kept = [p EXCEPT !.memo = memo]
  OBVIOUS
<1>6. kept = Knowing(p, p.index, memo)
  BY <1>2, <1>5 DEF Idle, Knowing
<1>7. /\ Sound(s, kept)
      /\ kept.step = "asked" /\ kept.program = p.program /\ kept.todo = p.todo
      /\ kept.answered = p.answered
  <2>1. DOMAIN p.index = Keys /\ \A k \in Keys :
          p.index[k] # None => p.index[k] \in Lines /\ p.index[k].key = k
    BY <1>2 DEF Sound, Chain
  <2>2. p.program = HandoffFill =>
          /\ p.answered \subseteq memo
          /\ \A k \in Keys : p.index[k] # None /\ p.index[k].result = Blank => BlankLine(k)
    BY <1>1, <1>2 DEF Sound, Used
  <2>3. PICK index : index = p.index
    OBVIOUS
  <2>. QED BY <1>2, <1>6, <2>1, <2>2, <2>3, KnowingSound
<1>8. PICK q : q = Replied(kept, p.now, line)
  OBVIOUS
<1>9. Sound(s, q) /\ q.program = p.program
  <2>1. kept.program.tool = "enrich" => /\ line.key = Key("a", p.now.cn)
                                        /\ line.result # None => line \in Lines
    BY <1>4, <1>7
  <2>2. kept.program = HandoffFill => /\ line.result = None => p.now.cn \notin kept.answered
                                      /\ line.result = Blank => BlankLine(line.key)
    BY <1>1, <1>4, <1>7, EnrichmentAssumption
  <2>3. p.now \in kept.todo /\ kept.step \in {"next", "asked"}
    BY <1>2, <1>7
  <2>4. /\ Sound(s, Replied(kept, p.now, line))
        /\ Replied(kept, p.now, line).program = kept.program
    BY <1>7, <2>1, <2>2, <2>3, ReplySound
  <2>. QED BY <1>7, <1>8, <2>4
<1>10. Becomes(s, q) /\ file' = file
  BY <1>1, <1>3, <1>5, <1>8 DEF NotAnswered, Line
<1>. QED BY <1>1, <1>2, <1>9, <1>10, Quiet DEF EInv, BlankLine

LEMMA RepliesInv ==
  ASSUME EInv, NEW s \in Slots, ModelReplies(s) \/ HandoffReplies(s)  PROVE EInv'
<1>1. PICK p : p = process[s]
  OBVIOUS
<1>2. p.step = "asked"
  BY <1>1 DEF ModelReplies, HandoffReplies, At
<1>3. /\ Sound(s, p) /\ DOMAIN p = DOMAIN Idle
      /\ p.program.tool \in {"enrich", "mart"} /\ p.now \in p.todo /\ p.now.cn \in Chinese
  BY <1>1, <1>2, AskedNow
<1>4. p.program.upstream \in DOMAIN Replies
  BY <1>3, ProgramAssumption DEF Sound, Form, NoProgram
<1>5. CASE ModelReplies(s)
  <2>1. p.program # HandoffFill
    BY <1>1, <1>5 DEF ModelReplies, HandoffFill
  <2>2. PICK result \in Replies[p.program.upstream][p.now.cn] :
          \/ result # None /\ Answered(s, result, None)
          \/ result = None /\ NotAnswered(s, None)
    BY <1>1, <1>5 DEF ModelReplies
  <2>. QED BY <1>1, <1>2, <1>4, <1>5, <2>1, <2>2, AnsweredInv, NotAnsweredInv
           DEF ModelReplies, tables, handoff, At
<1>6. CASE HandoffReplies(s)
  <2>1. PICK seen : seen = OrElse(p.memo, answers)
    OBVIOUS
  <2>2. p.program = HandoffFill => p.answered \subseteq seen
    BY <1>3, <2>1 DEF Sound, Used, OrElse
  <2>3. CASE p.now.cn \in seen
    <3>1. PICK result \in Replies["handoff"][p.now.cn] : Answered(s, result, seen)
      BY <1>1, <1>6, <2>1, <2>3 DEF HandoffReplies
    <3>2. result # None /\ result # Blank /\ "handoff" \in DOMAIN Replies
      BY <1>3, EnrichmentAssumption
    <3>. QED BY <1>1, <1>2, <1>6, <2>2, <3>1, <3>2, AnsweredInv
             DEF HandoffReplies, tables, At
  <2>4. CASE p.now.cn \notin seen
    <3>1. NotAnswered(s, seen)
      BY <1>1, <1>6, <2>1, <2>4 DEF HandoffReplies
    <3>. QED BY <1>1, <1>2, <1>6, <2>2, <2>4, <3>1, NotAnsweredInv
             DEF HandoffReplies, tables, At
  <2>. QED BY <2>3, <2>4
<1>. QED BY <1>5, <1>6

LEMMA RecordAuditInv == ASSUME EInv, NEW s \in Slots, RecordAudit(s) PROVE EInv'
<1>1. PICK p : p = process[s]
  OBVIOUS
<1>2. Sound(s, p) /\ p.step = "record" /\ DOMAIN p = DOMAIN Idle
      /\ p.program.tool = "enrich"
  BY <1>1, SelfNow DEF RecordAudit, At, Sound, Form
<1>3. PICK usable : usable = (p.reply.result \notin {None, Blank})
  OBVIOUS
<1>4. PICK q : q = [p EXCEPT !.attempted = @ + 1,
                             !.step  = IF usable THEN "update" ELSE "next",
                             !.now   = IF usable THEN @ ELSE None,
                             !.reply = IF usable THEN @ ELSE None]
  OBVIOUS
<1>5. Becomes(s, Idle) \/ Becomes(s, q)
  BY <1>1, <1>3, <1>4 DEF RecordAudit
<1>6. /\ DOMAIN q = DOMAIN Idle /\ q.step = (IF usable THEN "update" ELSE "next")
      /\ q.todo = p.todo /\ (usable => q.now = p.now /\ q.reply = p.reply)
      /\ q.program = p.program /\ q.index = p.index /\ q.memo = p.memo
      /\ q.attempted = p.attempted + 1 /\ q.succeeded = p.succeeded /\ q.failed = p.failed
      /\ q.goal = p.goal /\ q.answered = p.answered
  BY <1>2, <1>4 DEF Idle
<1>7. Sound(s, q)
  <2>1. Form(s, q)
    BY <1>2, <1>6 DEF Sound, Form
  <2>2. Chain(q)
    BY <1>2, <1>3, <1>6 DEF Sound, Chain, InHandOf
  <2>3. Worked(q)
    <3>1. p.succeeded \in Nat /\ p.attempted \in Nat /\ p.succeeded <= p.attempted
      BY <1>2 DEF Sound, Form, Worked
    <3>2. CASE usable
      BY <1>2, <1>6, <3>1, <3>2 DEF Sound, Worked, InHandOf, Done
    <3>3. CASE ~usable
      <4>1. q.step = "next" /\ q.succeeded <= q.attempted /\ q.succeeded # q.attempted
        BY <1>6, <3>1, <3>3
      <4>. QED BY <4>1 DEF Worked
    <3>. QED BY <3>2, <3>3
  <2>4. Ingested(q)
    BY <1>2, <1>6 DEF Ingested
  <2>5. Used(q)
    <3>1. SUFFICES ASSUME p.program = HandoffFill PROVE Used(q)
      BY <1>6 DEF Used
    <3>2. CASE usable
      BY <1>2, <1>6, <3>1, <3>2 DEF Sound, Used, InHandOf, Excused
    <3>3. CASE ~usable
      <4>1. Excused(p, p.now)
        BY <1>2, <1>3, <3>1, <3>3 DEF Sound, Chain, Used, InHandOf, Excused
      <4>2. \A c \in p.goal \ p.todo : Excused(p, c)
        BY <1>2, <3>1, <4>1 DEF Sound, Used
      <4>. QED BY <1>2, <1>6, <3>1, <3>3, <4>2 DEF Sound, Used, InHandOf, Excused
    <3>. QED BY <3>2, <3>3
  <2>. QED BY <2>1, <2>2, <2>3, <2>4, <2>5 DEF Sound
<1>8. UNCHANGED <<products, linked, answers, overlapped, file>>
  BY DEF RecordAudit, tables, handoff, history
<1>9. file' \in Seq(Lines) /\ \A k : BlankLine(k) => BlankLine(k)'
  BY <1>8 DEF EInv, BlankLine
<1>10. Idle.program = NoProgram
  BY DEF Idle
<1>. QED BY <1>1, <1>2, <1>5, <1>6, <1>7, <1>8, <1>9, <1>10, IdleSound, Quiet

(* A process that is at its end, or is killed. *)
LEMMA EndInv ==
  ASSUME EInv, NEW s \in Slots, Finalise(s) \/ Die(s)  PROVE EInv'
<1>1. Becomes(s, Idle) /\ UNCHANGED <<products, linked, answers, overlapped, file>>
  BY DEF Finalise, Die, tables, handoff, history
<1>2. file' \in Seq(Lines) /\ \A k : BlankLine(k) => BlankLine(k)'
  BY <1>1 DEF EInv, BlankLine
<1>3. Idle.program = NoProgram
  BY DEF Idle
<1>. QED BY <1>1, <1>2, <1>3, IdleSound, Quiet

(* The update writes the reply to the row of the candidate in hand. *)
LEMMA UpdateInv == ASSUME EInv, NEW s \in Slots, Update(s) PROVE EInv'
<1>1. PICK p : p = process[s]
  OBVIOUS
<1>2. Sound(s, p) /\ p.step = "update" /\ DOMAIN p = DOMAIN Idle
      /\ p.program.tool = "enrich" /\ p.program.mode \in {"fill", "audit"}
  BY <1>1, SelfNow, ProgramAssumption DEF Update, At, Sound, Form, NoProgram
<1>3. /\ Candidate(p.now) /\ p.now \in p.goal \ p.todo
      /\ p.reply \in Lines /\ p.reply.key = Key("a", p.now.cn)
      /\ p.reply.result \notin {None, Blank}
      /\ \A c, d \in p.goal : c.part = d.part => c = d
      /\ p.todo \subseteq p.goal
  BY <1>2 DEF Sound, Chain, InHandOf
<1>4. p.reply.result \in Translations(p.now.cn)
  <2>1. p.reply.result \in Texts(p.now.cn)
    BY <1>3, KeyType DEF Lines, Candidate
  <2>2. Translations(p.now.cn) = Texts(p.now.cn) \ {None, Blank}
    BY DEF Texts, Translations
  <2>. QED BY <1>3, <2>1, <2>2
<1>5. PICK x : x = p.now.part
  OBVIOUS
<1>6. PICK new : new = IF p.program.mode = "audit" THEN [products[x] EXCEPT !.verified = TRUE]
                       ELSE [products[x] EXCEPT !.en = p.reply.result, !.translated = TRUE]
  OBVIOUS
<1>7. x \in Parts /\ TableOK(x) /\ DOMAIN products[x] = DOMAIN Absent
  BY <1>3, <1>5 DEF Candidate, EInv, TableOK
<1>8. products' = [products EXCEPT ![x] = new]
  BY <1>1, <1>5, <1>6 DEF Update
<1>9. /\ DOMAIN new = DOMAIN Absent /\ new.there = products[x].there /\ new.cn = products[x].cn
      /\ p.program.mode = "audit" =>
           /\ new.en = products[x].en /\ new.translated = products[x].translated
           /\ new.verified = TRUE
      /\ p.program.mode = "fill" => /\ new.en = p.reply.result /\ new.translated = TRUE
                                    /\ new.verified = products[x].verified
  BY <1>2, <1>6, <1>7 DEF Absent
<1>10. /\ DOMAIN products' = Parts /\ products'[x] = new
       /\ \A y \in Parts \ {x} : products'[y] = products[y]
  BY <1>7, <1>8 DEF EInv
<1>11. UNCHANGED <<linked, answers, overlapped, file>>
  BY DEF Update, handoff, history
<1>12. Grown
  BY <1>2, <1>3, <1>9, <1>10, <1>11 DEF Grown, BlankLine
<1>13. \A y \in Parts : TableOK(y)'
  BY <1>9, <1>10, <1>7 DEF EInv, TableOK, Given
<1>14. NamesAreOwn'
  <2>1. SUFFICES ASSUME NEW y \in Parts, products'[y].en # None
                 PROVE  \/ \E r \in RowsOf(y) : products'[y].en = r.en
                        \/ /\ products'[y].translated
                           /\ \E r \in RowsOf(y) :
                                r.cn \in Chinese /\ products'[y].en \in Translations(r.cn)
    BY DEF NamesAreOwn
  <2>2. CASE y = x /\ p.program.mode = "fill"
    <3>1. PICK r \in RowsOf(x) : r.cn = p.now.cn
      BY <1>3, <1>5 DEF Candidate, Given
    <3>2. r.cn \in Chinese
      BY <1>3, <3>1 DEF Candidate
    <3>. QED BY <1>4, <1>9, <1>10, <2>2, <3>1, <3>2
  <2>3. CASE ~(y = x /\ p.program.mode = "fill")
    <3>1. products'[y].en = products[y].en /\ products'[y].translated = products[y].translated
      BY <1>2, <1>9, <1>10, <2>3
    <3>. QED BY <2>1, <3>1 DEF EInv, NamesAreOwn
  <2>. QED BY <2>2, <2>3
<1>15. PICK q : q = [p EXCEPT !.succeeded = @ + 1, !.step = "next", !.now = None, !.reply = None]
  OBVIOUS
<1>16. Becomes(s, q)
  BY <1>1, <1>15 DEF Update
<1>17. /\ DOMAIN q = DOMAIN Idle /\ q.step = "next" /\ q.todo = p.todo
       /\ q.program = p.program /\ q.index = p.index /\ q.memo = p.memo
       /\ q.attempted = p.attempted /\ q.succeeded = p.succeeded + 1 /\ q.failed = p.failed
       /\ q.goal = p.goal /\ q.answered = p.answered
  BY <1>2, <1>15 DEF Idle
<1>18. Sound(s, q)'
  <2>1. Sound(s, p)' /\ answers' = answers
    BY <1>2, <1>11, <1>12, KeptSound
  <2>2. Form(s, q)'
    BY <1>2, <1>17 DEF Sound, Form
  <2>3. Chain(q)'
    BY <1>2, <1>17 DEF Sound, Chain, InHandOf, Candidate, Given
  <2>4. Done(p, p.now)' /\ (p.program = HandoffFill => Excused(p, p.now)')
    BY <1>2, <1>3, <1>5, <1>9, <1>10 DEF Done, Excused, HandoffFill
  <2>5. Worked(q)'
    BY <1>2, <1>17, <2>1, <2>4 DEF Sound, Worked, InHandOf, Done
  <2>6. Ingested(q)'
    BY <1>2, <1>17 DEF Ingested
  <2>7. Used(q)'
    BY <1>2, <1>17, <2>1, <2>4 DEF Sound, Used, InHandOf, Excused, HandoffFill
  <2>. QED BY <2>2, <2>3, <2>5, <2>6, <2>7 DEF Sound
<1>19. DOMAIN process' = Slots /\ \A t \in Slots : \A r \in {process'[t]} : Sound(t, r)'
  BY <1>12, <1>16, <1>18, MovedSound
<1>20. process'[s] = q /\ \A t \in Slots \ {s} : process'[t] = process[t]
  BY <1>16 DEF EInv, Becomes
<1>21. Translating' = Translating
  BY <1>1, <1>17, <1>20 DEF Translating, Tool
<1>. QED BY <1>10, <1>11, <1>13, <1>14, <1>19, <1>21 DEF EInv

-----------------------------------------------------------------------------
(* The steps of an ingest, starts and the operator.                         *)

LEMMA LinkRowInv == ASSUME EInv, NEW s \in Slots, LinkRow(s) PROVE EInv'
<1>1. PICK p : p = process[s]
  OBVIOUS
<1>2. Sound(s, p) /\ p.step = "link" /\ DOMAIN p = DOMAIN Idle /\ p.program.tool = "ingest"
  BY <1>1, SelfNow DEF LinkRow, At, Sound, Form
<1>3. p.failed \in Nat
  BY <1>2 DEF Sound, Form
<1>4. PICK q :
        /\ Becomes(s, q) /\ linked \subseteq linked'
        /\ q.failed \in {p.failed, p.failed + 1}
        /\ q.failed = p.failed => linked' = linked \cup {Rows(s)[p.attempted].part}
        /\ q = [p EXCEPT !.step = "row"] \/ q = [p EXCEPT !.failed = @ + 1, !.step = "row"]
  <2>1. CASE linked' = linked \cup {Rows(s)[process[s].attempted].part} /\ Goto(s, "row")
    <3>1. PICK r : r = [p EXCEPT !.step = "row"]
      OBVIOUS
    <3>2. r.failed = p.failed
      BY <1>2, <3>1 DEF Idle
    <3>3. Becomes(s, r)
      BY <1>1, <2>1, <3>1 DEF Goto
    <3>. QED BY <1>1, <2>1, <3>1, <3>2, <3>3
  <2>2. CASE Becomes(s, [p EXCEPT !.failed = @ + 1, !.step = "row"]) /\ linked' = linked
    <3>1. PICK r : r = [p EXCEPT !.failed = @ + 1, !.step = "row"]
      OBVIOUS
    <3>2. r.failed = p.failed + 1 /\ r.failed # p.failed
      BY <1>2, <1>3, <3>1 DEF Idle
    <3>. QED BY <2>2, <3>1, <3>2
  <2>. QED BY <1>1, <2>1, <2>2 DEF LinkRow
<1>5. /\ DOMAIN q = DOMAIN Idle /\ q.step = "row" /\ q.program = p.program
      /\ q.attempted = p.attempted /\ q.succeeded = p.succeeded
      /\ q.picture = p.picture
  BY <1>2, <1>4 DEF Idle
<1>6. Sound(s, q)'
  <2>1. Form(s, q)'
    BY <1>2, <1>3, <1>4, <1>5 DEF Sound, Form
  <2>2. Chain(q)' /\ Worked(q)' /\ Used(q)'
    BY <1>2, <1>5 DEF Chain, Worked, Used, HandoffFill
  <2>3. Ingested(q)'
    <3>1. Ingested(p) /\ Rows(s) = p.program.rows
      BY <1>1, <1>2 DEF Sound, Rows
    <3>2. products' = products
      BY DEF LinkRow
    <3>3. q.failed = 0 => p.failed = 0
      BY <1>3, <1>4
    <3>. QED BY <1>2, <1>4, <1>5, <3>1, <3>2, <3>3 DEF Ingested
  <2>. QED BY <2>1, <2>2, <2>3 DEF Sound
<1>7. UNCHANGED <<products, file, answers, overlapped>>
  BY DEF LinkRow, handoff, history
<1>8. file' \in Seq(Lines) /\ \A k : BlankLine(k) => BlankLine(k)'
  BY <1>7 DEF EInv, BlankLine
<1>9. ~(q.program.tool \in {"enrich", "mart"})
  BY <1>2, <1>5
<1>. QED BY <1>4, <1>6, <1>7, <1>8, <1>9, Moved

(* A row that failed, or that has no part number, is counted. *)
LEMMA RowFailedInv ==
  ASSUME EInv, NEW s \in Slots, At(s, "row"), process[s].attempted < Len(Rows(s)),
         Becomes(s, Counted(process[s], "failed")),
         UNCHANGED <<products, linked, file, answers, overlapped>>
  PROVE  EInv'
<1>1. PICK p : p = process[s]
  OBVIOUS
<1>2. Sound(s, p) /\ p.step = "row" /\ DOMAIN p = DOMAIN Idle /\ p.program.tool = "ingest"
  BY <1>1, SelfNow DEF At, Sound, Form
<1>3. PICK q : q = Counted(p, "failed")
  OBVIOUS
<1>4. /\ DOMAIN q = DOMAIN Idle /\ q.step = "row" /\ q.program = p.program
      /\ q.attempted = p.attempted + 1 /\ q.succeeded = p.succeeded /\ q.failed = p.failed + 1
  BY <1>2, <1>3 DEF Idle, Counted
<1>5. p.attempted \in Nat /\ p.failed \in Nat /\ Len(p.program.rows) \in Nat
  BY <1>2, BookRows, ProgramAssumption DEF Sound, Form, NoProgram
<1>6. Form(s, q) /\ Chain(q) /\ Worked(q) /\ Used(q)
  BY <1>2, <1>4 DEF Sound, Form, Chain, Worked, Used, HandoffFill
<1>7. Ingested(q)
  <2>1. p.attempted < Len(p.program.rows)
    BY <1>1 DEF Rows
  <2>. QED BY <1>4, <1>5, <2>1 DEF Ingested
<1>8. file' \in Seq(Lines) /\ \A k : BlankLine(k) => BlankLine(k)'
  BY DEF EInv, BlankLine
<1>. QED BY <1>1, <1>3, <1>4, <1>6, <1>7, <1>8, Quiet DEF Sound

LEMMA StartInv ==
  ASSUME EInv, NEW s \in Slots, NEW program \in Programs[s], Start(s, program)  PROVE EInv'
<1>1. UNCHANGED <<products, linked, file, answers>>
  BY DEF Start, tables, handoff
<1>2. file' \in Seq(Lines) /\ \A k : BlankLine(k) => BlankLine(k)'
  BY <1>1 DEF EInv, BlankLine
<1>3. overlapped' = (overlapped \/ (program.tool # "ingest" /\ Translating # {}))
  BY DEF Start
<1>4. CASE program.tool = "ingest"
  <2>1. PICK stored \in BOOLEAN :
          Becomes(s, [Idle EXCEPT !.program = program, !.step = "row", !.picture = stored])
    BY <1>4 DEF Start
  <2>2. PICK q : q = [Idle EXCEPT !.program = program, !.step = "row", !.picture = stored]
    OBVIOUS
  <2>3. /\ DOMAIN q = DOMAIN Idle /\ q.step = "row" /\ q.program = program
        /\ q.attempted = 0 /\ q.succeeded = 0 /\ q.failed = 0
    BY <2>2 DEF Idle
  <2>4. program.rows \in Workbooks /\ Len(program.rows) \in Nat
    BY <1>4, BookRows, ProgramAssumption
  <2>5. Sound(s, q)
    BY <1>4, <2>3, <2>4
    DEF Sound, Form, Chain, Worked, Ingested, Used, HandoffFill
  <2>6. Sound(s, q)'
    BY <1>1, <2>5, KeptSound, <1>2 DEF Grown
  <2>. QED BY <1>1, <1>2, <1>3, <1>4, <2>1, <2>2, <2>3, <2>5, <2>6, Moved
<1>5. CASE program.tool \in {"enrich", "mart"}
  <2>1. PICK index : index = Index(IF program.tool = "mart" THEN "b" ELSE "a")
    OBVIOUS
  <2>2. PICK q : q = [Idle EXCEPT !.program = program, !.step = "load", !.index = index]
    OBVIOUS
  <2>3. Becomes(s, q)
    BY <1>5, <2>1, <2>2 DEF Start
  <2>4. /\ DOMAIN q = DOMAIN Idle /\ q.step = "load" /\ q.program = program /\ q.index = index
        /\ q.memo = None /\ q.todo = {} /\ q.goal = {} /\ q.answered = {}
        /\ q.attempted = 0 /\ q.succeeded = 0 /\ q.failed = 0
    BY <2>2 DEF Idle
  <2>5. /\ DOMAIN index = Keys
        /\ \A k \in Keys : index[k] # None => \E i \in DOMAIN file : index[k] = file[i] /\ file[i].key = k
    BY <2>1, IndexType DEF EInv
  <2>6. \A i \in DOMAIN file : file[i] \in Lines
    BY DEF EInv
  <2>7. \A k \in Keys : index[k] # None => /\ index[k] \in Lines /\ index[k].key = k
                                           /\ index[k].result = Blank => BlankLine(k)
    BY <2>5, <2>6 DEF BlankLine
  <2>8. Form(s, q) /\ Worked(q) /\ Ingested(q) /\ Used(q)
    BY <1>5, <2>4, <2>7
    DEF Form, Worked, Ingested, Used, InHandOf, HandoffFill
  <2>9. Chain(q)
    BY <1>5, <2>4, <2>5, <2>7 DEF Chain, InHandOf
  <2>10. Sound(s, q)'
    BY <1>1, <1>2, <2>8, <2>9, KeptSound DEF Grown, Sound
  <2>. QED BY <1>1, <1>2, <1>3, <1>5, <2>3, <2>4, <2>8, <2>10, Moved
<1>. QED BY <1>4, <1>5 DEF Start

(* A row is upserted. *)
RowUpserted(s, row) ==
  /\ At(s, "row") /\ process[s].attempted < Len(Rows(s))
  /\ row = Rows(s)[process[s].attempted + 1] /\ row.part # None
  /\ products' = [products EXCEPT ![row.part] = Upserted(@, row)]
  /\ Becomes(s, [Counted(process[s], "succeeded") EXCEPT
                   !.step = IF process[s].picture THEN "link" ELSE "row"])
  /\ UNCHANGED <<linked, file, answers, overlapped>>

LEMMA RowUpsertedInv ==
  ASSUME EInv, NEW s \in Slots, NEW row, RowUpserted(s, row)  PROVE EInv'
<1>1. PICK p : p = process[s]
  OBVIOUS
<1>2. Sound(s, p) /\ p.step = "row" /\ DOMAIN p = DOMAIN Idle /\ p.program.tool = "ingest"
      /\ p.attempted \in Nat /\ p.failed \in Nat
  BY <1>1, SelfNow DEF RowUpserted, At, Sound, Form
<1>3. p.program.rows \in Workbooks /\ Rows(s) = p.program.rows
  <2>1. p.program \in Programs[s]
    BY <1>2 DEF Sound, Form, NoProgram
  <2>2. p.program.rows \in Workbooks
    BY <1>2, <2>1, ProgramAssumption
  <2>. QED BY <1>1, <2>2 DEF Rows
<1>4. Len(p.program.rows) \in Nat /\ p.attempted + 1 \in 1 .. Len(p.program.rows)
  <2>1. PICK n : n = Len(p.program.rows)
    OBVIOUS
  <2>2. p.attempted < n /\ n \in Nat
    BY <1>1, <1>3, <2>1, BookRows DEF RowUpserted
  <2>. QED BY <1>2, <2>1, <2>2
<1>5. /\ row.part \in Parts /\ row.part # None
      /\ row.cn \in Chinese \cup {None, Blank} /\ row \in RowsOf(row.part)
  <2>1. /\ p.attempted + 1 \in DOMAIN p.program.rows /\ row = p.program.rows[p.attempted + 1]
        /\ row.part # None
    BY <1>1, <1>3, <1>4, BookRows DEF RowUpserted
  <2>. QED BY <1>3, <2>1, BookRows
<1>6. PICK x : x = row.part
  OBVIOUS
<1>7. PICK new : new = Upserted(products[x], row)
  OBVIOUS
<1>8. /\ DOMAIN new = DOMAIN Absent /\ new.there = TRUE
      /\ new.cn = OrElse(row.cn, products[x].cn) /\ new.en = OrElse(row.en, products[x].en)
      /\ new.translated = products[x].translated /\ new.verified = products[x].verified
  BY <1>5, <1>6, <1>7 DEF EInv, TableOK, Absent, Upserted
<1>9. /\ DOMAIN products' = Parts /\ products'[x] = new
      /\ \A y \in Parts \ {x} : products'[y] = products[y]
  BY <1>5, <1>6, <1>7 DEF EInv, RowUpserted
<1>10. Grown
  <2>1. /\ products[x].there => products'[x].there
        /\ products[x].translated => products'[x].translated
        /\ products[x].verified => products'[x].verified
    BY <1>8, <1>9 DEF OrElse
  <2>2. UNCHANGED <<linked, file, answers>>
    BY DEF RowUpserted
  <2>. QED BY <1>9, <2>1, <2>2 DEF Grown, BlankLine
<1>11. \A y \in Parts : TableOK(y)'
  <2>1. TableOK(x)'
    <3>1. TableOK(x) /\ x \in Parts
      BY <1>5, <1>6 DEF EInv
    <3>2. products'[x].cn \notin {None, Blank} => products'[x].cn \in Chinese /\ Given(x, products'[x].cn)
      <4>1. CASE row.cn = None
        BY <1>8, <1>9, <3>1, <4>1 DEF TableOK, OrElse
      <4>2. CASE row.cn # None
        BY <1>5, <1>6, <1>8, <1>9, <4>2 DEF Given, OrElse
      <4>. QED BY <4>1, <4>2
    <3>. QED BY <1>8, <1>9, <3>2 DEF TableOK, Given
  <2>2. ASSUME NEW y \in Parts \ {x}  PROVE TableOK(y)'
    BY <1>9, <2>2 DEF EInv, TableOK, Given
  <2>. QED BY <2>1, <2>2
<1>12. NamesAreOwn'
  <2>1. SUFFICES ASSUME NEW y \in Parts, products'[y].en # None
                 PROVE  \/ \E r \in RowsOf(y) : products'[y].en = r.en
                        \/ /\ products'[y].translated
                           /\ \E r \in RowsOf(y) :
                                r.cn \in Chinese /\ products'[y].en \in Translations(r.cn)
    BY DEF NamesAreOwn
  <2>2. CASE y = x /\ row.en # None
    BY <1>5, <1>6, <1>8, <1>9, <2>2 DEF OrElse
  <2>3. CASE ~(y = x /\ row.en # None)
    <3>1. products'[y].en = products[y].en /\ products'[y].translated = products[y].translated
      BY <1>8, <1>9, <2>3 DEF OrElse
    <3>. QED BY <2>1, <3>1 DEF EInv, NamesAreOwn
  <2>. QED BY <2>2, <2>3
<1>13. PICK q : q = [Counted(p, "succeeded") EXCEPT
                       !.step = IF p.picture THEN "link" ELSE "row"]
  OBVIOUS
<1>14. /\ DOMAIN q = DOMAIN Idle /\ q.step = (IF p.picture THEN "link" ELSE "row")
       /\ q.program = p.program /\ q.attempted = p.attempted + 1
       /\ q.succeeded = p.succeeded + 1 /\ q.failed = p.failed /\ q.picture = p.picture
  BY <1>2, <1>13 DEF Idle, Counted
<1>15. Sound(s, q)'
  <2>1. Sound(s, p)' /\ linked' = linked
    BY <1>2, <1>10, KeptSound DEF RowUpserted
  <2>2. Form(s, q)'
    BY <1>2, <1>14, <2>1 DEF Sound, Form
  <2>3. Chain(q)' /\ Worked(q)' /\ Used(q)'
    BY <1>2, <1>14 DEF Chain, Worked, Used, HandoffFill
  <2>4. Ingested(q)'
    <3>1. q.attempted \in 1 .. Len(q.program.rows) /\ q.program.rows[q.attempted] = row
      BY <1>1, <1>3, <1>4, <1>14 DEF RowUpserted
    <3>2. products'[row.part].there
      BY <1>6, <1>8, <1>9
    <3>3. q.failed = 0 => \A i \in 1 .. p.attempted :
            LET part == q.program.rows[i].part IN
            part # None /\ products'[part].there /\ (p.picture => part \in linked')
      BY <1>2, <1>14, <2>1 DEF Sound, Ingested
    <3>4. \A i \in 1 .. q.attempted : i \in 1 .. p.attempted \/ i = q.attempted
      BY <1>2, <1>14
    <3>5. q.step = "link" => q.picture /\ q.attempted # 0
      BY <1>2, <1>14
    <3>6. q.failed = 0 => \A i \in 1 .. q.attempted :
            LET part == q.program.rows[i].part IN
            /\ part # None /\ products'[part].there
            /\ q.picture => part \in linked' \/ (q.step = "link" /\ i = q.attempted)
      <4>1. SUFFICES ASSUME q.failed = 0, NEW i \in 1 .. q.attempted, NEW part,
                            part = q.program.rows[i].part
                     PROVE  /\ part # None /\ products'[part].there
                            /\ q.picture => part \in linked' \/ (q.step = "link" /\ i = q.attempted)
        OBVIOUS
      <4>2. CASE i \in 1 .. p.attempted
        BY <1>14, <3>3, <4>1, <4>2
      <4>3. CASE i = q.attempted
        BY <1>5, <1>14, <3>1, <3>2, <4>1, <4>3
      <4>. QED BY <3>4, <4>2, <4>3
    <3>7. q.attempted <= Len(q.program.rows)
      BY <1>4, <3>1
    <3>8. q.step = "link" => LET part == q.program.rows[q.attempted].part IN
                             part # None /\ products'[part].there
      BY <1>5, <3>1, <3>2
    <3>. QED BY <3>5, <3>6, <3>7, <3>8 DEF Ingested
  <2>. QED BY <2>2, <2>3, <2>4 DEF Sound
<1>16. Becomes(s, q)
  BY <1>1, <1>13 DEF RowUpserted
<1>17. DOMAIN process' = Slots /\ \A t \in Slots : \A r \in {process'[t]} : Sound(t, r)'
  BY <1>10, <1>15, <1>16, MovedSound
<1>18. process'[s] = q /\ \A t \in Slots \ {s} : process'[t] = process[t]
  BY <1>16 DEF EInv, Becomes
<1>19. Translating' = Translating
  BY <1>1, <1>14, <1>18 DEF Translating, Tool
<1>20. UNCHANGED <<file, overlapped>>
  BY DEF RowUpserted
<1>. QED BY <1>9, <1>11, <1>12, <1>17, <1>19, <1>20 DEF EInv

LEMMA IngestRowInv == ASSUME EInv, NEW s \in Slots, IngestRow(s) PROVE EInv'
<1>1. /\ At(s, "row") /\ process[s].attempted < Len(Rows(s))
      /\ UNCHANGED <<linked, file, answers, overlapped>>
  BY DEF IngestRow, handoff, history
<1>2. CASE Becomes(s, Counted(process[s], "failed")) /\ UNCHANGED products
  BY <1>1, <1>2, RowFailedInv
<1>3. CASE ~(Becomes(s, Counted(process[s], "failed")) /\ UNCHANGED products)
  <2>1. PICK row : row = Rows(s)[process[s].attempted + 1]
    OBVIOUS
  <2>2. /\ row.part # None
        /\ products' = [products EXCEPT ![row.part] = Upserted(@, row)]
        /\ Becomes(s, [Counted(process[s], "succeeded") EXCEPT
                         !.step = IF process[s].picture THEN "link" ELSE "row"])
    BY <1>3, <2>1 DEF IngestRow
  <2>. QED BY <1>1, <2>1, <2>2, RowUpsertedInv DEF RowUpserted
<1>. QED BY <1>2, <1>3

LEMMA StillInv ==
  ASSUME EInv, UNCHANGED <<products, linked, file, process, overlapped>>, answers \subseteq answers'
  PROVE  EInv'
<1>1. Grown
  BY DEF Grown, BlankLine
<1>2. \A s \in Slots : \A p \in {process'[s]} : Sound(s, p)'
  BY <1>1, KeptSound DEF EInv
<1>4. (\A p \in Parts : TableOK(p)') /\ NamesAreOwn' /\ Translating' = Translating
  BY DEF EInv, TableOK, NamesAreOwn, Given, Translating, Tool
<1>. QED BY <1>2, <1>4 DEF EInv

LEMMA EInit == Init => EInv
<1>. SUFFICES ASSUME Init PROVE EInv
  OBVIOUS
<1>1. DOMAIN products = Parts /\ \A p \in Parts : products[p] = Absent
  BY DEF Init
<1>2. DOMAIN process = Slots /\ \A s \in Slots : process[s] = Idle
  BY DEF Init
<1>3. (\A p \in Parts : TableOK(p)) /\ NamesAreOwn
  BY <1>1 DEF TableOK, NamesAreOwn, Absent
<1>4. file \in Seq(Lines)
  BY DEF Init
<1>5. Translating = {}
  BY <1>2 DEF Translating, Tool, Idle, NoProgram
<1>. QED BY <1>1, <1>2, <1>3, <1>4, <1>5, IdleSound DEF EInv

LEMMA ENext == EInv /\ [Next]_vars => EInv'
<1>. SUFFICES ASSUME EInv, [Next]_vars PROVE EInv'
  OBVIOUS
<1>1. CASE UNCHANGED vars
  BY <1>1, StillInv DEF vars, tables, handoff, history
<1>2. ASSUME NEW cn \in Chinese, OperatorAnswers(cn) PROVE EInv'
  BY <1>2, StillInv DEF OperatorAnswers, tables, history
<1>3. ASSUME NEW s \in Slots, Proceed(s) PROVE EInv'
  BY <1>3, LoadInv, AskInv, RepliesInv, RecordAuditInv, UpdateInv, IngestRowInv, LinkRowInv,
     EndInv DEF Proceed
<1>4. ASSUME NEW s \in Slots, Die(s) PROVE EInv'
  BY <1>4, EndInv
<1>5. ASSUME NEW s \in Slots, NEW program \in Programs[s], Start(s, program) PROVE EInv'
  BY <1>5, StartInv
<1>. QED BY <1>1, <1>2, <1>3, <1>4, <1>5 DEF Next

LEMMA EAlways == Spec => []EInv
<1>. QED BY EInit, ENext, PTL DEF Spec

(* The rest of the type invariant, which no other proof needs. *)
Typed ==
  /\ \A p \in Parts : {products[p].translated, products[p].verified} \subseteq BOOLEAN
  /\ linked \subseteq {p \in Parts : products[p].there}
  /\ answers \subseteq tasks /\ tasks \subseteq Chinese
  /\ faults \in 0 .. MaxFaults

LEMMA TypedNext == EInv /\ Typed /\ [Next]_vars => Typed'
<1>. SUFFICES ASSUME EInv, Typed, [Next]_vars PROVE Typed'
  OBVIOUS
<1>. USE EnrichmentAssumption
<1>1. faults' \in 0 .. MaxFaults
  <2>1. ASSUME NEW s, NEW result, NEW memo, Answered(s, result, memo)
        PROVE  faults' = faults \/ Fault
    BY <2>1 DEF Answered
  <2>2. ASSUME NEW s, ModelReplies(s) \/ HandoffReplies(s)  PROVE faults' = faults \/ Fault
    BY <2>1, <2>2 DEF ModelReplies, HandoffReplies, NotAnswered
  <2>3. faults' = faults \/ Fault
    BY ZenonT(30), <2>2 DEF Next, Proceed, Load, Ask, RecordAudit, Update, IngestRow, LinkRow, Finalise, Die,
       Start, OperatorAnswers, vars
  <2>. QED BY <2>3 DEF Fault, Typed
<1>2. answers' \subseteq tasks' /\ tasks' \subseteq Chinese
  <2>1. ASSUME NEW s \in Slots, HandoffReplies(s) PROVE tasks' \subseteq tasks \cup Chinese /\ tasks \subseteq tasks'
    <3>1. PICK p : p = process[s]
      OBVIOUS
    <3>2. p.now.cn \in Chinese
      BY <2>1, <3>1, AskedNow DEF HandoffReplies, At
    <3>. QED BY <2>1, <3>1, <3>2 DEF HandoffReplies
  <2>. QED BY ZenonT(30), <2>1 DEF Next, Proceed, Load, Ask, ModelReplies, HandoffReplies, RecordAudit, Update,
           IngestRow, LinkRow, Finalise, Die, Start, OperatorAnswers, Typed, vars, handoff
<1>3. CASE UNCHANGED <<products, linked>>
  BY <1>1, <1>2, <1>3 DEF Typed
<1>4. ASSUME NEW s \in Slots, Update(s) PROVE Typed'
  <2>1. PICK p : p = process[s]
    OBVIOUS
  <2>2. Sound(s, p) /\ p.step = "update" /\ p.program.tool = "enrich"
    BY <1>4, <2>1, SelfNow DEF Update, At, Sound, Form
  <2>3. PICK x : x = p.now.part
    OBVIOUS
  <2>4. x \in Parts /\ DOMAIN products[x] = DOMAIN Absent
    BY <2>2, <2>3 DEF Sound, Chain, Candidate, InHandOf, EInv, TableOK
  <2>5. PICK new : /\ products' = [products EXCEPT ![x] = new]
                   /\ \/ new = [products[x] EXCEPT !.verified = TRUE]
                      \/ new = [products[x] EXCEPT !.en = p.reply.result, !.translated = TRUE]
    BY <1>4, <2>1, <2>3 DEF Update
  <2>6. /\ new.there = products[x].there
        /\ new.translated \in {TRUE, products[x].translated}
        /\ new.verified \in {TRUE, products[x].verified}
    BY <2>4, <2>5 DEF Absent
  <2>7. linked' = linked /\ products'[x] = new /\ \A y \in Parts \ {x} : products'[y] = products[y]
    BY <1>4, <2>4, <2>5 DEF Update, EInv
  <2>. QED BY <1>1, <1>2, <2>4, <2>6, <2>7 DEF Typed
<1>5. ASSUME NEW s \in Slots, IngestRow(s) PROVE Typed'
  <2>1. PICK row : row = Rows(s)[process[s].attempted + 1]
    OBVIOUS
  <2>2. CASE /\ row.part # None
             /\ products' = [products EXCEPT ![row.part] = Upserted(@, row)]
    <3>1. PICK p, x, new : p = process[s] /\ x = row.part /\ new = Upserted(products[x], row)
      OBVIOUS
    <3>2. Sound(s, p) /\ p.step = "row" /\ p.program.tool = "ingest"
      BY <1>5, <3>1, SelfNow DEF IngestRow, At, Sound, Form
    <3>3. p.program.rows \in Workbooks /\ p.attempted \in Nat
      BY <3>2, ProgramAssumption DEF Sound, Form, NoProgram
    <3>4. x \in Parts /\ DOMAIN products[x] = DOMAIN Absent
      <4>1. row = p.program.rows[p.attempted + 1] /\ p.attempted < Len(p.program.rows)
        BY <1>5, <2>1, <3>1 DEF IngestRow, Rows
      <4>2. p.attempted + 1 \in 1 .. Len(p.program.rows)
        BY <3>3, <4>1, BookRows
      <4>3. row.part \in Parts \cup {None}
        BY <3>3, <4>1, <4>2, BookRows
      <4>. QED BY <2>2, <3>1, <4>3 DEF EInv, TableOK
    <3>5. /\ new.there = TRUE /\ new.translated = products[x].translated
          /\ new.verified = products[x].verified
      BY <3>1, <3>4 DEF Upserted, Absent
    <3>6. linked' = linked /\ products'[x] = new /\ \A y \in Parts \ {x} : products'[y] = products[y]
      BY <1>5, <2>2, <3>1, <3>4 DEF IngestRow, EInv
    <3>. QED BY <1>1, <1>2, <3>4, <3>5, <3>6 DEF Typed
  <2>3. CASE UNCHANGED products
    BY <1>3, <1>5, <2>3 DEF IngestRow
  <2>. QED BY <1>5, <2>1, <2>2, <2>3 DEF IngestRow
<1>6. ASSUME NEW s \in Slots, LinkRow(s) PROVE Typed'
  <2>1. PICK p : p = process[s]
    OBVIOUS
  <2>2. Sound(s, p) /\ p.step = "link" /\ p.program.tool = "ingest"
    BY <1>6, <2>1, SelfNow DEF LinkRow, At, Sound, Form
  <2>3. PICK part : part = p.program.rows[p.attempted].part
    OBVIOUS
  <2>4. part # None /\ products[part].there
    BY <2>2, <2>3 DEF Sound, Ingested
  <2>5. part \in Parts
    <3>1. p.program.rows \in Workbooks /\ p.attempted \in 1 .. Len(p.program.rows)
      BY SMTT(30), <2>2, BookRows, ProgramAssumption DEF Sound, Form, NoProgram, Ingested
    <3>. QED BY <2>3, <2>4, <3>1, BookRows
  <2>6. linked' \subseteq linked \cup {part} /\ products' = products
    BY <1>6, <2>1, <2>3 DEF LinkRow, Rows
  <2>. QED BY <1>1, <1>2, <2>4, <2>5, <2>6 DEF Typed
<1>. QED BY <1>3, <1>4, <1>5, <1>6 DEF Next, Proceed, Load, Ask, ModelReplies, HandoffReplies,
         RecordAudit, Finalise, Die, Start, OperatorAnswers, vars, tables

-----------------------------------------------------------------------------
(* The theorems.                                                            *)

(* The tables, the two handoff files, the cache file and the processes of  *)
(* ingest.ts, enrich.ts and enrich.py keep their types: what is linked is  *)
(* catalogued, and no line of the cache file holds a null.                 *)
THEOREM TypesKept == Spec => []TypeOK
<1>1. Init => Typed
  <2>. SUFFICES ASSUME Init PROVE Typed
    OBVIOUS
  <2>1. \A p \in Parts : products[p].translated = FALSE /\ products[p].verified = FALSE
    BY DEF Init, Absent
  <2>2. faults = 0 /\ 0 \in 0 .. MaxFaults
    BY EnrichmentAssumption DEF Init
  <2>. QED BY <2>1, <2>2 DEF Init, Typed
<1>2. EInv /\ Typed => TypeOK
  <2>. SUFFICES ASSUME EInv, Typed PROVE TypeOK
    OBVIOUS
  <2>1. \A i \in DOMAIN file : file[i] \in Lines
    BY DEF EInv
  <2>2. \A s \in Slots : process[s].program \in Programs[s] \cup {NoProgram}
    BY DEF EInv, Sound, Form
  <2>. QED BY <2>1, <2>2 DEF EInv, TableOK, Typed, Lines, TypeOK
<1>. QED BY EInit, ENext, TypedNext, <1>1, <1>2, PTL DEF Spec

(* Whoever asked for it, and through whichever line of the cache or file   *)
(* of the operator, a product's English name is one a workbook gave it, or *)
(* a translation of a Chinese name a workbook gave it, marked as such      *)
(* (enrich.ts:202-211, cached.provider.ts:119-121).                        *)
THEOREM NamesOwned == Spec => []NamesAreOwn
<1>1. EInv => NamesAreOwn
  BY DEF EInv
<1>. QED BY <1>1, EAlways, PTL

(* An ingest whose status is SUCCESS has catalogued every row of its        *)
(* workbook, and linked it if the picture was stored, whatever ran beside   *)
(* it and whatever failed (ingest.ts:199).                                  *)
THEOREM IngestSuccessComplete == Spec => []IngestSuccessIsComplete
<1>1. EInv => IngestSuccessIsComplete
  <2>. SUFFICES ASSUME EInv, NEW s \in Slots, NEW p, p = process[s], Tool(s) = "ingest", AtEnd(s),
                       StatusOf(p) = "SUCCESS", NEW r \in ToSet(p.program.rows)
                PROVE  r.part # None /\ products[r.part].there /\ (p.picture => r.part \in linked)
    BY DEF IngestSuccessIsComplete
  <2>1. Sound(s, p) /\ p.attempted \in Nat
    BY SelfNow DEF Sound, Form
  <2>2. p.program.tool = "ingest" /\ p.step = "row" /\ p.attempted = Len(p.program.rows)
    BY <2>1 DEF Tool, AtEnd, At, Rows, Sound, Form
  <2>3. p.failed = 0
    BY <2>2 DEF StatusOf
  <2>4. p.program.rows \in Workbooks
    BY <2>1, <2>2, ProgramAssumption DEF Sound, Form, NoProgram
  <2>5. PICK i \in 1 .. p.attempted : r = p.program.rows[i]
    BY <2>2, <2>4, BookRows DEF ToSet
  <2>. QED BY <2>1, <2>2, <2>3, <2>5 DEF Sound, Ingested
<1>. QED BY <1>1, EAlways, PTL

(* An enrichment that skipped no row and whose status is SUCCESS has named  *)
(* or verified every candidate it loaded: no null, empty answer or failed   *)
(* statement went uncounted (enrich.ts:221).                                *)
THEOREM EnrichSuccessComplete == Spec => []EnrichSuccessIsComplete
<1>1. EInv => EnrichSuccessIsComplete
  <2>. SUFFICES ASSUME EInv, NEW s \in Slots, NEW p, p = process[s], Tool(s) = "enrich", AtEnd(s),
                       p.skipped = 0, StatusOf(p) = "SUCCESS", NEW c \in p.goal
                PROVE  Done(p, c)
    BY DEF EnrichSuccessIsComplete
  <2>1. Sound(s, p) /\ p.attempted \in Nat /\ p.succeeded \in Nat
    BY SelfNow DEF Sound, Form
  <2>2. p.program.tool = "enrich" /\ p.step = "next" /\ p.todo = {}
    BY <2>1 DEF Tool, AtEnd, At, Sound, Form
  <2>3. p.attempted = p.succeeded
    <3>1. p.attempted = p.succeeded + p.skipped
      BY <2>2 DEF StatusOf
    <3>. QED BY <2>1, <3>1
  <2>. QED BY <2>1, <2>2, <2>3 DEF Sound, Worked, InHandOf
<1>. QED BY <1>1, EAlways, PTL

(* A fill run with the operator's answers names every candidate answered   *)
(* before it loaded them: no null is served in place of an answer, from    *)
(* whichever process's line or file (cached.provider.ts:83-85).  The one   *)
(* excuse is a line with an empty string, which the provider serves.       *)
THEOREM AnswersUsed == Spec => []AnswersAreUsed
<1>1. EInv => AnswersAreUsed
  <2>. SUFFICES ASSUME EInv, NEW s \in Slots, NEW p, p = process[s], AtEnd(s),
                       p.program = HandoffFill, NEW c \in p.goal
                PROVE  Excused(p, c)
    BY DEF AnswersAreUsed, Excused, BlankLine
  <2>1. Sound(s, p) /\ p.program.tool = "enrich"
    BY SelfNow DEF HandoffFill
  <2>2. p.step = "next" /\ p.todo = {}
    BY <2>1 DEF AtEnd, At, Sound, Form
  <2>. QED BY <2>1, <2>2 DEF Sound, Used, InHandOf
<1>. QED BY <1>1, EAlways, PTL

-----------------------------------------------------------------------------
(***************************************************************************)
(* One name for one text.  While enrichments run one after the other and   *)
(* lose no line, a program knows every line of the file and asks for what  *)
(* has none: so Track A has one line of a text, and every name that was    *)
(* not in a workbook is from such a line.                                  *)
(***************************************************************************)
OfTrackA(v)  == \E i \in DOMAIN file : file[i].by = "a" /\ file[i].result = v
InFile(l)    == \E i \in DOMAIN file : file[i] = l
Sourced(p, v) == (\E r \in RowsOf(p) : v = r.en) \/ OfTrackA(v)

Informed(p) ==
  p.program.tool = "enrich" =>
    /\ \A i \in DOMAIN file : p.index[file[i].key] # None
    /\ \A k \in Keys : p.index[k] # None => InFile(p.index[k])
    /\ p.step = "asked" => p.index[Key("a", p.now.cn)] = None
    /\ InHandOf(p) /\ p.reply.result # None => InFile(p.reply)
    /\ p.step = "update" => p.reply.by = "a"

OneLine ==
  /\ \A i \in DOMAIN file : file[i].by = "a" => file[i].key.form = "raw"
  /\ \A i, j \in DOMAIN file :
       file[i].by = "a" /\ file[j].by = "a" /\ file[i].key = file[j].key
         => file[i].result = file[j].result

AllInformed == \A s \in Slots : \A p \in {process[s]} : Informed(p)
AllSourced  == \A p \in Parts : products[p].en # None => Sourced(p, products[p].en)
SInv == ~overlapped /\ ~unsaved => OneLine /\ AllInformed /\ AllSourced

(* The file and what is known of it. *)
LEMMA FileStays ==
  ASSUME file' = file
  PROVE  /\ OneLine' <=> OneLine
         /\ \A p : Informed(p)' <=> Informed(p)
         /\ \A p, v : Sourced(p, v)' <=> Sourced(p, v)
BY DEF OneLine, Informed, InFile, Sourced, OfTrackA

LEMMA LineNotNone == None \notin Lines
<1>1. UNION {Texts(c) : c \in Chinese} = UNION {UNION {Replies[u][c] : u \in DOMAIN Replies} : c \in Chinese}
  BY DEF Texts
<1>. QED BY <1>1, LineAssumption DEF Lines

(* Track A's index has an entry for every line. *)
LEMMA IndexHolds ==
  ASSUME file \in Seq(Lines), \A i \in DOMAIN file : file[i] # None,
         NEW track, track = "a", NEW i \in DOMAIN file, file[i].key \in Keys
  PROVE  Index(track)[file[i].key] # None
<1>. DEFINE k == file[i].key
            own == {j \in DOMAIN file : file[j].key = k /\ (track = "a" \/ file[j].by = "b")}
            last == CHOOSE j \in own : \A n \in own : n <= j
<1>1. Index(track)[k] = IF own = {} THEN None ELSE file[last]
  BY DEF Index
<1>2. i \in own /\ Len(file) \in Nat /\ DOMAIN file = 1 .. Len(file)
  OBVIOUS
<1>3. \E j \in own : \A n \in own : n <= j
  BY <1>2, LastOne
<1>4. last \in own
  BY <1>3
<1>5. last \in DOMAIN file
  BY <1>4
<1>. HIDE DEF own, last
<1>. QED BY <1>1, <1>2, <1>5

(* Only an enrichment of the products is to know anything. *)
LEMMA InformedTrivially ==
  ASSUME NEW q, q.program.tool # "enrich"
  PROVE  Informed(q)
BY DEF Informed

LEMMA InformedStill ==
  ASSUME NEW p, Informed(p), NEW q, q.program = p.program, q.index = p.index,
         q.step \notin {"asked", "record", "update"}
  PROVE  Informed(q)
BY DEF Informed, InHandOf

(* A step of one process that leaves the file alone. *)
LEMMA SameFile ==
  ASSUME EInv, SInv, NEW s \in Slots, NEW q, Becomes(s, q), UNCHANGED <<file, unsaved>>,
         overlapped => overlapped',
         ~overlapped /\ ~unsaved /\ Informed(process[s]) => Informed(q),
         ~overlapped /\ ~unsaved /\ Informed(process[s]) =>
           \A p \in Parts : products'[p].en = products[p].en \/ Sourced(p, products'[p].en)
  PROVE  SInv'
<1>1. SUFFICES ASSUME ~overlapped, ~unsaved PROVE OneLine' /\ AllInformed' /\ AllSourced'
  BY DEF SInv
<1>2. OneLine /\ AllInformed /\ AllSourced
  BY <1>1 DEF SInv
<1>3. process'[s] = q /\ \A t \in Slots \ {s} : process'[t] = process[t]
  BY DEF EInv, Becomes
<1>4. Informed(process[s])
  BY <1>2 DEF AllInformed
<1>5. ASSUME NEW t \in Slots, NEW p \in {process'[t]} PROVE Informed(p)'
  <2>1. Informed(p)
    BY <1>1, <1>2, <1>3, <1>4, <1>5 DEF AllInformed
  <2>. QED BY <2>1, FileStays
<1>6. ASSUME NEW p \in Parts, products'[p].en # None PROVE Sourced(p, products[p].en)'
  <2>1. Sourced(p, products'[p].en)
    BY <1>1, <1>2, <1>4, <1>6 DEF AllSourced
  <2>2. PICK v : v = products'[p].en
    OBVIOUS
  <2>3. Sourced(p, v)'
    BY <2>1, <2>2, FileStays
  <2>. QED BY <2>2, <2>3 DEF Sourced, OfTrackA
<1>7. OneLine'
  BY <1>2, FileStays
<1>. QED BY <1>5, <1>6, <1>7 DEF AllInformed, AllSourced

LEMMA LoadS == ASSUME EInv, SInv, NEW s \in Slots, Load(s) PROVE SInv'
<1>1. PICK p : p = process[s]
  OBVIOUS
<1>2. DOMAIN p = DOMAIN Idle
  BY <1>1, SelfNow DEF Sound, Form
<1>3. UNCHANGED <<products, file, unsaved, overlapped>>
  BY DEF Load, tables, history
<1>4. CASE p.program.tool = "enrich"
  <2>1. PICK asked, skipped : Becomes(s, [p EXCEPT !.step = "next", !.todo = asked, !.goal = asked,
                                                   !.skipped = skipped, !.answered = answers])
    BY <1>1, <1>4 DEF Load, Tool
  <2>2. PICK q : q = [p EXCEPT !.step = "next", !.todo = asked, !.goal = asked,
                               !.skipped = skipped, !.answered = answers]
    OBVIOUS
  <2>3. q.program = p.program /\ q.index = p.index /\ q.step = "next"
    BY <1>2, <2>2 DEF Idle
  <2>. QED BY <1>1, <1>3, <2>1, <2>2, <2>3, InformedStill, SameFile
<1>5. CASE p.program.tool = "mart"
  <2>1. PICK q : q = [p EXCEPT !.step = "next", !.todo = p.program.rows]
    OBVIOUS
  <2>2. Becomes(s, q)
    BY <1>1, <1>5, <2>1 DEF Load, Tool
  <2>3. q.program = p.program
    BY <1>2, <2>1 DEF Idle
  <2>. QED BY <1>3, <1>5, <2>2, <2>3, InformedTrivially, SameFile
<1>. QED BY <1>1, <1>4, <1>5 DEF Load, Tool

LEMMA AskS == ASSUME EInv, SInv, NEW s \in Slots, NEW c \in process[s].todo, Ask(s, c) PROVE SInv'
<1>1. PICK p, hit : p = process[s] /\ hit = p.index[Key(Track(s), c.cn)]
  OBVIOUS
<1>2. /\ DOMAIN p = DOMAIN Idle /\ c.cn \in Chinese /\ p.program.tool \in {"enrich", "mart"}
      /\ p.program.tool = "enrich" => Track(s) = "a"
  BY <1>1, SelfNow, TrackType DEF Ask, At, Sound, Form, Chain, Candidate
<1>3. PICK q : q = IF hit # None THEN Replied(p, c, hit)
                   ELSE [p EXCEPT !.step = "asked", !.now = c]
  OBVIOUS
<1>4. Becomes(s, q) /\ UNCHANGED <<products, file, unsaved, overlapped>>
  BY <1>1, <1>3 DEF Ask, tables, history
<1>5. ASSUME Informed(p) PROVE Informed(q)
  <2>1. CASE hit # None /\ p.program.tool = "enrich"
    <3>1. q = [p EXCEPT !.step = "record", !.todo = @ \ {c}, !.now = c, !.reply = hit]
      BY <1>3, <2>1 DEF Replied
    <3>2. q.program = p.program /\ q.index = p.index /\ q.step = "record" /\ q.reply = hit
      BY <1>2, <3>1 DEF Idle
    <3>3. InFile(hit)
      BY <1>1, <1>2, <1>5, <2>1, KeyType DEF Informed
    <3>. QED BY <1>5, <3>2, <3>3 DEF Informed
  <2>2. CASE hit = None /\ p.program.tool = "enrich"
    <3>1. q = [p EXCEPT !.step = "asked", !.now = c]
      BY <1>3, <2>2
    <3>2. q.program = p.program /\ q.index = p.index /\ q.step = "asked" /\ q.now = c
      BY <1>2, <3>1 DEF Idle
    <3>. QED BY <1>1, <1>2, <1>5, <2>2, <3>2 DEF Informed, InHandOf
  <2>3. CASE p.program.tool = "mart"
    <3>1. q.program = p.program
      BY <1>2, <1>3 DEF Replied, Idle
    <3>. QED BY <2>3, <3>1, InformedTrivially
  <2>. QED BY <1>2, <2>1, <2>2, <2>3
<1>. QED BY <1>1, <1>4, <1>5, SameFile

(* No answer: nothing is kept. *)
LEMMA NotAnsweredS ==
  ASSUME EInv, SInv, NEW s \in Slots, At(s, "asked"), NEW memo, NotAnswered(s, memo),
         UNCHANGED <<products, overlapped>>
  PROVE  SInv'
<1>1. PICK p, line, kept, q :
        /\ p = process[s] /\ line = Line(s, None)
        /\ kept = [p EXCEPT !.memo = memo] /\ q = Replied(kept, p.now, line)
  OBVIOUS
<1>2. DOMAIN p = DOMAIN Idle /\ p.program.tool \in {"enrich", "mart"} /\ line.result = None
  BY <1>1, AskedNow DEF At, Line
<1>3. Becomes(s, q) /\ UNCHANGED <<file, unsaved>>
  BY <1>1 DEF NotAnswered
<1>4. kept.program = p.program /\ kept.index = p.index /\ DOMAIN kept = DOMAIN Idle
  BY <1>1, <1>2 DEF Idle
<1>5. q.program = p.program
  BY <1>1, <1>4 DEF Replied, Idle
<1>6. p.program.tool = "enrich" => q.index = p.index /\ q.step = "record" /\ q.reply = line
  BY <1>1, <1>4 DEF Replied, Idle
<1>7. Informed(p) => Informed(q)
  BY <1>2, <1>5, <1>6 DEF Informed
<1>. QED BY <1>1, <1>3, <1>7, SameFile

(* An answer is kept in memory and, unless a line is lost, in the file.    *)
LEMMA AnsweredS ==
  ASSUME EInv, SInv, NEW s \in Slots, At(s, "asked"), NEW memo,
         NEW u \in DOMAIN Replies, NEW result \in Replies[u][process[s].now.cn],
         result # None, Answered(s, result, memo),
         UNCHANGED <<products, overlapped>>
  PROVE  SInv'
<1>1. PICK p, line, kept, q :
        /\ p = process[s] /\ line = Line(s, result)
        /\ kept = [p EXCEPT !.index[line.key] = line, !.memo = memo]
        /\ q = Replied(kept, p.now, line)
  OBVIOUS
<1>2. /\ DOMAIN p = DOMAIN Idle /\ DOMAIN p.index = Keys /\ p.step = "asked"
      /\ p.program.tool \in {"enrich", "mart"} /\ p.now.cn \in Chinese
      /\ p.program.tool = "enrich" => Track(s) = "a"
      /\ Track(s) = "a" => p.program.tool = "enrich"
  BY <1>1, AskedNow, TrackType DEF At, Sound, Chain, Track, Tool
<1>3. Becomes(s, q)
  BY <1>1 DEF Answered
<1>4. SUFFICES ASSUME ~overlapped, ~unsaved, ~unsaved' PROVE OneLine' /\ AllInformed' /\ AllSourced'
  BY DEF SInv, Answered
<1>5. OneLine /\ AllInformed /\ AllSourced
  BY <1>4 DEF SInv
<1>6. file' = Append(file, line)
  BY <1>1, <1>4 DEF Answered
<1>7. /\ line = [key |-> Key(Track(s), p.now.cn), result |-> result, by |-> Track(s)]
      /\ line \in Lines /\ line.key \in Keys /\ line.by = Track(s)
  BY <1>1, <1>2, LineType, TrackType, KeyType DEF Line
<1>8. PICK n : n = Len(file) + 1
  OBVIOUS
<1>9. /\ DOMAIN file' = DOMAIN file \cup {n} /\ n \notin DOMAIN file /\ file'[n] = line
      /\ \A i \in DOMAIN file : file'[i] = file[i] /\ file[i] \in Lines /\ file[i].key \in Keys
  <2>1. file \in Seq(Lines) /\ \A l \in Lines : l.key \in Keys
    BY DEF EInv, Lines
  <2>. QED BY <1>6, <1>8, <2>1
<1>10. (\A v : OfTrackA(v) => OfTrackA(v)') /\ \A l : InFile(l) => InFile(l)'
  BY <1>9 DEF OfTrackA, InFile
<1>11. \A p1, v : Sourced(p1, v) => Sourced(p1, v)'
  BY <1>10 DEF Sourced
<1>12. AllSourced'
  <2>1. ASSUME NEW x \in Parts, products'[x].en # None PROVE Sourced(x, products[x].en)'
    <3>1. PICK v : v = products[x].en
      OBVIOUS
    <3>2. Sourced(x, v)'
      BY <1>5, <1>11, <2>1, <3>1 DEF AllSourced
    <3>. QED BY <3>1, <3>2 DEF Sourced, OfTrackA
  <2>. QED BY <2>1 DEF AllSourced
<1>13. Informed(p)
  BY <1>1, <1>5 DEF AllInformed
<1>14. kept.program = p.program /\ kept.step = p.step /\ DOMAIN kept = DOMAIN Idle
       /\ kept.index = [p.index EXCEPT ![line.key] = line]
  BY <1>1, <1>2 DEF Idle
<1>15. q.program = p.program
  BY <1>1, <1>14 DEF Replied, Idle
<1>16. ASSUME NEW t \in Slots, t # s PROVE process'[t].program.tool # "enrich"
  <2>1. process'[t] = process[t]
    BY <1>3, <1>16 DEF EInv, Becomes
  <2>2. s \in Translating
    BY <1>1, <1>2 DEF Translating, Tool
  <2>. QED BY <1>4, <1>16, <2>1, <2>2 DEF EInv, Translating, Tool
<1>17. process'[s] = q
  BY <1>3 DEF EInv, Becomes
<1>18. CASE p.program.tool = "mart"
  <2>1. line.by = "b"
    BY <1>2, <1>7, <1>18, TrackType
  <2>2. OneLine'
    BY <1>5, <1>9, <2>1 DEF OneLine
  <2>3. \A t \in Slots : process'[t].program.tool # "enrich"
    BY <1>15, <1>16, <1>17, <1>18
  <2>4. AllInformed'
    BY <2>3 DEF AllInformed, Informed
  <2>. QED BY <1>12, <2>2, <2>4
<1>19. CASE p.program.tool = "enrich"
  <2>1. line.key = Key("a", p.now.cn) /\ line.key.form = "raw" /\ p.index[line.key] = None
    <3>1. p.index[Key("a", p.now.cn)] = None
      BY <1>2, <1>13, <1>19 DEF Informed
    <3>. QED BY <1>2, <1>7, <1>19, <3>1 DEF Key
  <2>2. \A i \in DOMAIN file : file[i].key # line.key
    BY <1>13, <1>19, <2>1 DEF Informed
  <2>3. OneLine'
    BY <1>5, <1>9, <2>1, <2>2 DEF OneLine
  <2>4. q.index = kept.index /\ q.step = "record" /\ q.reply = line
    BY <1>1, <1>14, <1>19 DEF Replied, Idle
  <2>5. \A k \in Keys : q.index[k] = IF k = line.key THEN line ELSE p.index[k]
    BY <1>2, <1>14, <2>4
  <2>6. line # None
    BY <1>7, LineNotNone
  <2>7. \A i \in DOMAIN file' : q.index[file'[i].key] # None
    <3>1. \A i \in DOMAIN file : q.index[file[i].key] # None
      BY <1>9, <1>13, <1>19, <2>5, <2>6 DEF Informed
    <3>. QED BY <1>7, <1>9, <2>5, <2>6, <3>1
  <2>8. InFile(line)'
    BY <1>9 DEF InFile
  <2>9. \A k \in Keys : q.index[k] # None => InFile(q.index[k])'
    <3>1. ASSUME NEW k \in Keys, q.index[k] # None PROVE InFile(q.index[k])'
      <4>1. CASE k = line.key
        BY <2>5, <2>8, <4>1 DEF InFile
      <4>2. CASE k # line.key
        <5>1. PICK l : l = p.index[k]
          OBVIOUS
        <5>2. InFile(l)'
          BY <1>10, <1>13, <1>19, <2>5, <3>1, <4>2, <5>1 DEF Informed
        <5>. QED BY <2>5, <4>2, <5>1, <5>2 DEF InFile
      <4>. QED BY <4>1, <4>2
    <3>. QED BY <3>1
  <2>10. Informed(q)'
    <3>1. InFile(q.reply)'
      BY <2>4, <2>8 DEF InFile
    <3>. QED BY <2>4, <2>7, <2>9, <3>1 DEF Informed
  <2>11. AllInformed'
    <3>1. ASSUME NEW t \in Slots, NEW r \in {process'[t]} PROVE Informed(r)'
      <4>1. CASE t = s
        BY <1>17, <2>10, <3>1, <4>1
      <4>2. CASE t # s
        BY <1>16, <3>1, <4>2 DEF Informed
      <4>. QED BY <4>1, <4>2
    <3>. QED BY <3>1 DEF AllInformed
  <2>. QED BY <1>12, <2>3, <2>11
<1>. QED BY <1>2, <1>18, <1>19

LEMMA RepliesS ==
  ASSUME EInv, SInv, NEW s \in Slots, ModelReplies(s) \/ HandoffReplies(s)  PROVE SInv'
<1>1. PICK p : p = process[s] /\ p.step = "asked"
  BY DEF ModelReplies, HandoffReplies, At
<1>2. p.now.cn \in Chinese /\ p.program.upstream \in DOMAIN Replies
  <2>1. Sound(s, p) /\ p.program.tool \in {"enrich", "mart"} /\ p.now.cn \in Chinese
    BY <1>1, AskedNow
  <2>. QED BY <2>1, ProgramAssumption DEF Sound, Form, NoProgram
<1>3. At(s, "asked") /\ UNCHANGED <<products, overlapped>>
  BY DEF ModelReplies, HandoffReplies, tables
<1>4. CASE ModelReplies(s)
  <2>1. PICK result \in Replies[p.program.upstream][p.now.cn] :
          \/ result # None /\ Answered(s, result, None)
          \/ result = None /\ NotAnswered(s, None)
    BY <1>1, <1>4 DEF ModelReplies
  <2>. QED BY <1>1, <1>2, <1>3, <2>1, AnsweredS, NotAnsweredS
<1>5. CASE HandoffReplies(s)
  <2>1. PICK seen : seen = OrElse(p.memo, answers)
    OBVIOUS
  <2>2. \/ \E result \in Replies["handoff"][p.now.cn] : Answered(s, result, seen)
        \/ NotAnswered(s, seen)
    BY <1>1, <1>5, <2>1 DEF HandoffReplies
  <2>3. "handoff" \in DOMAIN Replies /\ None \notin Replies["handoff"][p.now.cn]
    BY <1>2, EnrichmentAssumption
  <2>. QED BY <1>1, <1>3, <2>2, <2>3, AnsweredS, NotAnsweredS
<1>. QED BY <1>4, <1>5

LEMMA RecordAuditS == ASSUME EInv, SInv, NEW s \in Slots, RecordAudit(s) PROVE SInv'
<1>1. PICK p, usable, q :
        /\ p = process[s] /\ usable = (p.reply.result \notin {None, Blank})
        /\ q = [p EXCEPT !.attempted = @ + 1,
                         !.step  = IF usable THEN "update" ELSE "next",
                         !.now   = IF usable THEN @ ELSE None,
                         !.reply = IF usable THEN @ ELSE None]
  OBVIOUS
<1>2. DOMAIN p = DOMAIN Idle /\ p.step = "record" /\ p.program.tool = "enrich" /\ Chain(p)
  BY <1>1, SelfNow DEF RecordAudit, At, Sound, Form
<1>3. UNCHANGED <<products, file, unsaved, overlapped>>
  BY DEF RecordAudit, tables, history
<1>4. /\ q.program = p.program /\ q.index = p.index /\ (usable => q.reply = p.reply)
      /\ q.step = (IF usable THEN "update" ELSE "next")
  BY <1>1, <1>2 DEF Idle
<1>5. CASE p.reply.by = "b"
  <2>1. Becomes(s, Idle)
    BY <1>1, <1>5 DEF RecordAudit
  <2>2. Informed(Idle)
    BY InformedTrivially DEF Idle, NoProgram
  <2>. QED BY <1>3, <2>1, <2>2, SameFile
<1>6. CASE p.reply.by # "b"
  <2>1. Becomes(s, q)
    BY <1>1, <1>6 DEF RecordAudit
  <2>2. CASE usable
    <3>1. p.reply.by = "a"
      BY <1>1, <1>2, <1>6, <2>2 DEF Chain, InHandOf, Lines
    <3>2. Informed(p) => Informed(q)
      BY <1>1, <1>2, <1>4, <2>2, <3>1 DEF Informed, InHandOf
    <3>. QED BY <1>1, <1>3, <2>1, <3>2, SameFile
  <2>3. CASE ~usable
    <3>1. q.step = "next"
      BY <1>4, <2>3
    <3>2. Informed(p) => Informed(q)
      BY <1>4, <3>1, InformedStill
    <3>. QED BY <1>1, <1>3, <2>1, <3>2, SameFile
  <2>. QED BY <2>2, <2>3
<1>. QED BY <1>5, <1>6

(* A name that is written is that of a line of Track A. *)
LEMMA UpdateS == ASSUME EInv, SInv, NEW s \in Slots, Update(s) PROVE SInv'
<1>1. PICK p, q : /\ p = process[s]
                  /\ q = [p EXCEPT !.succeeded = @ + 1, !.step = "next", !.now = None, !.reply = None]
  OBVIOUS
<1>2. DOMAIN p = DOMAIN Idle /\ p.step = "update" /\ p.program.tool = "enrich" /\ Chain(p)
  BY <1>1, SelfNow DEF Update, At, Sound, Form
<1>3. Becomes(s, q) /\ UNCHANGED <<file, unsaved, overlapped>>
  BY <1>1 DEF Update, history
<1>4. q.program = p.program /\ q.index = p.index /\ q.step = "next"
  BY <1>1, <1>2 DEF Idle
<1>5. p.now.part \in Parts /\ p.reply.result # None
  BY <1>2 DEF Chain, InHandOf, Candidate
<1>6. products' = [products EXCEPT ![p.now.part] =
          IF p.program.mode = "audit" THEN [@ EXCEPT !.verified = TRUE]
          ELSE [@ EXCEPT !.en = p.reply.result, !.translated = TRUE]]
  BY <1>1 DEF Update
<1>7. \A x \in Parts : DOMAIN products[x] = DOMAIN Absent
  BY DEF EInv, TableOK
<1>8. \A x \in Parts : products'[x].en \in {products[x].en, p.reply.result}
  BY <1>5, <1>6, <1>7 DEF EInv, Absent
<1>9. ASSUME Informed(p) PROVE OfTrackA(p.reply.result)
  <2>1. p.reply.by = "a" /\ InFile(p.reply)
    BY <1>2, <1>5, <1>9 DEF Informed, InHandOf
  <2>. QED BY <2>1 DEF InFile, OfTrackA
<1>10. Informed(p) => \A x \in Parts : products'[x].en = products[x].en \/ Sourced(x, products'[x].en)
  BY <1>8, <1>9 DEF Sourced
<1>. QED BY <1>1, <1>3, <1>4, <1>10, InformedStill, SameFile

LEMMA EndS == ASSUME EInv, SInv, NEW s \in Slots, Finalise(s) \/ Die(s) PROVE SInv'
<1>1. Becomes(s, Idle) /\ UNCHANGED <<products, file, unsaved, overlapped>>
  BY DEF Finalise, Die, tables, history
<1>2. Informed(Idle)
  BY InformedTrivially DEF Idle, NoProgram
<1>. QED BY <1>1, <1>2, SameFile

(* An ingest knows of no file, and a name it writes is in its workbook. *)
LEMMA IngestS == ASSUME EInv, SInv, NEW s \in Slots, IngestRow(s) \/ LinkRow(s) PROVE SInv'
<1>1. PICK p : p = process[s]
  OBVIOUS
<1>2. DOMAIN p = DOMAIN Idle /\ p.program.tool = "ingest" /\ Sound(s, p)
  BY <1>1, SelfNow DEF IngestRow, LinkRow, At, Sound, Form
<1>3. UNCHANGED <<file, unsaved, overlapped>>
  BY DEF IngestRow, LinkRow, history
<1>4. ASSUME UNCHANGED products, NEW q, Becomes(s, q), q.program = p.program PROVE SInv'
  BY <1>2, <1>3, <1>4, InformedTrivially, SameFile
<1>5. CASE LinkRow(s)
  <2>1. PICK q : Becomes(s, q) /\ q \in {[p EXCEPT !.step = "row"],
                                          [p EXCEPT !.failed = @ + 1, !.step = "row"]}
    BY <1>1, <1>5 DEF LinkRow, Goto
  <2>2. q.program = p.program
    BY <1>2, <2>1 DEF Idle
  <2>. QED BY <1>4, <1>5, <2>1, <2>2 DEF LinkRow
<1>6. CASE UNCHANGED products /\ Becomes(s, Counted(p, "failed"))
  <2>1. Counted(p, "failed").program = p.program
    BY <1>2 DEF Counted, Idle
  <2>. QED BY <1>4, <1>6, <2>1
<1>7. ASSUME NEW row, RowUpserted(s, row) PROVE SInv'
  <2>1. row \in RowsOf(row.part) /\ row.part \in Parts
    <3>1. p.program \in Programs[s]
      BY <1>2 DEF Sound, Form, NoProgram
    <3>2. p.program.rows \in Workbooks /\ Rows(s) = p.program.rows
      BY <1>1, <1>2, <3>1, ProgramAssumption DEF Rows
    <3>3. p.attempted + 1 \in DOMAIN p.program.rows
      <4>1. PICK n : n = Len(p.program.rows)
        OBVIOUS
      <4>2. p.attempted \in Nat /\ p.attempted < n /\ n \in Nat /\ DOMAIN p.program.rows = 1 .. n
        BY <1>1, <1>2, <1>7, <3>2, <4>1, BookRows DEF RowUpserted, Sound, Form
      <4>. QED BY <4>2
    <3>. QED BY <1>1, <1>7, <3>2, <3>3, BookRows DEF RowUpserted
  <2>2. products' = [products EXCEPT ![row.part] = Upserted(@, row)]
    BY <1>7 DEF RowUpserted
  <2>3. \A x \in Parts : products'[x].en = products[x].en \/ (x = row.part /\ products'[x].en = row.en)
    BY <2>1, <2>2 DEF EInv, TableOK, Upserted, OrElse, Absent
  <2>4. SUFFICES ASSUME ~overlapped, ~unsaved PROVE OneLine' /\ AllInformed' /\ AllSourced'
    BY <1>3 DEF SInv
  <2>5. OneLine /\ AllInformed /\ AllSourced
    BY <2>4 DEF SInv
  <2>6. AllSourced'
    <3>1. ASSUME NEW x \in Parts, products'[x].en # None PROVE Sourced(x, products[x].en)'
      <4>1. PICK v : v = products'[x].en
        OBVIOUS
      <4>2. Sourced(x, v)
        BY <2>1, <2>3, <2>5, <3>1, <4>1 DEF AllSourced, Sourced
      <4>3. Sourced(x, v)'
        BY <1>3, <4>2, FileStays
      <4>. QED BY <4>1, <4>3 DEF Sourced, OfTrackA
    <3>. QED BY <3>1 DEF AllSourced
  <2>7. ASSUME NEW t \in Slots, NEW r \in {process'[t]} PROVE Informed(r)
    <3>1. PICK q : q = [Counted(p, "succeeded") EXCEPT !.step = IF p.picture THEN "link" ELSE "row"]
      OBVIOUS
    <3>2. Becomes(s, q) /\ q.program = p.program
      BY <1>1, <1>2, <1>7, <3>1 DEF RowUpserted, Counted, Idle
    <3>3. process'[s] = q /\ \A u \in Slots \ {s} : process'[u] = process[u]
      BY <3>2 DEF EInv, Becomes
    <3>. QED BY <1>2, <2>5, <2>7, <3>2, <3>3, InformedTrivially DEF AllInformed
  <2>8. AllInformed'
    BY <1>3, <2>7, FileStays DEF AllInformed
  <2>9. OneLine'
    BY <1>3, <2>5, FileStays
  <2>. QED BY <2>6, <2>8, <2>9
<1>8. CASE IngestRow(s) /\ ~(UNCHANGED products /\ Becomes(s, Counted(p, "failed")))
  <2>1. PICK row : row = Rows(s)[process[s].attempted + 1]
    OBVIOUS
  <2>2. /\ row.part # None
        /\ products' = [products EXCEPT ![row.part] = Upserted(@, row)]
        /\ Becomes(s, [Counted(process[s], "succeeded") EXCEPT
                         !.step = IF process[s].picture THEN "link" ELSE "row"])
    BY <1>1, <1>8, <2>1 DEF IngestRow
  <2>3. /\ At(s, "row") /\ process[s].attempted < Len(Rows(s))
        /\ UNCHANGED <<linked, file, answers, overlapped>>
    BY <1>8 DEF IngestRow, handoff, history
  <2>. QED BY <1>7, <2>1, <2>2, <2>3 DEF RowUpserted
<1>. QED BY <1>5, <1>6, <1>8

(* A program that starts reads the file. *)
LEMMA StartS ==
  ASSUME EInv, SInv, NEW s \in Slots, NEW program \in Programs[s], Start(s, program)  PROVE SInv'
<1>1. UNCHANGED <<products, file, unsaved>> /\ (overlapped => overlapped')
  BY DEF Start, tables
<1>2. CASE program.tool = "ingest"
  <2>1. PICK stored : Becomes(s, [Idle EXCEPT !.program = program, !.step = "row", !.picture = stored])
    BY <1>2 DEF Start
  <2>2. PICK q : q = [Idle EXCEPT !.program = program, !.step = "row", !.picture = stored]
    OBVIOUS
  <2>3. q.program = program
    BY <2>2 DEF Idle
  <2>. QED BY <1>1, <1>2, <2>1, <2>2, <2>3, InformedTrivially, SameFile
<1>3. CASE program.tool \in {"enrich", "mart"}
  <2>1. PICK index, q : /\ index = Index(IF program.tool = "mart" THEN "b" ELSE "a")
                        /\ q = [Idle EXCEPT !.program = program, !.step = "load", !.index = index]
    OBVIOUS
  <2>2. Becomes(s, q)
    BY <1>3, <2>1 DEF Start
  <2>3. q.program = program /\ q.step = "load" /\ q.index = index
    BY <2>1 DEF Idle
  <2>4. CASE program.tool = "mart"
    BY <1>1, <2>2, <2>3, <2>4, InformedTrivially, SameFile
  <2>5. CASE program.tool = "enrich"
    <3>1. /\ file \in Seq(Lines) /\ \A i \in DOMAIN file : file[i] \in Lines /\ file[i].key \in Keys
          /\ \A i \in DOMAIN file : file[i] # None
      <4>1. \A l \in Lines : l.key \in Keys
        BY DEF Lines
      <4>. QED BY <4>1, LineNotNone DEF EInv
    <3>2. \A k \in Keys : index[k] # None => InFile(index[k])
      BY <2>1, <2>5, <3>1, IndexType DEF InFile
    <3>3. ASSUME NEW i \in DOMAIN file PROVE index[file[i].key] # None
      BY <2>1, <2>5, <3>1, IndexHolds
    <3>4. Informed(q)
      BY <2>3, <3>2, <3>3 DEF Informed, InHandOf
    <3>. QED BY <1>1, <2>2, <3>4, SameFile
  <2>. QED BY <1>3, <2>4, <2>5
<1>. QED BY <1>2, <1>3 DEF Start

LEMMA SInit == Init => SInv
<1>. SUFFICES ASSUME Init PROVE SInv
  OBVIOUS
<1>1. DOMAIN file = {} /\ \A p \in Parts : products[p].en = None
  BY DEF Init, Absent
<1>2. \A s \in Slots : process[s].program.tool = "none"
  BY DEF Init, Idle, NoProgram
<1>. QED BY <1>1, <1>2 DEF SInv, OneLine, AllInformed, Informed, AllSourced

LEMMA SNext == EInv /\ SInv /\ [Next]_vars => SInv'
<1>. SUFFICES ASSUME EInv, SInv, [Next]_vars PROVE SInv'
  OBVIOUS
<1>1. ASSUME UNCHANGED <<products, process, file, overlapped, unsaved>> PROVE SInv'
  BY <1>1, FileStays DEF SInv, AllInformed, AllSourced, Sourced, OfTrackA
<1>2. CASE UNCHANGED vars
  BY <1>1, <1>2 DEF vars, tables, history
<1>3. ASSUME NEW cn \in Chinese, OperatorAnswers(cn) PROVE SInv'
  BY <1>1, <1>3 DEF OperatorAnswers, tables, history
<1>4. ASSUME NEW s \in Slots, Proceed(s) PROVE SInv'
  BY <1>4, LoadS, AskS, RepliesS, RecordAuditS, UpdateS, IngestS, EndS DEF Proceed
<1>5. ASSUME NEW s \in Slots, Die(s) PROVE SInv'
  BY <1>5, EndS
<1>6. ASSUME NEW s \in Slots, NEW program \in Programs[s], Start(s, program) PROVE SInv'
  BY <1>6, StartS
<1>. QED BY <1>2, <1>3, <1>4, <1>5, <1>6 DEF Next

(* Two products whose names only one Chinese name explains have one name:  *)
(* what was answered once is served to every later enrichment, through the *)
(* file or the memory, whatever ingests, audits and deaths come between.   *)
THEOREM TextsNamedOnce == Spec => []SameTextSameName
<1>1. EInv /\ SInv => SameTextSameName
  <2>. SUFFICES ASSUME EInv, SInv, ~overlapped, ~unsaved,
                       NEW c \in Chinese, NEW p \in Parts, NEW q \in Parts,
                       {products[p].en, products[q].en} \subseteq Translations(c), Telling(c)
       PROVE  products[p].en = products[q].en
    BY DEF SameTextSameName
  <2>0. products[p].en \in Translations(c) /\ products[q].en \in Translations(c)
    OBVIOUS
  <2>1. ASSUME NEW x \in Parts, products[x].en \in Translations(c)
        PROVE  \E i \in DOMAIN file : /\ file[i].by = "a" /\ file[i].result = products[x].en
                                      /\ file[i].key.form = "raw" /\ file[i].key.cn = c
                                      /\ file[i].key \in Keys
    <3>1. products[x].en \notin {None, Blank}
      BY <2>1 DEF Translations
    <3>2. Sourced(x, products[x].en)
      BY <3>1 DEF SInv, AllSourced
    <3>3. \A r \in RowsOf(x) : products[x].en # r.en
      BY <2>1 DEF Telling, RowsOf
    <3>4. PICK i \in DOMAIN file : file[i].by = "a" /\ file[i].result = products[x].en
      BY <3>2, <3>3 DEF Sourced, OfTrackA
    <3>5. /\ file[i].key \in Keys /\ file[i].key.cn \in Chinese
          /\ file[i].result \in Texts(file[i].key.cn)
      <4>1. file[i] \in Lines
        BY DEF EInv
      <4>. QED BY <4>1 DEF Lines, Keys
    <3>6. products[x].en \in Translations(file[i].key.cn)
      BY <3>1, <3>4, <3>5 DEF Texts, Translations
    <3>7. file[i].key.cn = c
      BY <2>1, <3>5, <3>6 DEF Telling
    <3>8. file[i].key.form = "raw"
      BY <3>4 DEF SInv, OneLine
    <3>. QED BY <3>4, <3>5, <3>7, <3>8
  <2>2. PICK i \in DOMAIN file : /\ file[i].by = "a" /\ file[i].result = products[p].en
                                 /\ file[i].key.form = "raw" /\ file[i].key.cn = c
                                 /\ file[i].key \in Keys
    BY <2>0, <2>1
  <2>3. PICK j \in DOMAIN file : /\ file[j].by = "a" /\ file[j].result = products[q].en
                                 /\ file[j].key.form = "raw" /\ file[j].key.cn = c
                                 /\ file[j].key \in Keys
    BY <2>0, <2>1
  <2>4. file[i].key = file[j].key
    BY <2>2, <2>3 DEF Keys
  <2>. QED BY <2>2, <2>3, <2>4 DEF SInv, OneLine
<1>. QED BY <1>1, EAlways, SInit, SNext, PTL DEF Spec
===============================================================================
