------------------------------ MODULE Tracers ------------------------------
(***************************************************************************)
(* The tracers that write a proof to a file: LRAT, FRAT, VeriPB, IDRUP and *)
(* LIDRUP (DRAT writes the derived and deleted clauses and nothing else).  *)
(* Each keeps little state of its own: deletions put off until the next    *)
(* line, ids of clauses that were announced to be weakened, batches.  What *)
(* was written is represented by what a reader of the file knows after the *)
(* last line: the clauses in use, the weakened ones, and whether a line    *)
(* named a clause it should not have (bad).                                *)
(***************************************************************************)
EXTENDS Cnf, Sequences, Bags

Reader == [active |-> {}, weak |-> {}, bad |-> FALSE]

ReadAdd(v, id, chain) ==
  [v EXCEPT !.active = @ \cup {id}, !.bad = @ \/ ~(Rng(chain) \subseteq v.active)]
ReadDelete(v, ids) == [v EXCEPT !.active = @ \ ids, !.bad = @ \/ ~(ids \subseteq v.active)]
ReadWeaken(v, ids) == [ReadDelete(v, ids) EXCEPT !.weak = @ \cup ids]
ReadRestore(v, ids) ==
  [v EXCEPT !.active = @ \cup ids, !.weak = @ \ ids, !.bad = @ \/ ~(ids \subseteq v.weak)]

-----------------------------------------------------------------------------
\* LRAT: deletions are written in front of the next clause.  Original clauses
\* are those of the formula's file: the format is not made for clauses that
\* are restored.
LratFileInit == [delete |-> {}, latest |-> 0, view |-> Reader, restored |-> FALSE]

LratFileOriginal(f, id, restore) ==
  [f EXCEPT !.view = ReadAdd(@, id, <<>>), !.restored = @ \/ restore]

LratFileDerived(f, id, chain) ==
  [f EXCEPT !.delete = {}, !.latest = id,
            !.view = ReadAdd(ReadDelete(@, f.delete), id, chain)]

LratFileDelete(f, id) == [f EXCEPT !.delete = @ \cup {id}]

-----------------------------------------------------------------------------
\* FRAT: every event is a line; the final clauses are listed at the end.
FratInit == [view |-> Reader, final |-> {}]

FratOriginal(f, id) == [f EXCEPT !.view = ReadAdd(@, id, <<>>)]
FratDerived(f, id, chain) == [f EXCEPT !.view = ReadAdd(@, id, chain)]
FratDelete(f, id) == [f EXCEPT !.view = ReadDelete(@, {id})]
FratFinalize(f, id) == [f EXCEPT !.final = @ \cup {id}]
FratReport(f) == [f EXCEPT !.final = {}, !.view.bad = @ \/ f.final # f.view.active]

-----------------------------------------------------------------------------
\* VeriPB with checked deletions: irredundant clauses are moved to the core
\* (weak stands for the core here); a clause that was announced as weakened
\* stays in the file.
VeripbInit == [table |-> {}, view |-> Reader]

VeripbOriginal(f, id) == [f EXCEPT !.view.active = @ \cup {id}, !.view.weak = @ \cup {id}]
VeripbDerived(f, id, redundant, chain) ==
  [f EXCEPT !.view = [ReadAdd(@, id, chain) EXCEPT !.weak = IF redundant THEN @ ELSE @ \cup {id}]]
VeripbStrengthen(f, id) == [f EXCEPT !.view.weak = @ \cup {id}]
VeripbWeaken(f, id) == [f EXCEPT !.table = @ \cup {id}]

\* "del" for redundant clauses, "delc" for those of the core.
VeripbDelete(f, id, redundant) ==
  IF ~redundant /\ id \in f.table THEN [f EXCEPT !.table = @ \ {id}]
  ELSE [f EXCEPT !.view = [ReadDelete(@, {id}) EXCEPT
          !.weak = @ \ {id}, !.bad = @ \/ (redundant <=> id \in f.view.weak)]]

-----------------------------------------------------------------------------
\* IDRUP: clauses are named by their literals, so what the reader knows are
\* bags.  The table holds weakened ids and the clauses over failed
\* assumptions; imported is the buffer that its entries are copied from and to.
IdrupInit ==
  [table |-> <<>>, imported |-> <<>>, active |-> EmptyBag, weak |-> EmptyBag,
   bad |-> FALSE]

One(c) == SetToBag({Rng(c)})
InTable(f, id) == id \in DOMAIN f.table
IdrupInsert(f, id) ==
  [f EXCEPT !.table = [i \in DOMAIN @ \cup {id} |-> IF i = id THEN f.imported ELSE @[i]]]
FindAndDelete(f, id) ==
  [f EXCEPT !.imported = @ \o f.table[id], !.table = [i \in DOMAIN @ \ {id} |-> @[i]]]

IdrupDerived(f, c) == [f EXCEPT !.active = @ (+) One(c)]

IdrupOriginal(f, id, c, restore) ==
  IF ~restore THEN IdrupDerived(f, c)
  ELSE IF InTable(f, id) THEN FindAndDelete(f, id)
  ELSE [f EXCEPT !.active = @ (+) One(c), !.weak = @ (-) One(c),
                 !.bad = @ \/ ~BagIn(Rng(c), f.weak)]

IdrupDelete(f, id, c) ==
  LET gone == [f EXCEPT !.active = @ (-) One(c), !.bad = @ \/ ~BagIn(Rng(c), f.active)]
  IN IF InTable(f, id) THEN [FindAndDelete(gone, id) EXCEPT !.weak = @ (+) One(c)] ELSE gone

IdrupWeaken(f, id) == IdrupInsert(f, id)

IdrupAssumptionClause(f, id, c) ==
  [IdrupInsert([f EXCEPT !.imported = @ \o c], id) EXCEPT !.imported = <<>>]

\* The conclusion names the failed assumptions of a clause; its literals are
\* looked up with its id, and the empty clause has none.
IdrupConclude(f, id) ==
  [IF InTable(f, id) THEN FindAndDelete(f, id) ELSE f EXCEPT !.imported = <<>>]

-----------------------------------------------------------------------------
\* LIDRUP: as IDRUP with ids and chains.  Lines of ids that are weakened,
\* deleted or restored are put together in batches; at most one batch is open.
LidrupInit ==
  [table |-> {}, weaken |-> {}, delete |-> {}, restore |-> {}, view |-> Reader]

LidrupFlush(f) ==
  [f EXCEPT !.weaken = {}, !.delete = {}, !.restore = {},
            !.view = ReadRestore(ReadDelete(ReadWeaken(@, f.weaken), f.delete), f.restore)]

FlushIf(cond, f) == IF cond THEN LidrupFlush(f) ELSE f

LidrupAdd(f, id, chain) == [LidrupFlush(f) EXCEPT !.view = ReadAdd(@, id, chain)]

LidrupOriginal(f, id, restore) ==
  IF ~restore THEN LidrupAdd(f, id, <<>>)
  ELSE IF id \in f.table THEN [f EXCEPT !.table = @ \ {id}]
  ELSE [FlushIf(f.weaken \cup f.delete # {}, f) EXCEPT !.restore = @ \cup {id}]

\* A mutant: an open batch of restored clauses stays open.
LidrupDeleteUnordered(f, id) ==
  IF id \in f.table
  THEN [FlushIf(f.delete # {}, f) EXCEPT !.table = @ \ {id}, !.weaken = @ \cup {id}]
  ELSE [FlushIf(f.weaken # {}, f) EXCEPT !.delete = @ \cup {id}]

LidrupDelete(f, id) ==
  IF id \in f.table
  THEN [FlushIf(f.delete \cup f.restore # {}, f) EXCEPT !.table = @ \ {id}, !.weaken = @ \cup {id}]
  ELSE [FlushIf(f.weaken \cup f.restore # {}, f) EXCEPT !.delete = @ \cup {id}]

LidrupWeaken(f, id) == [f EXCEPT !.table = @ \cup {id}]
LidrupAssumptionClause(f, id, chain) ==
  [f EXCEPT !.table = @ \cup {id}, !.view.bad = @ \/ ~(Rng(chain) \subseteq LidrupFlush(f).view.active)]
LidrupConclude(f, ids) == [LidrupFlush(f) EXCEPT !.table = @ \ ids]

-----------------------------------------------------------------------------

\* The binary formats: a number in groups of seven bits, the lowest first;
\* the highest bit of a byte says that another one follows.
PutBinary(x) ==
  LET Put[n \in Nat] == IF n < 128 THEN <<n>> ELSE <<(n % 128) + 128>> \o Put[n \div 128] IN Put[x]

PutBinaryLit(l) == PutBinary(2 * VarOf(l) + (IF l < 0 THEN 1 ELSE 0))

\* Ids of LRAT may be negative and are written like literals, FRAT writes only
\* those of chains this way, LIDRUP none.
PutBinaryId(format, inChain, id) ==
  PutBinary(IF format = "lrat" \/ (format = "frat" /\ inChain) THEN 2 * id ELSE id)

Concat(s) ==
  LET To[n \in 0..Len(s)] == IF n = 0 THEN <<>> ELSE To[n - 1] \o s[n] IN To[Len(s)]

\* The line of a derived clause after the byte that names its kind.
Line(format, id, c, chain) ==
  PutBinaryId(format, FALSE, id)
  \o Concat([i \in 1..Len(c) |-> PutBinaryLit(c[i])]) \o <<0>>
  \o (IF format = "frat" THEN <<108>> ELSE <<>>)
  \o Concat([i \in 1..Len(chain) |-> PutBinaryId(format, TRUE, chain[i])]) \o <<0>>

\* The numbers a reader finds in a sequence of bytes.
ReadNumbers(s) ==
  LET \* [done: the numbers read, part: the bits of the one being read, at: its weight]
      Read[n \in 0..Len(s)] ==
        IF n = 0 THEN [done |-> <<>>, part |-> 0, at |-> 1]
        ELSE LET r == Read[n - 1]
                 x == r.part + (s[n] % 128) * r.at
             IN IF s[n] < 128 THEN [done |-> Append(r.done, x), part |-> 0, at |-> 1]
                ELSE [r EXCEPT !.part = x, !.at = @ * 128]
  IN Read[Len(s)].done
=============================================================================
