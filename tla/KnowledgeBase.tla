--------------------------- MODULE KnowledgeBase ---------------------------
(***************************************************************************)
(* The knowledge base under docs/07-knowledge: Markdown files of numbered  *)
(* cards, to which `kb create` appends, and INDEX.md, whose card counts    *)
(* `kb rebuild` brings up to date.  Every command is a process, and there  *)
(* is no lock.  A step is one look at, read, truncation or write of a      *)
(* file; a rebuild visits the files one by one.                            *)
(***************************************************************************)
EXTENDS Integers, Sequences, FiniteSets, FiniteSetsExt

CONSTANTS
    Author,          \* processes
    CardFile,        \* {category}/{subcategory}.md
    Prefix,          \* ResolvePrefix of each
    Handwritten,     \* the cards of each file that people have left there
    MaxCalls, MaxKills,
    Absent, Garbled

KBAssumption ==
    /\ Handwritten \in [CardFile -> Seq([prefix : {Prefix[f] : f \in CardFile},
                                         number : Nat \ {0}, call : {0}])]
    /\ \A f \in CardFile : \A i, j \in 1..Len(Handwritten[f]) :
          i # j => Handwritten[f][i] # Handwritten[f][j]

VARIABLES
    cards,     \* the files: Absent or their cards
    index,     \* INDEX.md: Absent, Garbled, or its rows and its total
    author,    \* what each process is doing
    calls, kills,
    quiet,     \* history: no two commands have overlapped
    created,   \* history: the cards answered as created
    fresh      \* history: no file was written since the last rebuild began

kbVars == <<cards, index, author, calls, kills, quiet, created, fresh>>

Card == [prefix : {Prefix[f] : f \in CardFile}, number : Nat, call : Nat]
NoTotal == -1
Idle == [at |-> "idle"]

TypeOK ==
    /\ \A f \in CardFile : cards[f] # Absent => cards[f] \in Seq(Card)
    /\ index \notin {Absent, Garbled} =>
          /\ DOMAIN index.rows \subseteq CardFile
          /\ \A f \in DOMAIN index.rows : index.rows[f] \in Nat
          /\ index.total \in Nat \cup {NoTotal}
    /\ \A a \in Author : author[a].at \in
          {"idle", "number", "look", "read", "truncate", "write",
           "ensure", "walk", "recount", "clear", "store"}

Init ==
    /\ cards = [f \in CardFile |-> IF Handwritten[f] = <<>> THEN Absent ELSE Handwritten[f]]
    /\ index = Absent
    /\ author = [a \in Author |-> Idle]
    /\ calls = 0 /\ kills = 0
    /\ quiet = TRUE /\ created = {} /\ fresh = FALSE

-----------------------------------------------------------------------------

goto(a, l) == author' = [author EXCEPT ![a].at = l]
finish(a) == author' = [author EXCEPT ![a] = Idle]

\* ScanCardsInFile: none where there is no file.
Scan(f) == IF cards[f] = Absent THEN <<>> ELSE cards[f]

Begin(a) ==
    /\ author[a] = Idle /\ calls < MaxCalls
    /\ calls' = calls + 1
    /\ quiet' = (quiet /\ \A b \in Author : author[b] = Idle)
    /\ \/ \E f \in CardFile :
            author' = [author EXCEPT ![a] = [at |-> "number", file |-> f,
                          card |-> [prefix |-> Prefix[f], number |-> 0, call |-> calls + 1],
                          base |-> <<>>]]
       \/ author' = [author EXCEPT ![a] = [at |-> "ensure", counts |-> <<>>,
                          todo |-> CardFile, page |-> Absent]]
    /\ UNCHANGED <<cards, index, kills, created, fresh>>

\* Mutant of nextNumber: how many cards there are, and one.
nextNumberByCount(f, prefix) ==
    1 + Cardinality({i \in 1..Len(Scan(f)) : Scan(f)[i].prefix = prefix})

\* NextCardNumber: one more than the highest of the prefix in the file.
nextNumber(f, prefix) ==
    1 + Max({0} \cup {Scan(f)[i].number :
                        i \in {j \in 1..Len(Scan(f)) : Scan(f)[j].prefix = prefix}})

\* CreateCard takes the number ...
Number(a) ==
    /\ author[a].at = "number"
    /\ author' = [author EXCEPT ![a].at = "look",
                      ![a].card.number = nextNumber(author[a].file, author[a].card.prefix)]
    /\ UNCHANGED <<cards, index, calls, kills, quiet, created, fresh>>

\* ... AppendCardToFile looks whether there is a file, to which a title goes
\* first if not ...
Look(a) ==
    /\ author[a].at = "look"
    /\ goto(a, IF cards[author[a].file] = Absent THEN "truncate" ELSE "read")
    /\ UNCHANGED <<cards, index, calls, kills, quiet, created, fresh>>

\* Mutant of Read: the card replaces what the file holds.
ReadNothing(a) ==
    /\ author[a].at = "read"
    /\ goto(a, "truncate")
    /\ UNCHANGED <<cards, index, calls, kills, quiet, created, fresh>>

\* ... reads the file it found ...
Read(a) ==
    /\ author[a].at = "read"
    /\ author' = [author EXCEPT ![a].at = "truncate", ![a].base = Scan(author[a].file)]
    /\ UNCHANGED <<cards, index, calls, kills, quiet, created, fresh>>

\* ... and writes what it read and the card: os.WriteFile truncates first.
Truncate(a) ==
    /\ author[a].at = "truncate"
    /\ cards' = [cards EXCEPT ![author[a].file] = <<>>]
    /\ goto(a, "write")
    /\ fresh' = FALSE
    /\ UNCHANGED <<index, calls, kills, quiet, created>>

\* What another process has written since the truncation shows where it is
\* longer.
overlaid(under, over) ==
    {over} \cup {over \o SubSeq(under, i, Len(under)) : i \in 2..Len(under)}

Write(a) ==
    /\ author[a].at = "write"
    /\ LET f == author[a].file
       IN  /\ \E c \in overlaid(cards[f], Append(author[a].base, author[a].card)) :
                cards' = [cards EXCEPT ![f] = c]
           /\ created' = created \cup {<<f, author[a].card>>}
    /\ finish(a)
    /\ fresh' = FALSE
    /\ UNCHANGED <<index, calls, kills, quiet>>

-----------------------------------------------------------------------------
(* RecountIndex. *)

emptyIndex == [rows |-> <<>>, total |-> 0]
blankIndex == [rows |-> <<>>, total |-> NoTotal]

\* EnsureIndexFile, in one step: the template is a few lines.
Ensure(a) ==
    /\ author[a].at = "ensure"
    /\ index' = IF index = Absent THEN emptyIndex ELSE index
    /\ goto(a, "walk")
    /\ UNCHANGED <<cards, calls, kills, quiet, created, fresh>>

\* The walk takes the files one by one; one without cards is not counted.
Walk(a) ==
    /\ author[a].at = "walk"
    /\ \E f \in author[a].todo :
        LET n == Len(Scan(f))
        IN  author' = [author EXCEPT
                ![a].todo = @ \ {f},
                ![a].at = IF author[a].todo = {f} THEN "recount" ELSE "walk",
                ![a].counts = IF n = 0 THEN @
                              ELSE [g \in DOMAIN @ \cup {f} |-> IF g = f THEN n ELSE @[g]]]
    /\ fresh' = IF author[a].todo = CardFile THEN TRUE ELSE fresh
    /\ UNCHANGED <<cards, index, calls, kills, quiet, created>>

\* The sum of the counts.
cardTotal(counts) == MapThenSumSet(LAMBDA f : counts[f], DOMAIN counts)

\* Mutant of recounted: a file that has no row is left out.
recountedWithoutNew(page, counts) ==
    [rows  |-> [f \in DOMAIN page.rows |-> IF f \in DOMAIN counts THEN counts[f] ELSE 0],
     total |-> cardTotal(counts)]

\* Every row gets its count, 0 when the file has no card; a file that has no
\* row gets one; the total is that of the files.
recounted(page, counts) ==
    [rows  |-> [f \in DOMAIN page.rows \cup DOMAIN counts |->
                  IF f \in DOMAIN counts THEN counts[f] ELSE 0],
     total |-> cardTotal(counts)]

\* Mutant of Recount: rows of files without cards are not touched.
RecountKeepingOld(a) ==
    /\ author[a].at = "recount"
    /\ index # Garbled
    /\ LET now == recounted(index, author[a].counts)
       IN  author' = [author EXCEPT ![a].at = "clear",
             ![a].page = [now EXCEPT !.rows =
                [f \in DOMAIN now.rows |->
                    IF f \in DOMAIN author[a].counts THEN now.rows[f] ELSE index.rows[f]]]]
    /\ UNCHANGED <<cards, index, calls, kills, quiet, created, fresh>>

\* INDEX.md is read; what two overlapping writes have left of it is not
\* followed further.
Recount(a) ==
    /\ author[a].at = "recount"
    /\ author' = [author EXCEPT ![a].at = "clear",
                      ![a].page = IF index = Garbled THEN Garbled
                                  ELSE recounted(index, author[a].counts)]
    /\ UNCHANGED <<cards, index, calls, kills, quiet, created, fresh>>

\* INDEX.md is truncated ...
Clear(a) ==
    /\ author[a].at = "clear"
    /\ index' = blankIndex
    /\ goto(a, "store")
    /\ UNCHANGED <<cards, calls, kills, quiet, created, fresh>>

\* ... and written.
Store(a) ==
    /\ author[a].at = "store"
    /\ index' = IF index = blankIndex THEN author[a].page ELSE Garbled
    /\ finish(a)
    /\ UNCHANGED <<cards, calls, kills, quiet, created, fresh>>

\* A process is killed.
Kill(a) ==
    /\ author[a] # Idle /\ kills < MaxKills
    /\ finish(a)
    /\ kills' = kills + 1
    /\ fresh' = FALSE
    /\ UNCHANGED <<cards, index, calls, quiet, created>>

Next ==
    \E a \in Author :
        \/ Begin(a) \/ Number(a) \/ Look(a) \/ Read(a) \/ Truncate(a) \/ Write(a)
        \/ Ensure(a) \/ Walk(a) \/ Recount(a) \/ Clear(a) \/ Store(a) \/ Kill(a)

Spec == Init /\ [][Next]_kbVars

-----------------------------------------------------------------------------
(* Properties. *)

\* Commands run one after another, killed or not: no two cards of a file have
\* one identifier, although numbers come from what the file holds now.
NumbersDistinct ==
    quiet => \A f \in CardFile : \A i, j \in 1..Len(Scan(f)) :
        i # j => \/ Scan(f)[i].prefix # Scan(f)[j].prefix
                 \/ Scan(f)[i].number # Scan(f)[j].number

\* Commands run one after another and none is killed: a card answered as
\* created stays in its file.
CardsStay ==
    quiet /\ kills = 0 /\ (\A a \in Author : author[a] = Idle)
    => \A c \in created : \E i \in 1..Len(Scan(c[1])) : Scan(c[1])[i] = c[2]

\* INDEX.md's total is the sum of its rows, whatever is created or killed
\* while a rebuild is under way.
TotalIsSum ==
    index \notin {Absent, Garbled, blankIndex}
    => index.total = cardTotal(index.rows)

\* After a rebuild, and until a card is created, every file has its row and
\* every row its count.
IndexFresh ==
    fresh /\ quiet /\ (\A a \in Author : author[a] = Idle) =>
        \A f \in CardFile :
            /\ Scan(f) # <<>> => f \in DOMAIN index.rows
            /\ f \in DOMAIN index.rows => index.rows[f] = Len(Scan(f))

\* The four together: cards keep their places and numbers, INDEX.md counts them.
KnowledgeKept == NumbersDistinct /\ CardsStay /\ TotalIsSum /\ IndexFresh
=============================================================================
