--------------------------- MODULE RegistryProofs ---------------------------
(***************************************************************************)
(* Proofs about Registry, for any number of processes, resources and       *)
(* environments: what `allocate` proposes is free, no file ever holds two  *)
(* allocations that conflict, and what was granted or copied stays.        *)
(***************************************************************************)
EXTENDS Registry, FiniteSetTheorems, TLAPS

-----------------------------------------------------------------------------
(* The largest of finitely many numbers: induction on the finite sets, by  *)
(* taking a smallest one that has none.                                    *)

Largest(m, S) == m \in S /\ \A x \in S : x <= m

LEMMA LargestOfMore ==
    ASSUME NEW S \in SUBSET Int, NEW x \in S,
           S \ {x} = {} \/ \E m : Largest(m, S \ {x})
    PROVE  \E m : Largest(m, S)
<1>1. CASE S \ {x} = {}
  <2>1. Largest(x, S)
    BY <1>1 DEF Largest
  <2> QED
    BY <2>1
<1>2. CASE \E m : Largest(m, S \ {x})
  <2>1. PICK m : Largest(m, S \ {x})
    BY <1>2
  <2>2. Largest(IF x <= m THEN m ELSE x, S)
    BY <2>1 DEF Largest
  <2> QED
    BY <2>2
<1> QED
  BY <1>1, <1>2

LEMMA LargestExists ==
    ASSUME NEW S \in SUBSET Int, IsFiniteSet(S), S # {}
    PROVE  \E m : Largest(m, S)
<1> DEFINE T == {U \in FiniteSubsetsOf(S) : U # {} /\ ~\E m : Largest(m, U)}
<1>1. SUFFICES ASSUME T # {}
               PROVE  FALSE
  <2>1. S \in FiniteSubsetsOf(S)
    BY DEF FiniteSubsetsOf
  <2> QED
    BY <1>1, <2>1
<1>2. PICK U \in T : \A V \in T : ~ <<V, U>> \in StrictSubsetOrdering(S)
  <2>1. IsWellFoundedOn(StrictSubsetOrdering(S), FiniteSubsetsOf(S))
    BY FS_StrictSubsetOrderingWellFounded
  <2>2. T \subseteq FiniteSubsetsOf(S)
    OBVIOUS
  <2> HIDE DEF T
  <2> QED
    BY <1>1, <2>1, <2>2, WFMin
<1>3. U \subseteq S /\ IsFiniteSet(U) /\ U # {} /\ ~\E m : Largest(m, U)
  BY <1>2 DEF FiniteSubsetsOf
<1>4. PICK x \in U : TRUE
  BY <1>3
<1>5. IsFiniteSet(U \ {x})
  BY <1>3, FS_RemoveElement
<1>6. <<U \ {x}, U>> \in StrictSubsetOrdering(S)
  BY <1>3, <1>4 DEF StrictSubsetOrdering
<1>7. U \ {x} \notin T
  BY <1>2, <1>6
<1>8. U \ {x} = {} \/ \E m : Largest(m, U \ {x})
  BY <1>3, <1>5, <1>7 DEF FiniteSubsetsOf
<1>9. U \in SUBSET Int
  BY <1>3
<1> HIDE DEF T
<1> QED
  BY <1>3, <1>4, <1>8, <1>9, LargestOfMore

-----------------------------------------------------------------------------
(* What a command looks up.                                                *)

LEMMA AllocatedFacts ==
    ASSUME NEW reg \in Reg, NEW n \in Name
    PROVE  Allocated(reg, n) \subseteq Allocation /\ IsFiniteSet(Allocated(reg, n))
<1>1. reg[n] \in Seq(Allocation) /\ Len(reg[n]) \in Nat
  BY DEF Reg
<1>2. IsFiniteSet(1..Len(reg[n]))
  BY <1>1, FS_Interval
<1> DEFINE f == [i \in 1..Len(reg[n]) |-> reg[n][i]]
<1>3. f \in Surjection(1..Len(reg[n]), Allocated(reg, n))
  BY DEF Surjection, Allocated
<1>4. IsFiniteSet(Allocated(reg, n))
  <2> HIDE DEF f
  <2> QED
    BY <1>2, <1>3, FS_Surjection
<1> QED
  BY <1>1, <1>4 DEF Allocated

Suggests(m, reg, n, kind, env) ==
    m \in Int /\ \A x \in considered(reg, n, kind, env) : x.hi < m

LEMMA SuggestionIs ==
    ASSUME RegistryAssumption, NEW reg \in Reg, NEW n \in Name, NEW kind, NEW env
    PROVE  Suggests(suggestion(reg, n, kind, env), reg, n, kind, env)
<1> DEFINE seen == considered(reg, n, kind, env)
           ends == {x.hi : x \in seen}
<1>1. seen \subseteq Allocated(reg, n)
  BY DEF considered
<1>2. seen \subseteq Allocation /\ IsFiniteSet(seen)
  BY <1>1, AllocatedFacts, FS_Subset
<1>3. CASE seen = {}
  BY <1>3 DEF Suggests, suggestion, RegistryAssumption
<1>4. CASE seen # {}
  <2>1. ends \in SUBSET Int
    BY <1>2 DEF Allocation
  <2> DEFINE f == [x \in seen |-> x.hi]
  <2>2. IsFiniteSet(ends)
    <3>1. f \in Surjection(seen, ends)
      BY DEF Surjection
    <3> HIDE DEF f, seen, ends
    <3> QED
      BY <1>2, <3>1, FS_Surjection
  <2>3. ends # {}
    BY <1>4
  <2> DEFINE top == CHOOSE m \in ends : \A x \in seen : x.hi <= m
  <2>4. \E m : Largest(m, ends)
    <3> HIDE DEF ends
    <3> QED
      BY <2>1, <2>2, <2>3, LargestExists
  <2>5. \E m \in ends : \A x \in seen : x.hi <= m
    BY <2>4 DEF Largest
  <2>6. top \in ends /\ \A x \in seen : x.hi <= top
    BY <2>5
  <2>7. suggestion(reg, n, kind, env) = top + 1
    BY <1>4 DEF suggestion
  <2>8. \A x \in seen : x.hi \in Int
    BY <1>2 DEF Allocation
  <2>9. top \in Int
    BY <2>1, <2>6
  <2> HIDE DEF top, ends
  <2>10. \A x \in seen : x.hi < top + 1
    BY <2>6, <2>8, <2>9
  <2> QED
    BY <2>7, <2>9, <2>10 DEF Suggests
<1> QED
  BY <1>3, <1>4

Asking(c) == c \in Command /\ c.op = "allocate" /\ c.kind # "other"

LEMMA AskedTyped ==
    ASSUME RegistryAssumption, NEW reg \in Reg, NEW c, Asking(c), NEW owner \in Nat
    PROVE  /\ c.name \in Name
           /\ asked(c, reg, owner) \in Allocation
<1>1. c.name \in Name /\ c.kind \in {"unique", "range"} /\ c.env \in Env \cup {NoEnv}
  BY DEF Asking, Command
<1>2. c.want # NoValue => c.want[1] \in Int /\ c.want[2] \in Int
  <2> SUFFICES ASSUME c.want # NoValue
               PROVE  c.want[1] \in Int /\ c.want[2] \in Int
    OBVIOUS
  <2>1. c.want \in {<<v, v>> : v \in Value} \/ c.want \in Bounds
    BY DEF Asking, Command
  <2>2. Value \subseteq Int /\ Bounds \subseteq Int \X Int
    BY DEF RegistryAssumption
  <2>3. CASE c.want \in {<<v, v>> : v \in Value}
    <3>1. PICK v \in Value : c.want = <<v, v>>
      BY <2>3
    <3> QED
      BY <2>2, <3>1
  <2>4. CASE c.want \in Bounds
    <3>1. c.want \in Int \X Int
      BY <2>2, <2>4
    <3> QED
      BY <3>1
  <2> QED
    BY <2>1, <2>3, <2>4
<1>3. suggestion(reg, c.name, c.kind, c.env) \in Int
  BY <1>1, SuggestionIs DEF Suggests
<1>4. Size \in Int
  BY DEF RegistryAssumption
<1> QED
  BY <1>1, <1>2, <1>3, <1>4 DEF asked, Allocation

LEMMA SuggestedFree ==
    ASSUME RegistryAssumption, NEW reg \in Reg, NEW c, Asking(c), c.want = NoValue,
           NEW owner \in Nat
    PROVE  conflicts(reg, c.name, asked(c, reg, owner)) = {}
<1> DEFINE a == asked(c, reg, owner)
<1>1. c.name \in Name /\ a \in Allocation
  BY AskedTyped
<1>2. a.kind = c.kind /\ a.env = c.env /\ a.lo = suggestion(reg, c.name, c.kind, c.env)
  BY DEF asked
<1> HIDE DEF a
<1>3. SUFFICES ASSUME NEW x \in Allocated(reg, c.name), Clash(x, a)
               PROVE  FALSE
  BY DEF conflicts, a
<1>4. x \in considered(reg, c.name, c.kind, c.env)
  BY <1>2, <1>3 DEF Clash, considered
<1>5. x.hi < a.lo
  BY <1>1, <1>2, <1>4, SuggestionIs DEF Suggests
<1>6. x \in Allocation
  BY <1>1, AllocatedFacts
<1> QED
  BY <1>1, <1>3, <1>5, <1>6 DEF Clash, Allocation

\* Free(a): nothing that a clashes with.  To append it keeps a registry consistent.
LEMMA AppendConsistent ==
    ASSUME NEW reg \in Reg, Consistent(reg), NEW n \in Name, NEW a \in Allocation,
           conflicts(reg, n, a) = {}
    PROVE  /\ [reg EXCEPT ![n] = Append(@, a)] \in Reg
           /\ Consistent([reg EXCEPT ![n] = Append(@, a)])
<1> DEFINE new == [reg EXCEPT ![n] = Append(@, a)]
           s == reg[n]
<1>1. s \in Seq(Allocation) /\ Len(s) \in Nat
  BY DEF Reg
<1>2. Append(s, a) \in Seq(Allocation) /\ Len(Append(s, a)) = Len(s) + 1
      /\ (\A i \in 1..Len(s) : Append(s, a)[i] = s[i])
      /\ Append(s, a)[Len(s) + 1] = a
  BY <1>1
<1>3. new \in Reg
  BY <1>2 DEF Reg
<1>4. \A m \in Name : new[m] = IF m = n THEN Append(s, a) ELSE reg[m]
  BY DEF Reg
<1>5. \A i \in 1..Len(s) : ~Clash(s[i], a)
  BY DEF conflicts, Allocated
<1>6. \A i \in 1..Len(s) : ~Clash(a, s[i])
  BY <1>5 DEF Clash
<1>7. ASSUME NEW m \in Name, NEW i \in 1..Len(new[m]), NEW j \in 1..Len(new[m]), i # j
      PROVE  ~Clash(new[m][i], new[m][j])
  <2>1. CASE m # n
    BY <1>4, <1>7, <2>1 DEF Consistent
  <2>2. CASE m = n
    <3>1. new[m] = Append(s, a)
      BY <1>4, <2>2
    <3>2. i \in 1..Len(s) \/ i = Len(s) + 1
      BY <1>1, <1>2, <3>1
    <3>3. j \in 1..Len(s) \/ j = Len(s) + 1
      BY <1>1, <1>2, <3>1
    <3>4. CASE i \in 1..Len(s) /\ j \in 1..Len(s)
      <4>1. ~Clash(s[i], s[j])
        BY <1>7, <3>4 DEF Consistent
      <4> QED
        BY <1>2, <3>1, <3>4, <4>1
    <3>5. CASE i \in 1..Len(s) /\ j = Len(s) + 1
      BY <1>2, <1>5, <3>1, <3>5
    <3>6. CASE i = Len(s) + 1 /\ j \in 1..Len(s)
      BY <1>2, <1>6, <3>1, <3>6
    <3> QED
      BY <1>7, <3>2, <3>3, <3>4, <3>5, <3>6
  <2> QED
    BY <2>1, <2>2
<1>8. Consistent(new)
  <2> HIDE DEF new
  <2> QED
    BY <1>7 DEF Consistent
<1> QED
  BY <1>3, <1>8

LEMMA AppendHolds ==
    ASSUME NEW reg \in Reg, NEW n \in Name, NEW a \in Allocation
    PROVE  Holds(reg) \subseteq Holds([reg EXCEPT ![n] = Append(@, a)])
<1> DEFINE new == [reg EXCEPT ![n] = Append(@, a)]
<1>1. \A m \in Name : reg[m] \in Seq(Allocation) /\ Len(reg[m]) \in Nat
  BY DEF Reg
<1>2. \A m \in Name : new[m] = IF m = n THEN Append(reg[n], a) ELSE reg[m]
  BY DEF Reg
<1>3. \A m \in Name : \A i \in 1..Len(reg[m]) : i \in 1..Len(new[m]) /\ new[m][i] = reg[m][i]
  <2> SUFFICES ASSUME NEW m \in Name, NEW i \in 1..Len(reg[m])
               PROVE  i \in 1..Len(new[m]) /\ new[m][i] = reg[m][i]
    OBVIOUS
  <2>1. CASE m = n
    <3>1. new[m] = Append(reg[n], a)
      BY <1>2, <2>1
    <3> HIDE DEF new
    <3> QED
      BY <1>1, <2>1, <3>1
  <2>2. CASE m # n
    BY <1>2, <2>2
  <2> QED
    BY <2>1, <2>2
<1> HIDE DEF new
<1>4. \A m \in Name : Allocated(reg, m) \subseteq Allocated(new, m)
  BY <1>3 DEF Allocated
<1>5. Holds(reg) \subseteq Holds(new)
  BY <1>4 DEF Holds
<1> QED
  BY <1>5 DEF new

LEMMA LastHeld ==
    ASSUME NEW reg \in Reg, NEW n \in Name, Len(reg[n]) > 0
    PROVE  [name |-> n, of |-> reg[n][Len(reg[n])]] \in Holds(reg)
<1>1. Len(reg[n]) \in Nat
  BY DEF Reg
<1>2. reg[n][Len(reg[n])] \in Allocated(reg, n)
  BY <1>1 DEF Allocated
<1> QED
  BY <1>2 DEF Holds

-----------------------------------------------------------------------------
(* Types.                                                                  *)

Work == [cmd : Command \cup {NoJob.cmd}, reg : Reg, owner : Nat]

TypeInv ==
    /\ TypeOK
    /\ job \in [Proc -> Work]
    /\ \A p \in Proc : pc[p] \in {"save", "write"} => Asking(job[p].cmd)
    /\ \A p \in Proc : pc[p] \in {"load", "fallback"} => job[p].reg = emptyRegistry

LEMMA RestTyped ==
    /\ emptyRegistry \in Reg /\ Consistent(emptyRegistry)
    /\ NoJob \in Work /\ NoJob.reg = emptyRegistry
<1>1. <<>> \in Seq(Allocation) /\ Len(<<>>) = 0
  OBVIOUS
<1>2. emptyRegistry \in Reg
  BY <1>1 DEF emptyRegistry, Reg
<1>3. Consistent(emptyRegistry)
  BY DEF emptyRegistry, Consistent
<1> QED
  BY <1>2, <1>3 DEF NoJob, Work

LEMMA TypeInit ==
    ASSUME RegistryAssumption, Init
    PROVE  TypeInv
<1>1. \A p \in Proc : pc[p] = "idle" /\ job[p] = NoJob
  BY DEF Init
<1>2. job \in [Proc -> Work]
  BY RestTyped DEF Init
<1>3. runtime \in File /\ docs \in File
  BY DEF Init, File, RegistryAssumption
<1>4. pc \in [Proc -> {"idle", "load", "fallback", "boot", "fill", "decide",
                       "save", "write", "copy", "snapshot"}]
  BY DEF Init
<1>5. issued \in 0..MaxCommands /\ crashes \in 0..MaxCrashes
  BY DEF Init, RegistryAssumption
<1> QED
  BY <1>1, <1>2, <1>3, <1>4, <1>5 DEF TypeInv, TypeOK

\* What a step leaves in the processes' labels and work.
Tidy(p, l, j) ==
    /\ l \in {"idle", "load", "fallback", "boot", "fill", "decide", "save", "write",
              "copy", "snapshot"}
    /\ j \in Work
    /\ l # "idle" => j.cmd \in Command
    /\ l \in {"save", "write"} => Asking(j.cmd)
    /\ l \in {"load", "fallback"} => j.reg = emptyRegistry
    /\ pc' = [pc EXCEPT ![p] = l] /\ job' = [job EXCEPT ![p] = j]

LEMMA TidyKeeps ==
    ASSUME TypeInv, NEW p \in Proc, NEW l, NEW j, Tidy(p, l, j),
           runtime' \in File, docs' \in File,
           issued' \in 0..MaxCommands, crashes' \in 0..MaxCrashes
    PROVE  TypeInv'
<1>1. job' \in [Proc -> Work]
  BY DEF TypeInv, Tidy
<1>2. pc' \in [Proc -> {"idle", "load", "fallback", "boot", "fill", "decide",
                        "save", "write", "copy", "snapshot"}]
  BY DEF TypeInv, TypeOK, Tidy
<1>3. \A q \in Proc : IF q = p THEN pc'[q] = l /\ job'[q] = j
                      ELSE pc'[q] = pc[q] /\ job'[q] = job[q]
  BY DEF TypeInv, TypeOK, Tidy
<1>4. \A q \in Proc : /\ pc'[q] # "idle" => job'[q].cmd \in Command
                      /\ pc'[q] \in {"save", "write"} => Asking(job'[q].cmd)
                      /\ pc'[q] \in {"load", "fallback"} => job'[q].reg = emptyRegistry
  BY <1>3 DEF TypeInv, TypeOK, Tidy
<1>5. \A q \in Proc : job'[q].reg \in Reg
  BY <1>1 DEF Work
<1> QED
  BY <1>1, <1>2, <1>4, <1>5 DEF TypeInv, TypeOK

LEMMA Now ==
    ASSUME TypeInv, NEW p \in Proc
    PROVE  /\ job[p] \in Work /\ job[p].reg \in Reg /\ job[p].owner \in Nat
           /\ pc[p] # "idle" => job[p].cmd \in Command
           /\ runtime \in File /\ docs \in File
           /\ issued \in 0..MaxCommands /\ crashes \in 0..MaxCrashes
           /\ DOMAIN pc = Proc /\ DOMAIN job = Proc
           /\ [job EXCEPT ![p] = @] = job
<1>1. job \in [Proc -> Work] /\ job[p] \in Work
  BY DEF TypeInv
<1> QED
  BY <1>1 DEF TypeInv, TypeOK, Work

LEMMA EndTidy ==
    ASSUME NEW p \in Proc, end(p)
    PROVE  Tidy(p, "idle", NoJob)
BY RestTyped DEF end, goto, Tidy

\* What os.WriteFile leaves of what it writes.
LEMMA WrittenTyped ==
    ASSUME NEW f, NEW reg \in Reg, NEW g \in written(f, reg)
    PROVE  g \in File /\ g \in {reg, Torn} /\ (f = Torn => g = reg)
BY DEF written, File

\* The steps, as what they leave of a process's label and work.
Reads(p, r) ==
    /\ r \in Reg
    /\ Tidy(p, "decide", [job[p] EXCEPT !.reg = r])

LEMMA BeginTidy ==
    ASSUME TypeInv, NEW p \in Proc, Begin(p)
    PROVE  \E c \in Command :
             Tidy(p, IF c.op = "sync" THEN "copy" ELSE "load",
                  [cmd |-> c, reg |-> emptyRegistry, owner |-> issued + 1])
<1>1. PICK c \in Command :
        /\ job' = [job EXCEPT ![p] = [cmd |-> c, reg |-> emptyRegistry, owner |-> issued + 1]]
        /\ goto(p, IF c.op = "sync" THEN "copy" ELSE "load")
  BY DEF Begin
<1>2. issued + 1 \in Nat
  BY DEF TypeInv, TypeOK
<1>3. [cmd |-> c, reg |-> emptyRegistry, owner |-> issued + 1] \in Work
  BY <1>2, RestTyped DEF Work
<1>4. Tidy(p, IF c.op = "sync" THEN "copy" ELSE "load",
           [cmd |-> c, reg |-> emptyRegistry, owner |-> issued + 1])
  BY <1>1, <1>3 DEF Tidy, goto
<1> QED
  BY <1>4

LEMMA ReadTidy ==
    ASSUME TypeInv, NEW p \in Proc, NEW r \in Reg, NEW l,
           l \in {"decide", "boot", "snapshot"},
           pc[p] # "idle", job' = [job EXCEPT ![p].reg = r], goto(p, l)
    PROVE  Tidy(p, l, [job[p] EXCEPT !.reg = r])
<1>1. [job[p] EXCEPT !.reg = r] \in Work /\ [job[p] EXCEPT !.reg = r].cmd = job[p].cmd
  BY Now DEF Work
<1>2. job' = [job EXCEPT ![p] = [job[p] EXCEPT !.reg = r]]
  OBVIOUS
<1> QED
  BY <1>1, <1>2, Now DEF Tidy, goto

LEMMA StayTidy ==
    ASSUME TypeInv, NEW p \in Proc, NEW l,
           l \in {"fallback", "fill", "decide", "write"},
           pc[p] # "idle", job' = job, goto(p, l),
           l = "write" => Asking(job[p].cmd),
           l = "fallback" => job[p].reg = emptyRegistry
    PROVE  Tidy(p, l, job[p])
BY Now DEF Tidy, goto

LEMMA AppendTidy ==
    ASSUME RegistryAssumption, TypeInv, NEW p \in Proc, pc[p] = "decide",
           Asking(job[p].cmd), NEW a, a = asked(job[p].cmd, job[p].reg, job[p].owner),
           conflicts(job[p].reg, job[p].cmd.name, a) = {},
           job' = [job EXCEPT ![p].reg[job[p].cmd.name] = Append(@, a)],
           goto(p, "save")
    PROVE  \E r \in Reg :
             /\ r = [job[p].reg EXCEPT ![job[p].cmd.name] = Append(@, a)]
             /\ Consistent(job[p].reg) => Consistent(r)
             /\ Holds(job[p].reg) \subseteq Holds(r)
             /\ Len(r[job[p].cmd.name]) > 0
             /\ Tidy(p, "save", [job[p] EXCEPT !.reg = r])
<1> DEFINE n == job[p].cmd.name
           r == [job[p].reg EXCEPT ![n] = Append(@, a)]
<1>1. job[p].reg \in Reg /\ job[p] \in Work
  BY Now
<1>2. n \in Name /\ a \in Allocation
  BY <1>1, Now, AskedTyped
<1>3. r \in Reg
  <2>1. job[p].reg[n] \in Seq(Allocation)
    BY <1>1, <1>2 DEF Reg
  <2>2. Append(job[p].reg[n], a) \in Seq(Allocation)
    BY <1>2, <2>1
  <2> QED
    BY <1>1, <2>2 DEF Reg
<1>4. Consistent(job[p].reg) => Consistent(r)
  BY <1>1, <1>2, AppendConsistent
<1>5. Holds(job[p].reg) \subseteq Holds(r)
  BY <1>1, <1>2, AppendHolds
<1>6. Len(r[n]) > 0
  <2>1. job[p].reg[n] \in Seq(Allocation) /\ r[n] = Append(job[p].reg[n], a)
    BY <1>1, <1>2 DEF Reg
  <2> HIDE DEF r, n
  <2> QED
    BY <2>1
<1>7. job' = [job EXCEPT ![p] = [job[p] EXCEPT !.reg = r]]
  OBVIOUS
<1> HIDE DEF r
<1>8. [job[p] EXCEPT !.reg = r] \in Work /\ [job[p] EXCEPT !.reg = r].cmd = job[p].cmd
  BY <1>1, <1>3 DEF Work
<1>9. Tidy(p, "save", [job[p] EXCEPT !.reg = r])
  BY <1>7, <1>8 DEF Tidy, goto, Asking
<1> QED
  BY <1>3, <1>4, <1>5, <1>6, <1>9 DEF r

LEMMA LoadTidy ==
    ASSUME TypeInv, NEW p \in Proc, Load(p)
    PROVE  \/ Readable(runtime) /\ Tidy(p, "decide", [job[p] EXCEPT !.reg = runtime])
           \/ ~Readable(runtime) /\ Tidy(p, "fallback", job[p])
<1>1. CASE Readable(runtime)
  BY <1>1, ReadTidy DEF Load, Readable
<1>2. CASE ~Readable(runtime)
  BY <1>2, StayTidy DEF Load, TypeInv
<1> QED
  BY <1>1, <1>2

LEMMA FallbackTidy ==
    ASSUME TypeInv, NEW p \in Proc, Fallback(p)
    PROVE  \/ Readable(docs) /\ Tidy(p, "boot", [job[p] EXCEPT !.reg = docs])
           \/ ~Readable(docs) /\ Tidy(p, "decide", job[p])
<1>1. CASE Readable(docs)
  BY <1>1, ReadTidy DEF Fallback, Readable
<1>2. CASE ~Readable(docs)
  BY <1>2, StayTidy DEF Fallback
<1> QED
  BY <1>1, <1>2

LEMMA CopyTidy ==
    ASSUME TypeInv, NEW p \in Proc, Copy(p)
    PROVE  \/ /\ Readable(runtime) /\ docs' = Torn
              /\ Tidy(p, "snapshot", [job[p] EXCEPT !.reg = runtime])
           \/ UNCHANGED docs /\ Tidy(p, "idle", NoJob)
<1>1. CASE Readable(runtime)
  BY <1>1, ReadTidy DEF Copy, Readable
<1>2. CASE ~Readable(runtime)
  BY <1>2, EndTidy DEF Copy
<1> QED
  BY <1>1, <1>2

LEMMA DecideTidy ==
    ASSUME RegistryAssumption, TypeInv, NEW p \in Proc, Decide(p)
    PROVE  \/ Tidy(p, "idle", NoJob)
           \/ \E r \in Reg :
                /\ Consistent(job[p].reg) => Consistent(r)
                /\ Holds(job[p].reg) \subseteq Holds(r)
                /\ Len(r[job[p].cmd.name]) > 0
                /\ Tidy(p, "save", [job[p] EXCEPT !.reg = r])
<1>1. CASE end(p)
  BY <1>1, EndTidy
<1>2. CASE ~end(p)
  <2> DEFINE a == asked(job[p].cmd, job[p].reg, job[p].owner)
  <2>1. /\ pc[p] = "decide" /\ Asking(job[p].cmd)
        /\ conflicts(job[p].reg, job[p].cmd.name, a) = {}
        /\ job' = [job EXCEPT ![p].reg[job[p].cmd.name] = Append(@, a)]
        /\ goto(p, "save")
    BY <1>2, Now DEF Decide, Asking
  <2> HIDE DEF a
  <2> QED
    BY <2>1, AppendTidy DEF a
<1> QED
  BY <1>1, <1>2

\* What every step leaves in the files and the counts.
LEMMA FilesTyped ==
    ASSUME RegistryAssumption, TypeInv, NEW p \in Proc,
           \/ Begin(p) \/ Load(p) \/ Fallback(p) \/ Truncate(p) \/ Fill(p)
           \/ Decide(p) \/ Write(p) \/ Copy(p) \/ Snapshot(p) \/ Crash(p)
    PROVE  /\ runtime' \in {runtime, Torn, job[p].reg}
           /\ docs' \in {docs, Torn, job[p].reg}
           /\ runtime' \in File /\ docs' \in File
           /\ issued' \in 0..MaxCommands /\ crashes' \in 0..MaxCrashes
<1>1. job[p].reg \in Reg /\ runtime \in File /\ docs \in File
      /\ issued \in 0..MaxCommands /\ crashes \in 0..MaxCrashes
  BY Now
<1>2. runtime' \in {runtime, Torn, job[p].reg} /\ docs' \in {docs, Torn, job[p].reg}
  <2>1. CASE Begin(p) \/ Load(p) \/ Fallback(p) \/ Decide(p) \/ Crash(p)
    BY <2>1 DEF Begin, Load, Fallback, Decide, Crash
  <2>2. CASE Truncate(p) \/ Copy(p)
    BY <2>2 DEF Truncate, Copy
  <2>3. CASE Fill(p) \/ Write(p)
    BY <1>1, <2>3, WrittenTyped DEF Fill, Write
  <2>4. CASE Snapshot(p)
    BY <1>1, <2>4, WrittenTyped DEF Snapshot
  <2> QED
    BY <2>1, <2>2, <2>3, <2>4
<1>3. issued' \in 0..MaxCommands /\ crashes' \in 0..MaxCrashes
  <2>1. CASE Begin(p)
    BY <1>1, <2>1 DEF Begin, RegistryAssumption
  <2>2. CASE Crash(p)
    BY <1>1, <2>2 DEF Crash, RegistryAssumption
  <2>3. CASE Load(p) \/ Fallback(p) \/ Truncate(p) \/ Fill(p)
             \/ Decide(p) \/ Write(p) \/ Copy(p) \/ Snapshot(p)
    BY <1>1, <2>3 DEF Load, Fallback, Truncate, Fill, Decide, Write, Copy, Snapshot
  <2> QED
    BY <2>1, <2>2, <2>3
<1> QED
  BY <1>1, <1>2, <1>3 DEF File

LEMMA TypeStep ==
    ASSUME RegistryAssumption, TypeInv, [Next]_vars
    PROVE  TypeInv'
<1>1. CASE UNCHANGED vars
  BY <1>1 DEF vars, TypeInv, TypeOK
<1>2. CASE Next
  <2>1. PICK p \in Proc :
          \/ Begin(p) \/ Load(p) \/ Fallback(p) \/ Truncate(p) \/ Fill(p)
          \/ Decide(p) \/ Write(p) \/ Copy(p) \/ Snapshot(p) \/ Crash(p)
    BY <1>2 DEF Next
  <2>2. SUFFICES \E l, j : Tidy(p, l, j)
    BY <2>1, FilesTyped, TidyKeeps
  <2>3. CASE Begin(p)
    BY <2>3, BeginTidy
  <2>4. CASE Load(p)
    BY <2>4, LoadTidy
  <2>5. CASE Fallback(p)
    BY <2>5, FallbackTidy
  <2>6. CASE Truncate(p)
    <3>1. Tidy(p, IF pc[p] = "boot" THEN "fill" ELSE "write", job[p])
      BY <2>6, StayTidy DEF Truncate, TypeInv
    <3> QED
      BY <3>1
  <2>7. CASE Fill(p)
    BY <2>7, StayTidy DEF Fill
  <2>8. CASE Decide(p)
    BY <2>8, DecideTidy
  <2>9. CASE Copy(p)
    BY <2>9, CopyTidy
  <2>10. CASE Write(p) \/ Snapshot(p) \/ Crash(p)
    BY <2>10, EndTidy DEF Write, Snapshot, Crash
  <2> QED
    BY <2>1, <2>3, <2>4, <2>5, <2>6, <2>7, <2>8, <2>9, <2>10
<1> QED
  BY <1>1, <1>2

\* The variables keep their types, whatever order processes read, truncate, write
\* and die in (LoadRegistry, saveRegistryLocked, SyncToProject).
THEOREM RegistryTypeCorrect == RegistryAssumption => (Spec => []TypeOK)
<1> SUFFICES ASSUME RegistryAssumption
             PROVE  Spec => []TypeOK
  OBVIOUS
<1>1. Init => TypeInv
  BY TypeInit
<1>2. TypeInv /\ [Next]_vars => TypeInv'
  BY TypeStep
<1>3. TypeInv => TypeOK
  BY DEF TypeInv
<1> QED
  BY <1>1, <1>2, <1>3, PTL DEF Spec

\* What `allocate` proposes when it is given no value is free (SuggestNextUnique and
\* SuggestNextRange against FindConflictsUnique and FindConflictsRange), for every
\* registry that processes can have left.
THEOREM ProposalsAreFree == RegistryAssumption => (Spec => []SuggestionFree)
<1> SUFFICES ASSUME RegistryAssumption
             PROVE  Spec => []SuggestionFree
  OBVIOUS
<1>1. Init => TypeInv
  BY TypeInit
<1>2. TypeInv /\ [Next]_vars => TypeInv'
  BY TypeStep
<1>3. TypeInv => SuggestionFree
  BY Now, SuggestedFree DEF SuggestionFree, Asking
<1> QED
  BY <1>1, <1>2, <1>3, PTL DEF Spec

-----------------------------------------------------------------------------
(* Consistency: what a process has loaded has no two allocations that      *)
(* conflict, so neither has what it writes.                                *)

ConsInv ==
    /\ \A p \in Proc : Consistent(job[p].reg)
    /\ FilesConsistent

\* Files that hold nothing but what a process holds, or what they held.
LEMMA ConsKeeps ==
    ASSUME RegistryAssumption, TypeInv, ConsInv, NEW p \in Proc, NEW l, NEW j, Tidy(p, l, j),
           Consistent(j.reg),
           runtime' \in {runtime, Torn, job[p].reg}, docs' \in {docs, Torn, job[p].reg}
    PROVE  ConsInv'
<1>1. \A q \in Proc : Consistent(job'[q].reg)
  <2>1. \A q \in Proc : IF q = p THEN job'[q] = j ELSE job'[q] = job[q]
    BY DEF TypeInv, Tidy
  <2> QED
    BY <2>1 DEF ConsInv
<1>2. ~Readable(Torn)
  BY DEF Readable, RegistryAssumption
<1>3. \A f \in {runtime, docs, Torn, job[p].reg} : Readable(f) => Consistent(f)
  BY <1>2 DEF ConsInv, FilesConsistent
<1>4. (Readable(runtime) => Consistent(runtime))' /\ (Readable(docs) => Consistent(docs))'
  <2>1. PICK f \in {runtime, docs, Torn, job[p].reg} : runtime' = f
    OBVIOUS
  <2>2. PICK g \in {runtime, docs, Torn, job[p].reg} : docs' = g
    OBVIOUS
  <2> QED
    BY <1>3, <2>1, <2>2 DEF Readable
<1> QED
  BY <1>1, <1>4 DEF ConsInv, FilesConsistent

LEMMA ConsStep ==
    ASSUME RegistryAssumption, TypeInv, ConsInv, [Next]_vars
    PROVE  ConsInv'
<1>1. CASE UNCHANGED vars
  BY <1>1 DEF vars, ConsInv, FilesConsistent, Readable
<1>2. CASE Next
  <2>1. PICK p \in Proc :
          \/ Begin(p) \/ Load(p) \/ Fallback(p) \/ Truncate(p) \/ Fill(p)
          \/ Decide(p) \/ Write(p) \/ Copy(p) \/ Snapshot(p) \/ Crash(p)
    BY <1>2 DEF Next
  <2>2. SUFFICES \E l, j : Tidy(p, l, j) /\ Consistent(j.reg)
    BY <2>1, FilesTyped, ConsKeeps
  <2>3. Consistent(job[p].reg) /\ job[p] \in Work
    BY Now DEF ConsInv
  <2>4. CASE Begin(p)
    <3>1. PICK c \in Command :
            Tidy(p, IF c.op = "sync" THEN "copy" ELSE "load",
                 [cmd |-> c, reg |-> emptyRegistry, owner |-> issued + 1])
      BY <2>4, BeginTidy
    <3>2. [cmd |-> c, reg |-> emptyRegistry, owner |-> issued + 1].reg = emptyRegistry
      OBVIOUS
    <3> QED
      BY <3>1, <3>2, RestTyped
  <2>5. CASE Load(p)
    <3>1. Readable(runtime) =>
            Consistent(runtime) /\ [job[p] EXCEPT !.reg = runtime].reg = runtime
      BY <2>3 DEF ConsInv, FilesConsistent, Work
    <3> QED
      BY <2>3, <2>5, <3>1, LoadTidy
  <2>6. CASE Fallback(p)
    <3>1. Readable(docs) =>
            Consistent(docs) /\ [job[p] EXCEPT !.reg = docs].reg = docs
      BY <2>3 DEF ConsInv, FilesConsistent, Work
    <3> QED
      BY <2>3, <2>6, <3>1, FallbackTidy
  <2>7. CASE Truncate(p)
    <3>1. Tidy(p, IF pc[p] = "boot" THEN "fill" ELSE "write", job[p])
      BY <2>7, StayTidy DEF Truncate, TypeInv
    <3> QED
      BY <2>3, <3>1
  <2>8. CASE Fill(p)
    BY <2>3, <2>8, StayTidy DEF Fill
  <2>9. CASE Decide(p)
    <3>1. \A r : [job[p] EXCEPT !.reg = r].reg = r
      BY <2>3 DEF Work
    <3>2. CASE Tidy(p, "idle", NoJob)
      BY <3>2, RestTyped
    <3>3. CASE \E r : Consistent(r) /\ Tidy(p, "save", [job[p] EXCEPT !.reg = r])
      BY <3>1, <3>3
    <3> QED
      BY <2>3, <2>9, <3>2, <3>3, DecideTidy
  <2>10. CASE Copy(p)
    <3>1. Readable(runtime) =>
            Consistent(runtime) /\ [job[p] EXCEPT !.reg = runtime].reg = runtime
      BY <2>3 DEF ConsInv, FilesConsistent, Work
    <3> QED
      BY <2>10, <3>1, CopyTidy, RestTyped
  <2>11. CASE Write(p) \/ Snapshot(p) \/ Crash(p)
    BY <2>11, EndTidy, RestTyped DEF Write, Snapshot, Crash
  <2> QED
    BY <2>1, <2>4, <2>5, <2>6, <2>7, <2>8, <2>9, <2>10, <2>11
<1> QED
  BY <1>1, <1>2

\* Neither the registry nor its snapshot ever holds two allocations of a resource
\* that conflict, for any number of processes that read, truncate, write and die
\* in any order (FindConflicts* is asked of what is then written).
THEOREM FilesStayConsistent == RegistryAssumption => (Spec => []FilesConsistent)
<1> SUFFICES ASSUME RegistryAssumption
             PROVE  Spec => []FilesConsistent
  OBVIOUS
<1>1. Init => TypeInv /\ ConsInv
  <2> SUFFICES ASSUME Init
               PROVE  ConsInv
    BY TypeInit
  <2>1. \A p \in Proc : Consistent(job[p].reg)
    BY RestTyped DEF Init
  <2>2. FilesConsistent
    BY DEF Init, FilesConsistent, Readable, RegistryAssumption
  <2> QED
    BY <2>1, <2>2 DEF ConsInv
<1>2. TypeInv /\ ConsInv /\ [Next]_vars => TypeInv' /\ ConsInv'
  BY TypeStep, ConsStep
<1>3. ConsInv => FilesConsistent
  BY DEF ConsInv
<1> QED
  BY <1>1, <1>2, <1>3, PTL DEF Spec

-----------------------------------------------------------------------------
(* Nothing is lost while no two commands overlap: what the files hold is   *)
(* in what the running command is about to write.                          *)

\* The process has the registry in hand.
InHand == {"boot", "fill", "decide", "save", "write"}

Sole == calm => \A p, q \in Proc : pc[p] # "idle" /\ pc[q] # "idle" => p = q

InStep(p) ==
    /\ pc[p] \in {"fallback", "boot", "fill", "write"} => ~Readable(runtime)
    /\ pc[p] \in {"fill", "write"} => runtime = Torn
    /\ pc[p] \in {"boot", "fill"} => Readable(docs) /\ job[p].reg = docs
    /\ pc[p] \in {"save", "write"} => Len(job[p].reg[job[p].cmd.name]) > 0
    /\ pc[p] = "snapshot" => /\ Readable(runtime) /\ job[p].reg = runtime
                             /\ docs = Torn
    /\ pc[p] \in InHand /\ Readable(docs) => Holds(docs) \subseteq Holds(job[p].reg)
    /\ pc[p] \in InHand /\ crashes = 0 => granted \subseteq Holds(job[p].reg)

KeepsInv ==
    /\ Sole
    /\ calm => /\ Readable(docs) /\ Readable(runtime) => Holds(docs) \subseteq Holds(runtime)
               /\ crashes = 0 /\ (\A p \in Proc : pc[p] # "write")
                    => granted \subseteq Holds(Effective)
               /\ \A p \in Proc : InStep(p)

LEMMA TidyNow ==
    ASSUME TypeInv, NEW p \in Proc, NEW l, NEW j, Tidy(p, l, j)
    PROVE  /\ pc'[p] = l /\ job'[p] = j
           /\ \A q \in Proc : q # p => pc'[q] = pc[q] /\ job'[q] = job[q]
BY DEF TypeInv, TypeOK, Tidy

LEMMA HandNow ==
    ASSUME TypeInv, NEW p \in Proc, NEW l, NEW r, Tidy(p, l, [job[p] EXCEPT !.reg = r])
    PROVE  pc'[p] = l /\ job'[p].reg = r /\ job'[p].cmd = job[p].cmd
<1> DEFINE j == [job[p] EXCEPT !.reg = r]
<1>1. j.reg = r /\ j.cmd = job[p].cmd
  BY Now DEF Work
<1> HIDE DEF j
<1>2. Tidy(p, l, j)
  BY DEF j
<1>3. pc'[p] = l /\ job'[p] = j
  BY <1>2, TidyNow
<1> QED
  BY <1>1, <1>3

LEMMA SoleKeeps ==
    ASSUME TypeInv, NEW p \in Proc, NEW l, NEW j, Tidy(p, l, j),
           \A q \in Proc : q # p => pc[q] = "idle",
           Readable(docs') /\ Readable(runtime') => Holds(docs') \subseteq Holds(runtime'),
           crashes' = 0 /\ l # "write" => granted' \subseteq Holds(Effective)',
           InStep(p)'
    PROVE  KeepsInv'
<1>1. pc'[p] = l /\ \A q \in Proc : q # p => pc'[q] = "idle"
  BY TidyNow
<1>2. Sole'
  BY <1>1 DEF Sole
<1>3. \A q \in Proc : q # p => InStep(q)'
  BY <1>1 DEF InStep, InHand
<1>4. (Readable(docs) /\ Readable(runtime) => Holds(docs) \subseteq Holds(runtime))'
  BY DEF Holds, Allocated, Readable, Reg
<1>5. (crashes = 0 /\ (\A q \in Proc : pc[q] # "write") => granted \subseteq Holds(Effective))'
  BY <1>1
<1> QED
  BY <1>2, <1>3, <1>4, <1>5 DEF KeepsInv

LEMMA NotReadable ==
    ASSUME RegistryAssumption
    PROVE  ~Readable(Torn) /\ ~Readable(Missing)
BY DEF RegistryAssumption, Readable

LEMMA KeepsInit ==
    ASSUME RegistryAssumption, Init
    PROVE  KeepsInv
<1>1. \A p \in Proc : pc[p] = "idle"
  BY DEF Init
<1>2. Readable(docs) /\ Readable(runtime) => docs = runtime
  BY NotReadable DEF Init
<1>3. granted = {}
  BY DEF Init
<1> QED
  BY <1>1, <1>2, <1>3 DEF KeepsInv, Sole, InStep, InHand

LEMMA KeepsStep ==
    ASSUME RegistryAssumption, TypeInv, KeepsInv, [Next]_vars
    PROVE  KeepsInv'
<1>1. CASE UNCHANGED vars
  BY <1>1 DEF vars, KeepsInv, Sole, InStep, Readable, Effective, Holds, Allocated
<1>2. CASE Next /\ ~calm'
  BY <1>2 DEF KeepsInv, Sole
<1>3. CASE Next /\ calm'
  <2>1. PICK p \in Proc :
          \/ Begin(p) \/ Load(p) \/ Fallback(p) \/ Truncate(p) \/ Fill(p)
          \/ Decide(p) \/ Write(p) \/ Copy(p) \/ Snapshot(p) \/ Crash(p)
    BY <1>3 DEF Next
  <2>2. calm
    BY <1>3, <2>1
       DEF Begin, Load, Fallback, Truncate, Fill, Decide, Write, Copy, Snapshot, Crash
  <2>3. \A q \in Proc : q # p => pc[q] = "idle"
    BY <1>3, <2>1, <2>2
       DEF Begin, Load, Fallback, Truncate, Fill, Decide, Write, Copy, Snapshot, Crash,
           KeepsInv, Sole
  <2>4. /\ Readable(docs) /\ Readable(runtime) => Holds(docs) \subseteq Holds(runtime)
        /\ crashes = 0 /\ pc[p] # "write" => granted \subseteq Holds(Effective)
        /\ InStep(p)
    <3>1. pc[p] # "write" => \A q \in Proc : pc[q] # "write"
      BY <2>3
    <3> QED
      BY <2>2, <3>1 DEF KeepsInv
  <2>6. CASE Begin(p)
    <3>1. \E l, j : l \in {"copy", "load"} /\ Tidy(p, l, j)
      <4>1. PICK c \in Command :
              Tidy(p, IF c.op = "sync" THEN "copy" ELSE "load",
                   [cmd |-> c, reg |-> emptyRegistry, owner |-> issued + 1])
        BY <2>6, BeginTidy
      <4>2. (IF c.op = "sync" THEN "copy" ELSE "load") \in {"copy", "load"}
        OBVIOUS
      <4> QED
        BY <4>1, <4>2
    <3> PICK l, j : l \in {"copy", "load"} /\ Tidy(p, l, j)
      BY <3>1
    <3>2. /\ runtime' = runtime /\ docs' = docs /\ granted' = granted /\ crashes' = crashes
          /\ pc[p] = "idle"
      BY <2>6 DEF Begin
    <3>3. InStep(p)'
      BY <3>2, TidyNow DEF InStep, InHand
    <3>4. Effective' = Effective
      BY <3>2 DEF Effective, Readable
    <3>5. crashes' = 0 /\ l # "write" => granted' \subseteq Holds(Effective)'
      BY <2>4, <3>2, <3>4 DEF Holds, Allocated
    <3> QED
      BY <2>3, <2>4, <3>2, <3>3, <3>5, SoleKeeps
  <2>7. CASE Load(p)
    <3>2. /\ runtime' = runtime /\ docs' = docs /\ granted' = granted /\ crashes' = crashes
          /\ pc[p] = "load"
      BY <2>7 DEF Load
    <3>3. Effective' = Effective
      BY <3>2 DEF Effective, Readable
    <3>4. \A l : crashes' = 0 /\ l # "write" => granted' \subseteq Holds(Effective)'
      BY <2>4, <3>2, <3>3 DEF Holds, Allocated
    <3>5. CASE Readable(runtime) /\ Tidy(p, "decide", [job[p] EXCEPT !.reg = runtime])
      <4>1. pc'[p] = "decide" /\ job'[p].reg = runtime
        BY <3>5, HandNow
      <4>2. Effective = runtime
        BY <3>5 DEF Effective
      <4>3. InStep(p)'
        BY <2>4, <3>2, <3>5, <4>1, <4>2 DEF InStep, InHand, Readable
      <4> QED
        BY <2>3, <2>4, <3>2, <3>4, <3>5, <4>3, SoleKeeps
    <3>6. CASE ~Readable(runtime) /\ Tidy(p, "fallback", job[p])
      <4>1. pc'[p] = "fallback"
        BY <3>6, TidyNow
      <4>2. InStep(p)'
        BY <3>2, <3>6, <4>1 DEF InStep, InHand, Readable
      <4> QED
        BY <2>3, <2>4, <3>2, <3>4, <3>6, <4>2, SoleKeeps
    <3> QED
      BY <2>7, <3>5, <3>6, LoadTidy
  <2>8. CASE Fallback(p)
    <3>2. /\ runtime' = runtime /\ docs' = docs /\ granted' = granted /\ crashes' = crashes
          /\ pc[p] = "fallback" /\ ~Readable(runtime)
      BY <2>4, <2>8 DEF Fallback, InStep
    <3>3. Effective' = Effective
      BY <3>2 DEF Effective, Readable
    <3>4. \A l : crashes' = 0 /\ l # "write" => granted' \subseteq Holds(Effective)'
      BY <2>4, <3>2, <3>3 DEF Holds, Allocated
    <3>5. CASE Readable(docs) /\ Tidy(p, "boot", [job[p] EXCEPT !.reg = docs])
      <4>1. pc'[p] = "boot" /\ job'[p].reg = docs
        BY <3>5, HandNow
      <4>2. Effective = docs
        BY <3>2, <3>5 DEF Effective
      <4>3. InStep(p)'
        BY <2>4, <3>2, <3>5, <4>1, <4>2 DEF InStep, InHand, Readable
      <4> QED
        BY <2>3, <2>4, <3>2, <3>4, <3>5, <4>3, SoleKeeps
    <3>6. CASE ~Readable(docs) /\ Tidy(p, "decide", job[p])
      <4>1. pc'[p] = "decide" /\ job'[p].reg = emptyRegistry
        BY <3>2, <3>6, TidyNow DEF TypeInv
      <4>2. Effective = emptyRegistry
        BY <3>2, <3>6 DEF Effective
      <4>3. InStep(p)'
        BY <2>4, <3>2, <3>6, <4>1, <4>2 DEF InStep, InHand, Readable
      <4> QED
        BY <2>3, <2>4, <3>2, <3>4, <3>6, <4>3, SoleKeeps
    <3> QED
      BY <2>8, <3>5, <3>6, FallbackTidy
  <2>9. CASE Truncate(p)
    <3>2. /\ runtime' = Torn /\ docs' = docs /\ granted' = granted /\ crashes' = crashes
          /\ pc[p] \in {"boot", "save"}
      BY <2>9 DEF Truncate
    <3> DEFINE l == IF pc[p] = "boot" THEN "fill" ELSE "write"
    <3>3. Tidy(p, l, job[p])
      BY <2>9, StayTidy DEF Truncate, TypeInv
    <3>4. pc'[p] = l /\ job'[p] = job[p]
      BY <3>3, TidyNow
    <3>5. ~Readable(runtime')
      BY <3>2, NotReadable
    <3>6. InStep(p)'
      BY <2>4, <3>2, <3>4, <3>5 DEF InStep, InHand, Readable
    <3>7. crashes' = 0 /\ l # "write" => granted' \subseteq Holds(Effective)'
      <4>1. SUFFICES ASSUME crashes = 0, pc[p] = "boot"
                     PROVE  granted \subseteq Holds(docs) /\ Effective' = docs
        BY <3>2
      <4>2. Readable(docs) /\ job[p].reg = docs
        BY <2>4, <4>1 DEF InStep
      <4>3. Effective' = docs
        BY <3>2, <3>5, <4>2 DEF Effective, Readable
      <4> QED
        BY <2>4, <4>1, <4>2, <4>3 DEF InStep, InHand
    <3> HIDE DEF l
    <3> QED
      BY <2>3, <3>3, <3>5, <3>6, <3>7, SoleKeeps
  <2>10. CASE Fill(p)
    <3>1. runtime = Torn /\ Readable(docs) /\ job[p].reg = docs
          /\ (crashes = 0 => granted \subseteq Holds(docs))
      BY <2>4, <2>10 DEF InStep, InHand, Fill
    <3>2. /\ runtime' = docs /\ docs' = docs /\ granted' = granted /\ crashes' = crashes
      BY <2>10, <3>1 DEF Fill, written
    <3>3. Tidy(p, "decide", job[p])
      BY <2>10, StayTidy DEF Fill
    <3>4. pc'[p] = "decide" /\ job'[p] = job[p]
      BY <3>3, TidyNow
    <3>5. InStep(p)'
      BY <3>1, <3>2, <3>4 DEF InStep, InHand, Readable
    <3>6. Effective' = docs
      BY <3>1, <3>2 DEF Effective, Readable
    <3>7. crashes' = 0 => granted' \subseteq Holds(Effective)'
      BY <3>1, <3>2, <3>6
    <3> QED
      BY <2>3, <3>2, <3>3, <3>5, <3>7, SoleKeeps
  <2>11. CASE Decide(p)
    <3>1. /\ runtime' = runtime /\ docs' = docs /\ granted' = granted /\ crashes' = crashes
          /\ pc[p] = "decide"
      BY <2>11 DEF Decide
    <3>2. Effective' = Effective
      BY <3>1 DEF Effective, Readable
    <3>3. \A l : crashes' = 0 /\ l # "write" => granted' \subseteq Holds(Effective)'
      BY <2>4, <3>1, <3>2 DEF Holds, Allocated
    <3>4. CASE Tidy(p, "idle", NoJob)
      <4>1. pc'[p] = "idle"
        BY <3>4, TidyNow
      <4>2. InStep(p)'
        BY <4>1 DEF InStep, InHand
      <4> QED
        BY <2>3, <2>4, <3>1, <3>3, <3>4, <4>2, SoleKeeps
    <3>5. CASE \E r \in Reg :
                  /\ Holds(job[p].reg) \subseteq Holds(r)
                  /\ Len(r[job[p].cmd.name]) > 0
                  /\ Tidy(p, "save", [job[p] EXCEPT !.reg = r])
      <4>1. PICK r \in Reg :
                  /\ Holds(job[p].reg) \subseteq Holds(r)
                  /\ Len(r[job[p].cmd.name]) > 0
                  /\ Tidy(p, "save", [job[p] EXCEPT !.reg = r])
        BY <3>5
      <4>2. pc'[p] = "save" /\ job'[p].reg = r /\ job'[p].cmd = job[p].cmd
        BY <4>1, HandNow
      <4>3. InStep(p)'
        BY <2>4, <3>1, <4>1, <4>2 DEF InStep, InHand, Readable
      <4> QED
        BY <2>3, <2>4, <3>1, <3>3, <4>1, <4>3, SoleKeeps
    <3> QED
      BY <2>11, <3>4, <3>5, DecideTidy
  <2>12. CASE Write(p)
    <3>1. Asking(job[p].cmd) /\ job[p].cmd.name \in Name
      BY <2>12, AskedTyped, Now DEF Write, TypeInv
    <3> DEFINE reg == job[p].reg
               g == [name |-> job[p].cmd.name, of |-> reg[job[p].cmd.name][Len(reg[job[p].cmd.name])]]
    <3>2. /\ runtime = Torn /\ Len(reg[job[p].cmd.name]) > 0 /\ reg \in Reg
          /\ Readable(docs) => Holds(docs) \subseteq Holds(reg)
          /\ crashes = 0 => granted \subseteq Holds(reg)
      BY <2>4, <2>12, Now DEF InStep, InHand, Write
    <3>3. /\ runtime' = reg /\ docs' = docs /\ crashes' = crashes
          /\ granted' = granted \cup {g}
      BY <2>12, <3>2 DEF Write, written
    <3>4. g \in Holds(reg)
      BY <3>1, <3>2, LastHeld
    <3>5. Tidy(p, "idle", NoJob)
      BY <2>12, EndTidy DEF Write
    <3>6. InStep(p)'
      BY <3>5, TidyNow DEF InStep, InHand
    <3> HIDE DEF g, reg
    <3>7. Effective' = reg
      BY <3>2, <3>3 DEF Effective, Readable
    <3>8. crashes' = 0 => granted' \subseteq Holds(Effective)'
      BY <3>2, <3>3, <3>4, <3>7
    <3> QED
      BY <2>3, <3>2, <3>3, <3>5, <3>6, <3>8, SoleKeeps
  <2>13. CASE Copy(p)
    <3>1. /\ runtime' = runtime /\ granted' = granted /\ crashes' = crashes /\ pc[p] = "copy"
      BY <2>13 DEF Copy
    <3>2. CASE /\ Readable(runtime) /\ docs' = Torn
               /\ Tidy(p, "snapshot", [job[p] EXCEPT !.reg = runtime])
      <4>1. pc'[p] = "snapshot" /\ job'[p].reg = runtime
        BY <3>2, HandNow
      <4>2. InStep(p)'
        BY <3>1, <3>2, <4>1 DEF InStep, InHand, Readable
      <4>3. Effective' = Effective
        BY <3>1, <3>2 DEF Effective, Readable
      <4>4. crashes' = 0 => granted' \subseteq Holds(Effective)'
        BY <2>4, <3>1, <4>3
      <4>5. ~Readable(docs')
        BY <3>2, NotReadable
      <4> QED
        BY <2>3, <3>2, <4>2, <4>4, <4>5, SoleKeeps
    <3>3. CASE UNCHANGED docs /\ Tidy(p, "idle", NoJob)
      <4>1. InStep(p)'
        BY <3>3, TidyNow DEF InStep, InHand
      <4>2. Effective' = Effective
        BY <3>1, <3>3 DEF Effective, Readable
      <4>3. crashes' = 0 => granted' \subseteq Holds(Effective)'
        BY <2>4, <3>1, <4>2
      <4> QED
        BY <2>3, <2>4, <3>1, <3>3, <4>1, <4>3, SoleKeeps
    <3> QED
      BY <2>13, <3>2, <3>3, CopyTidy
  <2>14. CASE Snapshot(p)
    <3>1. Readable(runtime) /\ job[p].reg = runtime /\ docs = Torn /\ pc[p] = "snapshot"
      BY <2>4, <2>14 DEF InStep, Snapshot
    <3>2. /\ runtime' = runtime /\ granted' = granted /\ crashes' = crashes
          /\ docs' = runtime
      BY <2>14, <3>1 DEF Snapshot, written
    <3>3. Tidy(p, "idle", NoJob)
      BY <2>14, EndTidy DEF Snapshot
    <3>4. InStep(p)'
      BY <3>3, TidyNow DEF InStep, InHand
    <3>5. Effective' = Effective
      BY <3>1, <3>2 DEF Effective, Readable
    <3>6. crashes' = 0 => granted' \subseteq Holds(Effective)'
      BY <2>4, <3>1, <3>2, <3>5
    <3> QED
      BY <2>3, <3>2, <3>3, <3>4, <3>6, SoleKeeps
  <2>15. CASE Crash(p)
    <3>1. /\ runtime' = runtime /\ docs' = docs /\ crashes' = crashes + 1 /\ end(p)
      BY <2>15 DEF Crash
    <3>2. Tidy(p, "idle", NoJob)
      BY <3>1, EndTidy
    <3>3. InStep(p)'
      BY <3>2, TidyNow DEF InStep, InHand
    <3>4. crashes' # 0
      BY <3>1, Now
    <3> QED
      BY <2>3, <2>4, <3>1, <3>2, <3>3, <3>4, SoleKeeps
  <2> QED
    BY <2>1, <2>6, <2>7, <2>8, <2>9, <2>10, <2>11, <2>12, <2>13, <2>14, <2>15
<1> QED
  BY <1>1, <1>2, <1>3

\* When commands run one after another, whatever `allocate` has answered "ok" is in
\* the registry the next command loads, as long as none is killed; and killed or
\* not, what the snapshot holds is never lost (LoadRegistry's fallback,
\* saveRegistryLocked, SyncToProject).
THEOREM NothingIsLost == RegistryAssumption => (Spec => [](GrantsKept /\ SnapshotKept))
<1> SUFFICES ASSUME RegistryAssumption
             PROVE  Spec => [](GrantsKept /\ SnapshotKept)
  OBVIOUS
<1>1. Init => TypeInv /\ KeepsInv
  BY TypeInit, KeepsInit
<1>2. TypeInv /\ KeepsInv /\ [Next]_vars => TypeInv' /\ KeepsInv'
  BY TypeStep, KeepsStep
<1>3. KeepsInv => GrantsKept
  BY DEF KeepsInv, GrantsKept
<1>4. KeepsInv => SnapshotKept
  BY DEF KeepsInv, SnapshotKept, Effective
<1> QED
  BY <1>1, <1>2, <1>3, <1>4, PTL DEF Spec
=============================================================================
