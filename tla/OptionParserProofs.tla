--------------------------- MODULE OptionParserProofs ---------------------------
(***************************************************************************)
(* For every command line: parseArgs looks at no token beyond argv, gives  *)
(* an option of a well-formed line the value that was written for it, and  *)
(* the positionals in their order; a documented line reaches its handler,  *)
(* no key is touched on a line that does not name one, and parseId reads   *)
(* every identifier as the number it is written for.                       *)
(***************************************************************************)
EXTENDS OptionParser, FiniteSetTheorems, WellFoundedInduction, TLAPS

(* Where the loop is, and that all it has collected comes from the line.   *)
LoopInv ==
    /\ argv \in Lines /\ argv \in Seq(Token) /\ long \in LongWidths
    /\ i \in 1 .. Len(argv) + 1
    /\ DOMAIN opt \subseteq Options
    /\ pos \in Seq(Token) /\ Len(pos) < i
    /\ \A n \in 1 .. Len(pos) : \E k \in DOMAIN argv : pos[n] = argv[k]
    /\ phase \in {"parsing", "assign", "run", "done"}
    /\ phase # "parsing" => i = Len(argv) + 1

(* What comes after the loop. *)
EndInv ==
    /\ args.group = "" \/ \E k \in DOMAIN argv : args.group = argv[k].text
    /\ outcome.kind \in {"none", "usage", "throw", "rng", "request"}
    /\ phase = "done" => outcome.kind # "none"
    /\ phase # "done" => outcome = None

LEMMA InitLoop == Init => LoopInv /\ EndInv
<1> SUFFICES ASSUME Init PROVE LoopInv /\ EndInv
  OBVIOUS
<1>1. argv \in Seq(Token)
  <2>1. argv \in Lines
    BY DEF Init
  <2> QED
    BY <2>1, LinesAssumption
<1>2. Len(argv) \in Nat
  BY <1>1
<1>3. DOMAIN opt = {} /\ Len(pos) = 0 /\ pos \in Seq(Token)
  <2>1. opt = << >> /\ pos = << >>
    BY DEF Init
  <2> QED
    BY <2>1
<1>4. LoopInv
  <2>1. i = 1 /\ phase = "parsing" /\ argv \in Lines /\ long \in LongWidths
    BY DEF Init
  <2>2. \A n \in 1 .. Len(pos) : \E k \in DOMAIN argv : pos[n] = argv[k]
    BY <1>3
  <2>3. i \in 1 .. Len(argv) + 1 /\ Len(pos) < i /\ DOMAIN opt \subseteq Options
    BY <1>2, <1>3, <2>1
  <2> QED
    BY <1>1, <1>3, <2>1, <2>2, <2>3 DEF LoopInv
<1>5. EndInv
  BY DEF Init, EndInv, Empty, None
<1> QED
  BY <1>4, <1>5

(* Set adds its option, and replaces the value of no other.                *)
LEMMA SetAdds ==
    ASSUME NEW name, NEW t, Set(name, t)
    PROVE  /\ DOMAIN opt' = DOMAIN opt \cup {name}
           /\ opt'[name] = t
           /\ \A o \in DOMAIN opt : o # name => opt'[o] = opt[o]
BY DEF Set

(* One token, or one option with its value, is taken in a step.            *)
LEMMA LoopStep ==
    ASSUME LoopInv, TakeForce \/ TakeOption \/ TakeLastOption \/ TakePositional
    PROVE  LoopInv' /\ input' = input /\ phase' = phase /\ args' = args /\ outcome' = outcome
<1>1. /\ Len(argv) \in Nat /\ i \in Nat /\ i <= Len(argv) /\ i \in DOMAIN argv
      /\ argv[i] \in Token /\ phase = "parsing"
  BY DEF LoopInv, InLoop, TakeForce, TakeOption, TakeLastOption, TakePositional
<1>2. /\ argv' = argv /\ long' = long /\ phase' = phase /\ args' = args /\ outcome' = outcome
  BY DEF TakeForce, TakeOption, TakeLastOption, TakePositional, input
<1>3. CASE TakePositional
  <2>1. pos' = Append(pos, argv[i]) /\ i' = i + 1 /\ opt' = opt
    BY <1>3 DEF TakePositional
  <2>2. pos' \in Seq(Token) /\ Len(pos') = Len(pos) + 1
    BY <1>1, <2>1 DEF LoopInv
  <2>3. \A n \in 1 .. Len(pos') : \E k \in DOMAIN argv : pos'[n] = argv[k]
    <3> SUFFICES ASSUME NEW n \in 1 .. Len(pos')
                 PROVE  \E k \in DOMAIN argv : pos'[n] = argv[k]
      OBVIOUS
    <3>1. CASE n = Len(pos) + 1
      BY <3>1, <1>1, <2>1 DEF LoopInv
    <3>2. CASE n # Len(pos) + 1
      <4>1. n \in 1 .. Len(pos) /\ pos'[n] = pos[n]
        BY <3>2, <1>1, <2>1, <2>2 DEF LoopInv
      <4> QED
        BY <4>1 DEF LoopInv
    <3> QED
      BY <3>1, <3>2
  <2> QED
    BY <1>1, <1>2, <2>1, <2>2, <2>3 DEF LoopInv, input
<1>4. CASE TakeForce \/ TakeOption \/ TakeLastOption
  <2>1. pos' = pos /\ i' \in {i + 1, i + 2} /\ i' <= Len(argv) + 1
    BY <1>1, <1>4 DEF TakeForce, TakeOption, TakeLastOption
  <2>2. \E o \in Options : \E t : Set(o, t)
    <3>1. argv[i].text \in Options
      BY <1>4 DEF TakeForce, TakeOption, TakeLastOption, Dashed, Options
    <3>2. \E t : Set(argv[i].text, t)
      BY <1>4 DEF TakeForce, TakeOption, TakeLastOption
    <3> QED
      BY <3>1, <3>2
  <2>3. DOMAIN opt' \subseteq Options
    <3>1. PICK o \in Options : \E t : Set(o, t)
      BY <2>2
    <3>2. PICK t : Set(o, t)
      BY <3>1
    <3>3. DOMAIN opt' = DOMAIN opt \cup {o}
      BY <3>2, SetAdds
    <3> QED
      BY <3>3 DEF LoopInv
  <2>4. i' \in 1 .. Len(argv) + 1 /\ Len(pos') < i'
    BY <1>1, <2>1 DEF LoopInv
  <2>5. \A n \in 1 .. Len(pos') : \E k \in DOMAIN argv' : pos'[n] = argv'[k]
    BY <1>2, <2>1 DEF LoopInv
  <2>6. argv' \in Lines /\ argv' \in Seq(Token) /\ long' \in LongWidths /\ pos' \in Seq(Token)
    BY <1>2, <2>1 DEF LoopInv
  <2>7. i' \in 1 .. Len(argv') + 1 /\ phase' = "parsing"
    BY <1>1, <1>2, <2>4
  <2>8. LoopInv'
    BY <2>3, <2>4, <2>5, <2>6, <2>7 DEF LoopInv
  <2> QED
    BY <1>2, <2>8 DEF input
<1> QED
  BY <1>3, <1>4

LEMMA EndStep ==
    ASSUME LoopInv, EndInv, EndLoop \/ Assign \/ Run
    PROVE  LoopInv' /\ EndInv'
<1>1. argv' = argv /\ long' = long /\ i' = i /\ opt' = opt /\ pos' = pos
  BY DEF EndLoop, Assign, Run, input
<1>2. i = Len(argv) + 1 /\ phase' \in {"assign", "run", "done"}
  <2>1. Len(argv) \in Nat /\ i \in 1 .. Len(argv) + 1
    BY DEF LoopInv
  <2>2. CASE EndLoop
    BY <2>1, <2>2 DEF EndLoop
  <2>3. CASE Assign \/ Run
    <3>1. phase \in {"assign", "run"} /\ phase' \in {"run", "done"}
      BY <2>3 DEF Assign, Run
    <3> QED
      BY <3>1 DEF LoopInv
  <2> QED
    BY <2>2, <2>3
<1>3. LoopInv'
  BY <1>1, <1>2 DEF LoopInv
<1>4. CASE EndLoop
  <2>1. phase = "parsing" /\ phase' = "assign" /\ args' = args /\ outcome' = outcome
    BY <1>4 DEF EndLoop
  <2> QED
    BY <1>1, <1>3, <2>1 DEF EndInv
<1>5. CASE Assign
  <2>1. args'.group = Positional(1).text
    BY <1>5 DEF Assign
  <2>2. \/ Positional(1).text = ""
        \/ \E k \in DOMAIN argv : Positional(1).text = argv[k].text
    <3>1. CASE 1 <= Len(pos)
      <4>1. PICK k \in DOMAIN argv : pos[1] = argv[k]
        BY <3>1 DEF LoopInv
      <4> QED
        BY <3>1, <4>1 DEF Positional
    <3>2. CASE ~(1 <= Len(pos))
      BY <3>2 DEF Positional, Empty
    <3> QED
      BY <3>1, <3>2
  <2>3. phase = "assign" /\ phase' = "run" /\ outcome' = outcome
    BY <1>5 DEF Assign
  <2>4. outcome' = None /\ outcome'.kind = "none"
    <3>1. outcome = None
      BY <2>3 DEF EndInv
    <3>2. None.kind = "none"
      BY DEF None
    <3> QED
      BY <2>3, <3>1, <3>2
  <2>5. args'.group = "" \/ \E k \in DOMAIN argv' : args'.group = argv'[k].text
    BY <1>1, <2>1, <2>2
  <2> QED
    BY <1>3, <2>3, <2>4, <2>5 DEF EndInv
<1>6. CASE Run
  <2>1. Asked.kind \in {"usage", "throw", "rng", "request"}
    BY DEF Asked, Usage, Throw, Count, Request
  <2>2. args' = args /\ outcome' = Asked /\ phase' = "done"
    BY <1>6 DEF Run
  <2>3. args'.group = "" \/ \E k \in DOMAIN argv' : args'.group = argv'[k].text
    BY <1>1, <2>2 DEF EndInv
  <2> QED
    BY <1>3, <2>1, <2>2, <2>3 DEF EndInv
<1> QED
  BY <1>3, <1>4, <1>5, <1>6

LEMMA LoopHolds == Spec => [](LoopInv /\ EndInv)
<1>1. Init => LoopInv /\ EndInv
  BY InitLoop
<1>2. ASSUME LoopInv /\ EndInv, [Next]_vars
      PROVE  LoopInv' /\ EndInv'
  <2>1. CASE TakeForce \/ TakeOption \/ TakeLastOption \/ TakePositional
    BY <1>2, <2>1, LoopStep DEF EndInv, input
  <2>2. CASE EndLoop \/ Assign \/ Run
    BY <1>2, <2>2, EndStep
  <2>3. CASE UNCHANGED vars
    BY <1>2, <2>3 DEF vars, LoopInv, EndInv
  <2> QED
    BY <1>2, <2>1, <2>2, <2>3 DEF Next
<1> QED
  BY <1>1, <1>2, PTL DEF Spec

(* Every line is parsed within its bounds. *)
THEOREM ParserTyping == Spec => []TypeOK
<1>1. LoopInv /\ EndInv => TypeOK
  <2> SUFFICES ASSUME LoopInv, EndInv PROVE TypeOK
    OBVIOUS
  <2>1. outcome = None <=> phase # "done"
    <3>1. None.kind = "none"
      BY DEF None
    <3>2. CASE phase = "done"
      BY <3>1, <3>2 DEF EndInv
    <3>3. CASE phase # "done"
      BY <3>3 DEF EndInv
    <3> QED
      BY <3>2, <3>3
  <2>2. args.group \in {Empty.text} \cup { argv[k].text : k \in DOMAIN argv }
    BY DEF EndInv, Empty
  <2> QED
    BY <2>1, <2>2 DEF LoopInv, EndInv, TypeOK
<1> QED
  BY <1>1, LoopHolds, PTL

-----------------------------------------------------------------------------
(* What is known of a well-formed line when the tokens before i are taken: *)
(* the next token is no value, and opt holds what was written so far.      *)
WrittenInv ==
    WellFormed =>
        /\ i <= Len(argv) => ~IsValue(i)
        /\ \A o : o \in DOMAIN opt <=>
                     \E k \in 1 .. i - 1 : Dashed(argv[k]) /\ argv[k].text = o
        /\ \A k \in 1 .. i - 1 :
              IsOption(k) /\ (\A j \in 1 .. i - 1 : j > k => argv[j].text # argv[k].text)
                  => opt[argv[k].text] = argv[k + 1]

(* A step takes the tokens from i to i' - 1; which of them are options, or *)
(* give an option a value, decides what becomes of opt.                    *)
LEMMA WrittenStep ==
    ASSUME LoopInv, WrittenInv,
           TakeForce \/ TakeOption \/ TakeLastOption \/ TakePositional
    PROVE  WrittenInv'
<1>1. /\ Len(argv) \in Nat /\ i \in 1 .. Len(argv) /\ DOMAIN argv = 1 .. Len(argv)
      /\ argv' = argv
  BY DEF LoopInv, InLoop, TakeForce, TakeOption, TakeLastOption, TakePositional, input
<1>2. WellFormed' <=> WellFormed
  BY <1>1 DEF WellFormed, IsOption, Dashed
<1> SUFFICES ASSUME WellFormed
             PROVE  /\ i' <= Len(argv) => ~(i' > 1 /\ IsOption(i' - 1))
                    /\ \A o : o \in DOMAIN opt' <=>
                                 \E k \in 1 .. i' - 1 : Dashed(argv[k]) /\ argv[k].text = o
                    /\ \A k \in 1 .. i' - 1 :
                          IsOption(k) /\ (\A j \in 1 .. i' - 1 : j > k => argv[j].text # argv[k].text)
                              => opt'[argv[k].text] = argv[k + 1]
  BY <1>1, <1>2 DEF WrittenInv, IsValue, IsOption, Dashed
<1>3. /\ \A o : o \in DOMAIN opt <=>
                   \E k \in 1 .. i - 1 : Dashed(argv[k]) /\ argv[k].text = o
      /\ \A k \in 1 .. i - 1 :
            IsOption(k) /\ (\A j \in 1 .. i - 1 : j > k => argv[j].text # argv[k].text)
                => opt[argv[k].text] = argv[k + 1]
  BY DEF WrittenInv
<1>4. CASE TakePositional
  <2>1. i' = i + 1 /\ opt' = opt /\ ~Dashed(argv[i]) /\ ~IsOption(i)
    BY <1>4 DEF TakePositional, IsOption
  <2>2. \A k \in 1 .. i' - 1 : k \in 1 .. i - 1 \/ k = i
    BY <1>1, <2>1
  <2>3. \A k \in 1 .. i - 1 : k \in 1 .. i' - 1
    BY <1>1, <2>1
  <2>4. i' - 1 = i
    BY <1>1, <2>1
  <2> QED
    BY <1>3, <2>1, <2>2, <2>3, <2>4
<1>5. CASE TakeForce
  <2>1. i' = i + 1 /\ argv[i].text = "--force" /\ Set("--force", One)
    BY <1>5 DEF TakeForce
  <2>2. ~IsOption(i) /\ Dashed(argv[i])
    BY <2>1 DEF IsOption, Dashed, Options
  <2>3. /\ DOMAIN opt' = DOMAIN opt \cup {"--force"}
        /\ \A o \in DOMAIN opt : o # "--force" => opt'[o] = opt[o]
    BY <2>1, SetAdds
  <2>4. \A k \in 1 .. i' - 1 : k \in 1 .. i - 1 \/ k = i
    BY <1>1, <2>1
  <2>5. \A k \in 1 .. i - 1 : k \in 1 .. i' - 1
    BY <1>1, <2>1
  <2>6. i' - 1 = i /\ i \in 1 .. i' - 1
    BY <1>1, <2>1
  <2>7. \A k \in 1 .. i - 1 : IsOption(k) =>
            argv[k].text # "--force" /\ argv[k].text \in DOMAIN opt
    BY <1>3 DEF IsOption
  <2>8. \A o : o \in DOMAIN opt' <=>
                 \E k \in 1 .. i' - 1 : Dashed(argv[k]) /\ argv[k].text = o
    BY <1>3, <2>1, <2>2, <2>3, <2>4, <2>5, <2>6
  <2>9. \A k \in 1 .. i' - 1 :
            IsOption(k) /\ (\A j \in 1 .. i' - 1 : j > k => argv[j].text # argv[k].text)
                => opt'[argv[k].text] = argv[k + 1]
    BY <1>3, <2>2, <2>3, <2>4, <2>5, <2>7
  <2> QED
    BY <2>2, <2>6, <2>8, <2>9
<1>6. CASE TakeOption
  <2>1. /\ i' = i + 2 /\ Dashed(argv[i]) /\ argv[i].text # "--force" /\ i + 1 <= Len(argv)
        /\ Set(argv[i].text, argv[i + 1])
    BY <1>6 DEF TakeOption
  <2>2. IsOption(i) /\ i \in DOMAIN argv
    BY <1>1, <2>1 DEF IsOption
  <2>3. ~Dashed(argv[i + 1]) /\ ~IsOption(i + 1)
    BY <2>2 DEF WellFormed, IsOption
  <2>4. /\ DOMAIN opt' = DOMAIN opt \cup {argv[i].text}
        /\ opt'[argv[i].text] = argv[i + 1]
        /\ \A o \in DOMAIN opt : o # argv[i].text => opt'[o] = opt[o]
    BY <2>1, SetAdds
  <2>5. \A k \in 1 .. i' - 1 : k \in 1 .. i - 1 \/ k = i \/ k = i + 1
    BY <1>1, <2>1
  <2>6. \A k \in 1 .. i - 1 : k \in 1 .. i' - 1 /\ i > k
    BY <1>1, <2>1
  <2>7. i' - 1 = i + 1 /\ i \in 1 .. i' - 1
    BY <1>1, <2>1
  <2>8. \A k \in 1 .. i - 1 : IsOption(k) => argv[k].text \in DOMAIN opt
    BY <1>3 DEF IsOption
  <2>9. \A o : o \in DOMAIN opt' <=>
                 \E k \in 1 .. i' - 1 : Dashed(argv[k]) /\ argv[k].text = o
    BY <1>3, <2>1, <2>3, <2>4, <2>5, <2>6, <2>7
  <2>10. ASSUME NEW k \in 1 .. i' - 1, IsOption(k),
                \A j \in 1 .. i' - 1 : j > k => argv[j].text # argv[k].text
         PROVE  opt'[argv[k].text] = argv[k + 1]
    <3>1. CASE k = i
      BY <3>1, <2>4
    <3>2. CASE k \in 1 .. i - 1
      <4>1. argv[i].text # argv[k].text
        BY <3>2, <2>6, <2>7, <2>10
      <4>2. opt[argv[k].text] = argv[k + 1]
        BY <3>2, <1>3, <2>6, <2>10
      <4> QED
        BY <3>2, <4>1, <4>2, <2>4, <2>8, <2>10
    <3> QED
      BY <3>1, <3>2, <2>3, <2>5, <2>10
  <2> QED
    BY <2>3, <2>7, <2>9, <2>10
<1>7. CASE TakeLastOption
  <2>1. i = Len(argv) /\ IsOption(i) /\ i \in DOMAIN argv
    BY <1>1, <1>7 DEF TakeLastOption, IsOption
  <2> QED
    BY <1>1, <2>1 DEF WellFormed
<1> QED
  BY <1>4, <1>5, <1>6, <1>7

LEMMA InitWritten == Init => WrittenInv
<1> SUFFICES ASSUME Init PROVE WrittenInv
  OBVIOUS
<1>1. i = 1 /\ opt = << >>
  BY DEF Init
<1>2. i = 1 /\ DOMAIN opt = {} /\ 1 .. i - 1 = {}
  BY <1>1
<1> QED
  BY <1>2 DEF WrittenInv, IsValue

LEMMA WrittenHolds == Spec => []WrittenInv
<1>1. ASSUME LoopInv, WrittenInv, [Next]_vars
      PROVE  WrittenInv'
  <2>1. CASE TakeForce \/ TakeOption \/ TakeLastOption \/ TakePositional
    BY <1>1, <2>1, WrittenStep
  <2>2. CASE EndLoop \/ Assign \/ Run \/ UNCHANGED vars
    <3>1. argv' = argv /\ i' = i /\ opt' = opt
      BY <2>2 DEF EndLoop, Assign, Run, vars, input
    <3> QED
      BY <1>1, <3>1 DEF WrittenInv, WellFormed, IsValue, IsOption, Dashed
  <2> QED
    BY <1>1, <2>1, <2>2 DEF Next
<1> QED
  BY <1>1, InitWritten, LoopHolds, PTL DEF Spec

(* Whatever the order in which a well-formed line of any length is written *)
(* each option gets its own last value, and there are no others.           *)
THEOREM OptionsRead == Spec => []OptionsAsWritten
<1>1. LoopInv /\ WrittenInv => OptionsAsWritten
  <2> SUFFICES ASSUME LoopInv, WrittenInv, WellFormed, phase # "parsing"
               PROVE  /\ DOMAIN opt = { argv[k].text : k \in { k \in DOMAIN argv : Dashed(argv[k]) } }
                      /\ \A k \in DOMAIN argv : IsOption(k) /\ IsLast(k) => opt[argv[k].text] = argv[k + 1]
    BY DEF OptionsAsWritten
  <2>1. 1 .. i - 1 = DOMAIN argv
    BY DEF LoopInv
  <2>2. \A o : o \in DOMAIN opt <=> \E k \in DOMAIN argv : Dashed(argv[k]) /\ argv[k].text = o
    BY <2>1 DEF WrittenInv
  <2>3. \A k \in DOMAIN argv :
            IsOption(k) /\ (\A j \in DOMAIN argv : j > k => argv[j].text # argv[k].text)
                => opt[argv[k].text] = argv[k + 1]
    BY <2>1 DEF WrittenInv
  <2> QED
    BY <2>2, <2>3 DEF IsLast
<1> QED
  BY <1>1, LoopHolds, WrittenHolds, PTL

-----------------------------------------------------------------------------
(* The words of the line up to position n. *)
PlainTo(n) == { k \in 1 .. n : IsPlain(k) }

(* The words in front of position i are the positionals, each at its rank. *)
PlainInv ==
    WellFormed =>
        /\ Len(pos) = Cardinality(PlainTo(i - 1))
        /\ \A k \in PlainTo(i - 1) : pos[Cardinality(PlainTo(k))] = argv[k]

LEMMA PlainIsFinite ==
    ASSUME NEW n \in Nat
    PROVE  IsFiniteSet(PlainTo(n)) /\ Cardinality(PlainTo(n)) \in Nat
<1>1. IsFiniteSet(1 .. n)
  BY FS_Interval
<1>2. PlainTo(n) \subseteq 1 .. n
  BY DEF PlainTo
<1> QED
  BY <1>1, <1>2, FS_Subset, FS_CardinalityType

(* The rank of a word lies between one and the number of words. *)
LEMMA RankBounds ==
    ASSUME NEW n \in Nat, NEW k \in PlainTo(n)
    PROVE  Cardinality(PlainTo(k)) \in 1 .. Cardinality(PlainTo(n))
<1>1. k \in Nat /\ k \in PlainTo(k) /\ PlainTo(k) \subseteq PlainTo(n)
  BY DEF PlainTo
<1>2. /\ IsFiniteSet(PlainTo(n)) /\ Cardinality(PlainTo(n)) \in Nat
      /\ IsFiniteSet(PlainTo(k)) /\ Cardinality(PlainTo(k)) \in Nat
  BY <1>1, PlainIsFinite
<1>3. Cardinality(PlainTo(k)) <= Cardinality(PlainTo(n))
  BY <1>1, <1>2, FS_Subset
<1>4. Cardinality(PlainTo(k)) # 0
  BY <1>1, <1>2, FS_EmptySet
<1> QED
  BY <1>2, <1>3, <1>4

(* Taking a word appends it; taking an option with its value, nothing.     *)
LEMMA PlainStep ==
    ASSUME LoopInv, WrittenInv, PlainInv,
           TakeForce \/ TakeOption \/ TakeLastOption \/ TakePositional
    PROVE  PlainInv'
<1>1. /\ Len(argv) \in Nat /\ i \in 1 .. Len(argv) /\ i \in DOMAIN argv
      /\ argv' = argv /\ i - 1 \in Nat
  BY DEF LoopInv, InLoop, TakeForce, TakeOption, TakeLastOption, TakePositional, input
<1>2. WellFormed' <=> WellFormed
  BY <1>1 DEF WellFormed, IsOption, Dashed
<1> SUFFICES ASSUME WellFormed
             PROVE  /\ Len(pos') = Cardinality(PlainTo(i' - 1))
                    /\ \A k \in PlainTo(i' - 1) : pos'[Cardinality(PlainTo(k))] = argv[k]
  BY <1>1, <1>2 DEF PlainInv, PlainTo, IsPlain, IsValue, IsOption, Dashed
<1>3. /\ Len(pos) = Cardinality(PlainTo(i - 1))
      /\ \A k \in PlainTo(i - 1) : pos[Cardinality(PlainTo(k))] = argv[k]
      /\ ~IsValue(i)
  BY <1>1 DEF PlainInv, WrittenInv
<1>4. CASE TakePositional
  <2>1. i' - 1 = i /\ pos' = Append(pos, argv[i]) /\ pos \in Seq(Token)
    BY <1>1, <1>4 DEF TakePositional, LoopInv
  <2>2. IsPlain(i)
    BY <1>3, <1>4 DEF TakePositional, IsPlain
  <2>3. PlainTo(i) = PlainTo(i - 1) \cup {i} /\ i \notin PlainTo(i - 1)
    BY <1>1, <2>2 DEF PlainTo
  <2>4. Cardinality(PlainTo(i)) = Cardinality(PlainTo(i - 1)) + 1
    BY <1>1, <2>3, PlainIsFinite, FS_AddElement
  <2>5. Len(pos') = Len(pos) + 1 /\ pos'[Len(pos) + 1] = argv[i]
        /\ \A n \in 1 .. Len(pos) : pos'[n] = pos[n]
    BY <2>1
  <2>6. ASSUME NEW k \in PlainTo(i)
        PROVE  pos'[Cardinality(PlainTo(k))] = argv[k]
    <3>1. CASE k = i
      BY <3>1, <1>3, <2>4, <2>5
    <3>2. CASE k \in PlainTo(i - 1)
      <4>1. Cardinality(PlainTo(k)) \in 1 .. Len(pos)
        BY <3>2, <1>1, <1>3, RankBounds
      <4> QED
        BY <3>2, <4>1, <1>3, <2>5
    <3> QED
      BY <3>1, <3>2, <2>3
  <2> QED
    BY <1>3, <2>1, <2>4, <2>5, <2>6
<1>5. CASE TakeForce
  <2>1. i' - 1 = i /\ pos' = pos /\ Dashed(argv[i])
    BY <1>1, <1>5 DEF TakeForce, Dashed, Options
  <2>2. PlainTo(i) = PlainTo(i - 1)
    BY <1>1, <2>1 DEF PlainTo, IsPlain
  <2> QED
    BY <1>3, <2>1, <2>2
<1>6. CASE TakeOption
  <2>1. i' - 1 = i + 1 /\ pos' = pos /\ Dashed(argv[i]) /\ IsOption(i)
    BY <1>1, <1>6 DEF TakeOption, IsOption
  <2>2. ~IsPlain(i) /\ ~IsPlain(i + 1)
    <3>1. (i + 1) - 1 = i /\ i + 1 > 1
      BY <1>1
    <3> QED
      BY <2>1, <3>1 DEF IsPlain, IsValue
  <2>3. PlainTo(i + 1) = PlainTo(i - 1)
    <3>1. \A k \in 1 .. i + 1 : k \in 1 .. i - 1 \/ k = i \/ k = i + 1
      BY <1>1
    <3>2. \A k \in 1 .. i - 1 : k \in 1 .. i + 1
      BY <1>1
    <3> QED
      BY <2>2, <3>1, <3>2 DEF PlainTo
  <2> QED
    BY <1>3, <2>1, <2>3
<1>7. CASE TakeLastOption
  <2>1. i = Len(argv) /\ IsOption(i) /\ i \in DOMAIN argv
    BY <1>1, <1>7 DEF TakeLastOption, IsOption
  <2> QED
    BY <1>1, <2>1 DEF WellFormed
<1> QED
  BY <1>4, <1>5, <1>6, <1>7

LEMMA PlainHolds == Spec => []PlainInv
<1>1. Init => PlainInv
  <2> SUFFICES ASSUME Init PROVE PlainInv
    OBVIOUS
  <2>1. i - 1 = 0 /\ Len(pos) = 0
    <3>1. i = 1 /\ pos = << >>
      BY DEF Init
    <3> QED
      BY <3>1
  <2>2. PlainTo(0) = {}
    BY DEF PlainTo
  <2> QED
    BY <2>1, <2>2, FS_EmptySet DEF PlainInv
<1>2. ASSUME LoopInv, WrittenInv, PlainInv, [Next]_vars
      PROVE  PlainInv'
  <2>1. CASE TakeForce \/ TakeOption \/ TakeLastOption \/ TakePositional
    BY <1>2, <2>1, PlainStep
  <2>2. CASE EndLoop \/ Assign \/ Run \/ UNCHANGED vars
    <3>1. argv' = argv /\ i' = i /\ pos' = pos
      BY <2>2 DEF EndLoop, Assign, Run, vars, input
    <3> QED
      BY <1>2, <3>1 DEF PlainInv, PlainTo, IsPlain, WellFormed, IsValue, IsOption, Dashed
  <2> QED
    BY <1>2, <2>1, <2>2 DEF Next
<1> QED
  BY <1>1, <1>2, LoopHolds, WrittenHolds, PTL DEF Spec

(* The words of a well-formed line of any length are its positionals, in   *)
(* their order, wherever the options stand between them.                   *)
THEOREM PositionalsRead == Spec => []PositionalsAsWritten
<1>1. LoopInv /\ PlainInv => PositionalsAsWritten
  <2> SUFFICES ASSUME LoopInv, PlainInv, WellFormed, phase # "parsing"
               PROVE  PositionalsAsWritten
    BY DEF PositionalsAsWritten
  <2> DEFINE plain == { k \in DOMAIN argv : IsPlain(k) }
  <2>1. 1 .. i - 1 = DOMAIN argv /\ DOMAIN argv \subseteq Nat
    BY DEF LoopInv
  <2>2. plain = PlainTo(i - 1)
    BY <2>1 DEF PlainTo
  <2>3. ASSUME NEW k \in plain
        PROVE  { j \in plain : j <= k } = PlainTo(k)
    <3>1. \A j \in Nat : j \in DOMAIN argv /\ j <= k <=> j \in 1 .. k
      BY DEF LoopInv
    <3> QED
      BY <2>1, <3>1 DEF PlainTo
  <2> QED
    BY <2>2, <2>3 DEF PlainInv, PositionalsAsWritten
<1> QED
  BY <1>1, LoopHolds, PlainHolds, PTL

-----------------------------------------------------------------------------
(* Every option that opt has stands on the line, a last time. *)
LastInv ==
    WellFormed =>
        \A o \in DOMAIN opt :
           \E k \in 1 .. i - 1 : /\ Dashed(argv[k]) /\ argv[k].text = o
                                 /\ \A j \in 1 .. i - 1 : j > k => argv[j].text # o

(* The last time an option stood is now, or where it was, for no value     *)
(* looks like an option.                                                   *)
LEMMA LastStep ==
    ASSUME LoopInv, LastInv,
           TakeForce \/ TakeOption \/ TakeLastOption \/ TakePositional
    PROVE  LastInv'
<1>1. /\ Len(argv) \in Nat /\ i \in 1 .. Len(argv) /\ i \in DOMAIN argv
      /\ DOMAIN argv = 1 .. Len(argv) /\ argv' = argv
  BY DEF LoopInv, InLoop, TakeForce, TakeOption, TakeLastOption, TakePositional, input
<1>2. WellFormed' <=> WellFormed
  BY <1>1 DEF WellFormed, IsOption, Dashed
<1> SUFFICES ASSUME WellFormed, NEW o \in DOMAIN opt'
             PROVE  \E k \in 1 .. i' - 1 :
                       /\ Dashed(argv[k]) /\ argv[k].text = o
                       /\ \A j \in 1 .. i' - 1 : j > k => argv[j].text # o
  BY <1>1, <1>2 DEF LastInv, Dashed
<1>3. o \in DOMAIN opt =>
          \E k \in 1 .. i - 1 : /\ Dashed(argv[k]) /\ argv[k].text = o
                                /\ \A j \in 1 .. i - 1 : j > k => argv[j].text # o
  BY DEF LastInv
<1>4. ASSUME NEW n \in Nat, n >= i, o \in DOMAIN opt,
             \A j \in i .. n : argv[j].text # o
      PROVE  \E k \in 1 .. n : /\ Dashed(argv[k]) /\ argv[k].text = o
                               /\ \A j \in 1 .. n : j > k => argv[j].text # o
  <2>1. PICK k \in 1 .. i - 1 : /\ Dashed(argv[k]) /\ argv[k].text = o
                                /\ \A j \in 1 .. i - 1 : j > k => argv[j].text # o
    BY <1>3, <1>4
  <2>2. i \in Nat
    BY <1>1
  <2>3. k \in 1 .. n
    BY <1>4, <2>1, <2>2
  <2>4. \A j \in 1 .. n : j \in 1 .. i - 1 \/ j \in i .. n
    BY <2>2
  <2> QED
    BY <1>4, <2>1, <2>3, <2>4
<1>5. CASE TakePositional
  <2>1. i' = i + 1 /\ opt' = opt /\ ~Dashed(argv[i])
    BY <1>5 DEF TakePositional
  <2>2. o \in Options /\ argv[i].text # o
    BY <2>1 DEF LoopInv, Dashed
  <2>3. i' - 1 = i /\ i \in Nat /\ i >= i /\ \A j \in i .. i : j = i
    BY <1>1, <2>1
  <2> QED
    BY <1>4, <2>1, <2>2, <2>3
<1>6. CASE TakeForce
  <2>1. i' = i + 1 /\ argv[i].text = "--force" /\ Set("--force", One)
    BY <1>6 DEF TakeForce
  <2>2. DOMAIN opt' = DOMAIN opt \cup {argv[i].text} /\ Dashed(argv[i])
    BY <2>1, SetAdds DEF Dashed, Options
  <2>3. i' - 1 = i /\ i \in Nat /\ i >= i /\ \A j \in i .. i : j = i
    BY <1>1, <2>1
  <2>4. CASE o = argv[i].text
    <3>1. i \in 1 .. i' - 1 /\ \A j \in 1 .. i' - 1 : ~(j > i)
      <4>1. i \in Nat /\ i >= 1 /\ i' - 1 = i
        BY <1>1, <2>3
      <4>2. i \in 1 .. i /\ \A j \in 1 .. i : ~(j > i)
        BY <4>1
      <4> QED
        BY <4>1, <4>2
    <3> QED
      BY <3>1, <2>2, <2>4
  <2>5. CASE o # argv[i].text
    BY <1>4, <2>2, <2>3, <2>5 DEF LoopInv
  <2> QED
    BY <2>4, <2>5
<1>7. CASE TakeOption
  <2>1. /\ i' = i + 2 /\ Dashed(argv[i]) /\ argv[i].text # "--force" /\ i + 1 <= Len(argv)
        /\ Set(argv[i].text, argv[i + 1])
    BY <1>7 DEF TakeOption
  <2>2. DOMAIN opt' = DOMAIN opt \cup {argv[i].text} /\ o \in Options
    <3>1. DOMAIN opt' = DOMAIN opt \cup {argv[i].text}
      BY <2>1, SetAdds
    <3> QED
      BY <2>1, <3>1 DEF Dashed, LoopInv
  <2>3. argv[i + 1].text # o
    <3>1. ~Dashed(argv[i + 1])
      BY <1>1, <2>1 DEF WellFormed, IsOption
    <3> QED
      BY <3>1, <2>2 DEF Dashed
  <2>4. /\ i' - 1 = i + 1 /\ i + 1 \in Nat /\ i + 1 >= i
        /\ \A j \in i .. i + 1 : j = i \/ j = i + 1
    BY <1>1, <2>1
  <2>5. CASE o = argv[i].text
    <3>1. i \in 1 .. i' - 1 /\ \A j \in 1 .. i' - 1 : j > i => j = i + 1
      <4>1. i \in Nat /\ i >= 1 /\ i' - 1 = i + 1
        BY <1>1, <2>4
      <4>2. i \in 1 .. i + 1 /\ \A j \in 1 .. i + 1 : j > i => j = i + 1
        BY <4>1
      <4> QED
        BY <4>1, <4>2
    <3> QED
      BY <3>1, <2>1, <2>3, <2>5
  <2>6. CASE o # argv[i].text
    BY <1>4, <2>2, <2>3, <2>4, <2>6
  <2> QED
    BY <2>5, <2>6
<1>8. CASE TakeLastOption
  <2>1. i = Len(argv) /\ IsOption(i)
    BY <1>8 DEF TakeLastOption, IsOption
  <2> QED
    BY <1>1, <2>1 DEF WellFormed
<1> QED
  BY <1>5, <1>6, <1>7, <1>8

(* What main hands over comes from the positionals and the options.        *)
ArgsInv ==
    /\ phase \in {"run", "done"} =>
          args.group = Positional(1).text /\ args.command = Positional(2).text
    /\ phase = "done" => outcome = Asked

LEMMA ArgsHold == Spec => [](LastInv /\ ArgsInv)
<1>1. Init => LastInv /\ ArgsInv
  <2> SUFFICES ASSUME Init PROVE LastInv /\ ArgsInv
    OBVIOUS
  <2>1. opt = << >> /\ phase = "parsing"
    BY DEF Init
  <2>2. DOMAIN opt = {}
    BY <2>1
  <2> QED
    BY <2>1, <2>2 DEF LastInv, ArgsInv
<1>2. ASSUME LoopInv, LastInv, ArgsInv, [Next]_vars
      PROVE  LastInv' /\ ArgsInv'
  <2>1. CASE TakeForce \/ TakeOption \/ TakeLastOption \/ TakePositional
    <3>1. phase = "parsing" /\ phase' = "parsing"
      BY <2>1 DEF InLoop, TakeForce, TakeOption, TakeLastOption, TakePositional
    <3>2. ArgsInv'
      BY <3>1 DEF ArgsInv
    <3> QED
      BY <1>2, <2>1, <3>2, LastStep
  <2>2. CASE EndLoop \/ Assign \/ Run \/ UNCHANGED vars
    <3>1. argv' = argv /\ i' = i /\ opt' = opt /\ pos' = pos /\ long' = long
      BY <2>2 DEF EndLoop, Assign, Run, vars, input
    <3>2. LastInv'
      BY <1>2, <3>1 DEF LastInv, WellFormed, IsOption, Dashed
    <3>3. Positional(1)' = Positional(1) /\ Positional(2)' = Positional(2)
      BY <3>1 DEF Positional
    <3>4. CASE EndLoop
      <4>1. phase' = "assign"
        BY <3>4 DEF EndLoop
      <4> QED
        BY <3>2, <4>1 DEF ArgsInv
    <3>5. CASE Assign
      <4>1. /\ phase' = "run" /\ args'.group = Positional(1).text
            /\ args'.command = Positional(2).text
        BY <3>5 DEF Assign
      <4> QED
        BY <3>2, <3>3, <4>1 DEF ArgsInv
    <3>6. CASE Run
      <4>1. args' = args
        BY <3>6 DEF Run
      <4>2. Asked' = Asked
        BY <3>1, <4>1 DEF Asked, Request, Count, Get, strtoul
      <4>3. phase = "run" /\ phase' = "done" /\ outcome' = Asked
        BY <3>6 DEF Run
      <4> QED
        BY <1>2, <3>2, <3>3, <4>1, <4>2, <4>3 DEF ArgsInv
    <3>7. CASE UNCHANGED vars
      <4>1. phase' = phase /\ args' = args /\ outcome' = outcome
        BY <3>7 DEF vars
      <4>2. Asked' = Asked
        BY <3>1, <4>1 DEF Asked, Request, Count, Get, strtoul
      <4> QED
        BY <1>2, <3>2, <3>3, <4>1, <4>2 DEF ArgsInv
    <3> QED
      BY <2>2, <3>4, <3>5, <3>6, <3>7
  <2> QED
    BY <1>2, <2>1, <2>2 DEF Next
<1> QED
  BY <1>1, <1>2, LoopHolds, PTL DEF Spec

-----------------------------------------------------------------------------
(* The options in front of position n, back to the last token that is      *)
(* none, are even in number: token n is not the value of any.              *)
EvenRun(n) ==
    \E m \in 1 .. n : /\ \A j \in m .. n - 1 : IsOption(j)
                      /\ m > 1 => ~IsOption(m - 1)
                      /\ (n - m) % 2 = 0

LEMMA EvenRunFacts ==
    ASSUME NEW n \in Nat, n >= 1
    PROVE  /\ EvenRun(n) => ~TakenAsValue(n)
           /\ EvenRun(n) /\ IsOption(n) => TakenAsValue(n + 1)
           /\ EvenRun(n) /\ IsOption(n) /\ IsOption(n + 1) => EvenRun(n + 2)
           /\ ~IsOption(n) => EvenRun(n + 1)
<1>1. ASSUME EvenRun(n), TakenAsValue(n) PROVE FALSE
  <2>1. PICK m \in 1 .. n : /\ \A j \in m .. n - 1 : IsOption(j)
                            /\ m > 1 => ~IsOption(m - 1)
                            /\ (n - m) % 2 = 0
    BY <1>1 DEF EvenRun
  <2>2. PICK p \in 1 .. n - 1 : /\ \A j \in p .. n - 1 : IsOption(j)
                                /\ p > 1 => ~IsOption(p - 1)
                                /\ (n - p) % 2 = 1
    BY <1>1 DEF TakenAsValue
  <2>3. CASE m < p
    <3>1. p - 1 \in m .. n - 1 /\ p > 1
      BY <2>3
    <3> QED
      BY <3>1, <2>1, <2>2
  <2>4. CASE p < m
    <3>1. m - 1 \in p .. n - 1 /\ m > 1
      BY <2>4
    <3> QED
      BY <3>1, <2>1, <2>2
  <2>5. CASE p = m
    BY <2>1, <2>2, <2>5
  <2> QED
    BY <2>3, <2>4, <2>5
<1>2. ASSUME EvenRun(n), IsOption(n)
      PROVE  TakenAsValue(n + 1) /\ (IsOption(n + 1) => EvenRun(n + 2))
  <2>1. PICK m \in 1 .. n : /\ \A j \in m .. n - 1 : IsOption(j)
                            /\ m > 1 => ~IsOption(m - 1)
                            /\ (n - m) % 2 = 0
    BY <1>2 DEF EvenRun
  <2>2. \A j \in m .. (n + 1) - 1 : IsOption(j)
    <3>1. \A j \in m .. (n + 1) - 1 : j \in m .. n - 1 \/ j = n
      OBVIOUS
    <3> QED
      BY <3>1, <1>2, <2>1
  <2>3. /\ m \in 1 .. (n + 1) - 1 /\ m \in 1 .. n + 2
        /\ ((n + 1) - m) % 2 = 1 /\ ((n + 2) - m) % 2 = 0
    BY <2>1
  <2>4. TakenAsValue(n + 1)
    BY <2>1, <2>2, <2>3 DEF TakenAsValue
  <2>5. ASSUME IsOption(n + 1) PROVE EvenRun(n + 2)
    <3>1. \A j \in m .. (n + 2) - 1 : j \in m .. (n + 1) - 1 \/ j = n + 1
      OBVIOUS
    <3>2. \A j \in m .. (n + 2) - 1 : IsOption(j)
      BY <3>1, <2>2, <2>5
    <3> QED
      BY <3>2, <2>1, <2>3 DEF EvenRun
  <2> QED
    BY <2>4, <2>5
<1>3. ASSUME ~IsOption(n) PROVE EvenRun(n + 1)
  <2>1. /\ n + 1 \in 1 .. n + 1 /\ (n + 1) .. (n + 1) - 1 = {}
        /\ (n + 1) - 1 = n /\ ((n + 1) - (n + 1)) % 2 = 0
    OBVIOUS
  <2> QED
    BY <2>1, <1>3 DEF EvenRun
<1> QED
  BY <1>1, <1>2, <1>3

(* What the loop takes for the value of the option at k. *)
ValueAt(k) == IF k < Len(argv) THEN argv[k + 1] ELSE One

(* Well-formed or not: the next token is no value, and the option --id has *)
(* what follows the last one in front of it.                               *)
GivenInv ==
    /\ i <= Len(argv) => EvenRun(i)
    /\ "--id" \in DOMAIN opt =>
           \E k \in 1 .. i - 1 : /\ GivesId(k) /\ \A j \in 1 .. i - 1 : GivesId(j) => j <= k
                                 /\ opt["--id"] = ValueAt(k)

LEMMA GivenStep ==
    ASSUME LoopInv, GivenInv,
           TakeForce \/ TakeOption \/ TakeLastOption \/ TakePositional
    PROVE  GivenInv'
<1>1. /\ Len(argv) \in Nat /\ i \in 1 .. Len(argv) /\ i \in Nat /\ i >= 1 /\ argv' = argv
  BY DEF LoopInv, InLoop, TakeForce, TakeOption, TakeLastOption, TakePositional, input
<1> SUFFICES /\ i' <= Len(argv) => EvenRun(i')
             /\ "--id" \in DOMAIN opt' =>
                    \E k \in 1 .. i' - 1 :
                       /\ GivesId(k) /\ \A j \in 1 .. i' - 1 : GivesId(j) => j <= k
                       /\ opt'["--id"] = ValueAt(k)
  BY <1>1 DEF GivenInv, EvenRun, GivesId, TakenAsValue, IsOption, Dashed, ValueAt
<1>2. /\ EvenRun(i) /\ ~TakenAsValue(i)
      /\ IsOption(i) => TakenAsValue(i + 1)
      /\ IsOption(i) /\ IsOption(i + 1) => EvenRun(i + 2)
      /\ ~IsOption(i) => EvenRun(i + 1)
      /\ ~IsOption(i + 1) => EvenRun((i + 1) + 1)
  <2>1. EvenRun(i) /\ i + 1 \in Nat /\ i + 1 >= 1
    BY <1>1 DEF GivenInv
  <2> QED
    BY <1>1, <2>1, EvenRunFacts
<1>3. ASSUME NEW n \in Nat, n >= i - 1, \A j \in i .. n : ~GivesId(j),
             "--id" \in DOMAIN opt
      PROVE  \E k \in 1 .. n : /\ GivesId(k) /\ \A j \in 1 .. n : GivesId(j) => j <= k
                               /\ opt["--id"] = ValueAt(k)
  <2>1. PICK k \in 1 .. i - 1 : /\ GivesId(k) /\ \A j \in 1 .. i - 1 : GivesId(j) => j <= k
                                /\ opt["--id"] = ValueAt(k)
    BY <1>3 DEF GivenInv
  <2>2. k \in 1 .. n /\ \A j \in 1 .. n : j \in 1 .. i - 1 \/ j \in i .. n
    BY <1>1, <1>3
  <2> QED
    BY <1>3, <2>1, <2>2
<1>4. CASE TakeForce \/ TakePositional
  <2>1. i' = i + 1 /\ i' - 1 = i /\ ~IsOption(i) /\ argv[i].text # "--id"
    BY <1>1, <1>4 DEF TakeForce, TakePositional, IsOption, Dashed, Options
  <2>2. "--id" \in DOMAIN opt' => "--id" \in DOMAIN opt /\ opt'["--id"] = opt["--id"]
    <3>1. CASE TakePositional
      BY <3>1 DEF TakePositional
    <3>2. CASE TakeForce
      <4>1. Set("--force", One)
        BY <3>2 DEF TakeForce
      <4>2. /\ DOMAIN opt' = DOMAIN opt \cup {"--force"}
            /\ \A o \in DOMAIN opt : o # "--force" => opt'[o] = opt[o]
        BY <4>1, SetAdds
      <4>3. "--id" # "--force"
        OBVIOUS
      <4> QED
        BY <4>2, <4>3
    <3> QED
      BY <1>4, <3>1, <3>2
  <2>3. \A j \in i .. i : ~GivesId(j)
    BY <1>1, <2>1 DEF GivesId
  <2>4. i \in Nat /\ i >= i - 1
    BY <1>1
  <2>5. EvenRun(i')
    BY <1>2, <2>1
  <2> QED
    BY <1>3, <2>1, <2>2, <2>3, <2>4, <2>5
<1>5. CASE TakeOption \/ TakeLastOption
  <2>1. /\ IsOption(i) /\ i' - 1 \in {i, i + 1} /\ i' - 1 <= Len(argv)
        /\ Set(argv[i].text, ValueAt(i)) /\ i \in 1 .. i' - 1 /\ i' - 1 \in Nat
    <3>1. CASE TakeOption
      BY <1>1, <3>1 DEF TakeOption, IsOption, ValueAt
    <3>2. CASE TakeLastOption
      BY <1>1, <3>2 DEF TakeLastOption, IsOption, ValueAt
    <3> QED
      BY <1>5, <3>1, <3>2
  <2>2. i' <= Len(argv) => EvenRun(i')
    <3>1. CASE TakeOption
      <4>1. i' = i + 2 /\ i' = (i + 1) + 1
        BY <1>1, <3>1 DEF TakeOption
      <4> QED
        BY <1>2, <2>1, <4>1
    <3>2. CASE TakeLastOption
      <4>1. ~(i' <= Len(argv))
        BY <1>1, <3>2 DEF TakeLastOption
      <4> QED
        BY <4>1
    <3> QED
      BY <1>5, <3>1, <3>2
  <2>3. ~GivesId(i + 1)
    BY <1>2, <2>1 DEF GivesId
  <2>4. /\ DOMAIN opt' = DOMAIN opt \cup {argv[i].text}
        /\ opt'[argv[i].text] = ValueAt(i)
        /\ \A o \in DOMAIN opt : o # argv[i].text => opt'[o] = opt[o]
    BY <2>1, SetAdds
  <2>5. CASE argv[i].text = "--id"
    <3>1. GivesId(i) /\ opt'["--id"] = ValueAt(i)
      BY <1>2, <2>4, <2>5 DEF GivesId
    <3>2. \A j \in 1 .. i' - 1 : GivesId(j) => j <= i
      <4>1. \A j \in 1 .. i' - 1 : j <= i \/ j = i + 1
        BY <1>1, <2>1
      <4> QED
        BY <2>3, <4>1
    <3> QED
      BY <2>1, <2>2, <3>1, <3>2
  <2>6. CASE argv[i].text # "--id"
    <3>1. ~GivesId(i)
      BY <2>6 DEF GivesId
    <3>2. \A j \in i .. i' - 1 : ~GivesId(j)
      <4>1. \A j \in i .. i' - 1 : j = i \/ j = i + 1
        BY <1>1, <2>1
      <4> QED
        BY <2>3, <3>1, <4>1
    <3>3. "--id" \in DOMAIN opt' => "--id" \in DOMAIN opt /\ opt'["--id"] = opt["--id"]
      BY <2>4, <2>6
    <3>4. i' - 1 >= i - 1
      BY <1>1, <2>1
    <3> QED
      BY <1>3, <2>1, <2>2, <3>2, <3>3, <3>4
  <2> QED
    BY <2>5, <2>6
<1> QED
  BY <1>4, <1>5

LEMMA GivenHolds == Spec => []GivenInv
<1>1. Init => GivenInv
  <2> SUFFICES ASSUME Init PROVE GivenInv
    OBVIOUS
  <2>1. i = 1 /\ DOMAIN opt = {}
    <3>1. i = 1 /\ opt = << >>
      BY DEF Init
    <3> QED
      BY <3>1
  <2>2. 1 \in 1 .. 1 /\ 1 .. 1 - 1 = {} /\ (1 - 1) % 2 = 0 /\ ~(1 > 1)
    OBVIOUS
  <2>3. EvenRun(1)
    BY <2>2 DEF EvenRun
  <2> QED
    BY <2>1, <2>3 DEF GivenInv
<1>2. ASSUME LoopInv, GivenInv, [Next]_vars
      PROVE  GivenInv'
  <2>1. CASE TakeForce \/ TakeOption \/ TakeLastOption \/ TakePositional
    BY <1>2, <2>1, GivenStep
  <2>2. CASE EndLoop \/ Assign \/ Run \/ UNCHANGED vars
    <3>1. argv' = argv /\ i' = i /\ opt' = opt
      BY <2>2 DEF EndLoop, Assign, Run, vars, input
    <3> QED
      BY <1>2, <3>1 DEF GivenInv, EvenRun, GivesId, TakenAsValue, IsOption, Dashed, ValueAt
  <2> QED
    BY <1>2, <2>1, <2>2 DEF Next
<1> QED
  BY <1>1, <1>2, LoopHolds, PTL DEF Spec

(* Every line, of any length and form: a handler reaches for a key only if *)
(* an option --id names it, and then for the key that the last one names.  *)
THEOREM NoKeyWithoutId == Spec => []NoIdNoKey
<1>1. LoopInv /\ EndInv /\ ArgsInv /\ GivenInv => NoIdNoKey
  <2> SUFFICES ASSUME LoopInv, EndInv, ArgsInv, GivenInv, outcome.kind = "request"
               PROVE  \E k \in DOMAIN argv :
                         /\ GivesId(k) /\ \A j \in DOMAIN argv : GivesId(j) => j <= k
                         /\ outcome.id = strtoul(ValueAt(k).chars) % Pow(2, IdBits)
    BY DEF NoIdNoKey, ValueAt
  <2>1. phase = "done" /\ outcome = Asked
    <3>1. None.kind # "request"
      BY DEF None
    <3> QED
      BY <3>1 DEF EndInv, ArgsInv
  <2>2. 1 .. i - 1 = DOMAIN argv
    BY <2>1 DEF LoopInv
  <2>3. outcome = Request /\ Get("--id").text # ""
    BY <2>1 DEF Asked, Usage, Throw, Count
  <2>4. "--id" \in DOMAIN opt
    BY <2>3 DEF Get, Empty
  <2>5. outcome.id = strtoul(opt["--id"].chars) % Pow(2, IdBits)
    <3>1. Get("--id") = opt["--id"]
      BY <2>4 DEF Get
    <3> QED
      BY <2>3, <3>1 DEF Request
  <2> QED
    BY <2>2, <2>4, <2>5 DEF GivenInv
<1> QED
  BY <1>1, LoopHolds, ArgsHold, GivenHolds, PTL

-----------------------------------------------------------------------------
(* The words of a well-formed line up to its second one are two: its first *)
(* is the group, its second the command.                                   *)
LEMMA FirstWords ==
    ASSUME LoopInv, PlainInv, WellFormed, phase # "parsing",
           NEW g \in DOMAIN argv, NEW c \in DOMAIN argv, IsPlain(g), IsPlain(c), g < c,
           \A j \in 1 .. c : IsPlain(j) => j \in {g, c}
    PROVE  Positional(1) = argv[g] /\ Positional(2) = argv[c]
<1>1. /\ i - 1 = Len(argv) /\ Len(argv) \in Nat /\ g \in 1 .. Len(argv) /\ c \in 1 .. Len(argv)
      /\ DOMAIN argv = 1 .. Len(argv)
  BY DEF LoopInv
<1>2. g \in PlainTo(i - 1) /\ c \in PlainTo(i - 1)
  BY <1>1 DEF PlainTo
<1>3. PlainTo(g) = {g}
  <2>1. \A j \in 1 .. g : j \in 1 .. c /\ j # c
    BY <1>1
  <2>2. g \in 1 .. g
    BY <1>1
  <2> QED
    BY <2>1, <2>2 DEF PlainTo
<1>4. PlainTo(c) = {g} \cup {c} /\ c \notin {g}
  <2>1. c \in 1 .. c /\ g \in 1 .. c /\ g # c
    BY <1>1
  <2> QED
    BY <2>1 DEF PlainTo
<1>5. Cardinality(PlainTo(g)) = 1 /\ Cardinality(PlainTo(c)) = 2
  <2>1. IsFiniteSet({g}) /\ Cardinality({g}) = 1
    BY FS_Singleton
  <2>2. Cardinality({g} \cup {c}) = 1 + 1
    BY <2>1, <1>4, FS_AddElement
  <2> QED
    BY <1>3, <1>4, <2>1, <2>2
<1>6. pos[1] = argv[g] /\ pos[2] = argv[c]
  BY <1>2, <1>5 DEF PlainInv
<1>7. 2 <= Len(pos) /\ 1 <= Len(pos)
  <2>1. Cardinality(PlainTo(c)) \in 1 .. Cardinality(PlainTo(i - 1))
    BY <1>1, <1>2, RankBounds
  <2>2. Len(pos) = Cardinality(PlainTo(i - 1)) /\ Len(pos) \in Nat
    BY DEF PlainInv, LoopInv
  <2> QED
    BY <1>5, <2>1, <2>2
<1> QED
  BY <1>6, <1>7 DEF Positional

(* usage, for well-formed lines of any length: the documented commands and *)
(* provision reach the handler of their group when an identifier is given, *)
(* and no other word does.                                                 *)
THEOREM DocumentedLines == Spec => []DocumentedLinesWork
<1>1. LoopInv /\ WrittenInv /\ PlainInv /\ LastInv /\ ArgsInv => DocumentedLinesWork
  <2> SUFFICES ASSUME LoopInv, WrittenInv, PlainInv, LastInv, ArgsInv,
                      WellFormed, phase = "done",
                      NEW g \in DOMAIN argv, NEW c \in DOMAIN argv,
                      IsPlain(g), IsPlain(c), g < c,
                      \A j \in 1 .. c : IsPlain(j) => j \in {g, c}
               PROVE  LET asked == /\ argv[c].text \in Accepted(argv[g].text)
                                   /\ \E k \in DOMAIN argv : /\ argv[k].text = "--id" /\ IsLast(k)
                                                            /\ argv[k + 1].text # ""
                      IN  /\ asked <=> outcome.kind = "request"
                          /\ asked => /\ outcome.group = argv[g].text
                                      /\ outcome.command = argv[c].text
                                      /\ outcome.force <=> \E j \in DOMAIN argv : argv[j].text = "--force"
    BY DEF DocumentedLinesWork
  <2> DEFINE listed == argv[c].text \in Accepted(argv[g].text)
             named  == \E k \in DOMAIN argv : /\ argv[k].text = "--id" /\ IsLast(k)
                                              /\ argv[k + 1].text # ""
  <2>1. args.group = argv[g].text /\ args.command = argv[c].text /\ outcome = Asked
    BY FirstWords DEF ArgsInv
  <2>2. DOMAIN argv = 1 .. i - 1
    BY DEF LoopInv
  <2>3. listed <=> args.group \in {"ecc", "rsa"} /\ args.command \in Commands(args.group)
    <3>1. CASE argv[g].text = "ecc"
      BY <3>1, <2>1 DEF Accepted, Documented, Commands
    <3>2. CASE argv[g].text = "rsa"
      BY <3>2, <2>1 DEF Accepted, Documented, Commands
    <3>3. CASE argv[g].text \notin {"ecc", "rsa"}
      BY <3>3, <2>1 DEF Accepted, Documented
    <3> QED
      BY <3>1, <3>2, <3>3
  <2>4. ASSUME NEW k \in DOMAIN argv, argv[k].text = "--id", IsLast(k)
        PROVE  "--id" \in DOMAIN opt /\ opt["--id"] = argv[k + 1]
    <3>1. Dashed(argv[k]) /\ IsOption(k)
      BY <2>4 DEF Dashed, IsOption, Options
    <3> QED
      BY <2>2, <2>4, <3>1 DEF WrittenInv, IsLast
  <2>5. named <=> Get("--id").text # ""
    <3>1. ASSUME named PROVE Get("--id").text # ""
      BY <3>1, <2>4 DEF Get
    <3>2. ASSUME Get("--id").text # "" PROVE named
      <4>1. "--id" \in DOMAIN opt
        BY <3>2 DEF Get, Empty
      <4>2. PICK k \in DOMAIN argv : argv[k].text = "--id" /\ IsLast(k)
        BY <4>1, <2>2 DEF LastInv, IsLast
      <4>3. argv[k + 1].text # ""
        BY <3>2, <4>1, <4>2, <2>4 DEF Get
      <4> QED
        BY <4>2, <4>3
    <3> QED
      BY <3>1, <3>2
  <2>6. Asked.kind = "request" <=>
            /\ args.group \in {"ecc", "rsa"} /\ args.command \in Commands(args.group)
            /\ Get("--id").text # ""
    BY DEF Asked, Usage, Throw, Count, Request
  <2>7. Asked.kind = "request" => Asked = Request
    BY DEF Asked, Usage, Throw, Count
  <2>8. "--force" \in DOMAIN opt <=> \E j \in DOMAIN argv : argv[j].text = "--force"
    <3>1. \A j \in DOMAIN argv : argv[j].text = "--force" => Dashed(argv[j])
      BY DEF Dashed, Options
    <3> QED
      BY <3>1, <2>2 DEF WrittenInv
  <2>9. listed /\ named => /\ outcome.group = argv[g].text /\ outcome.command = argv[c].text
                           /\ outcome.force <=> "--force" \in DOMAIN opt
    <3>1. listed /\ named => outcome = Request
      BY <2>1, <2>3, <2>5, <2>6, <2>7
    <3>2. Request.group = args.group /\ Request.command = args.command
      BY DEF Request
    <3>3. Request.force <=> "--force" \in DOMAIN opt
      BY Zenon DEF Request
    <3> QED
      BY <2>1, <3>1, <3>2, <3>3
  <2>10. listed /\ named <=> outcome.kind = "request"
    BY <2>1, <2>3, <2>5, <2>6
  <2> QED
    BY <2>8, <2>9, <2>10
<1> QED
  BY <1>1, LoopHolds, WrittenHolds, PlainHolds, ArgsHold, PTL

-----------------------------------------------------------------------------
(* Numbers. *)

(* Induction, for a set instead of a predicate. *)
LEMMA SetInduction ==
    ASSUME NEW T, 0 \in T, \A n \in Nat : n \in T => n + 1 \in T
    PROVE  Nat \subseteq T
<1> DEFINE C == Nat \ T
           R == { ss \in Nat \X Nat : ss[1] < ss[2] }
<1> SUFFICES ASSUME C # {} PROVE FALSE
  OBVIOUS
<1>1. IsWellFoundedOn(R, Nat)
  BY NatLessThanWellFounded DEF OpToRel
<1>2. PICK n \in C : \A m \in C : ~(<< m, n >> \in R)
  <2>1. C \subseteq Nat /\ C # {}
    OBVIOUS
  <2> HIDE DEF C, R
  <2> QED
    BY <1>1, <2>1, WFMin
<1>3. n \in Nat /\ n # 0
  OBVIOUS
<1>4. n - 1 \in Nat /\ (n - 1) + 1 = n
  BY <1>3
<1>5. n - 1 \in T
  <2>1. << n - 1, n >> \in Nat \X Nat /\ << n - 1, n >>[1] = n - 1 /\ << n - 1, n >>[2] = n
    BY <1>3, <1>4
  <2>2. << n - 1, n >> \in R
    BY <1>3, <1>4, <2>1
  <2> QED
    BY <1>2, <1>4, <2>2
<1> QED
  BY <1>2, <1>4, <1>5

(* The same up to a bound. *)
LEMMA InductionUpTo ==
    ASSUME NEW n \in Nat, NEW S, 0 \in S, \A k \in Nat : k < n /\ k \in S => k + 1 \in S
    PROVE  0 .. n \subseteq S
<1> DEFINE T == { k \in Nat : k \in 0 .. n => k \in S }
<1>1. 0 \in T
  OBVIOUS
<1>2. ASSUME NEW k \in Nat, k \in T PROVE k + 1 \in T
  <2> SUFFICES ASSUME k + 1 \in 0 .. n PROVE k + 1 \in S
    OBVIOUS
  <2>1. k \in 0 .. n /\ k < n
    OBVIOUS
  <2> QED
    BY <1>2, <2>1
<1>3. Nat \subseteq T
  <2> HIDE DEF T
  <2> QED
    BY <1>1, <1>2, SetInduction
<1> QED
  BY <1>3

(* The powers of b. *)
Powers(p, b, n) == p = [k \in 0 .. n |-> IF k = 0 THEN 1 ELSE b * p[k - 1]]

LEMMA PowersExist ==
    ASSUME NEW b \in Nat, NEW n \in Nat
    PROVE  \E p \in [0 .. n -> Nat] : Powers(p, b, n)
<1> DEFINE T == { m \in Nat : \E p \in [0 .. m -> Nat] : Powers(p, b, m) }
<1>1. 0 \in T
  <2> DEFINE p == [k \in 0 .. 0 |-> 1]
  <2>1. p \in [0 .. 0 -> Nat] /\ Powers(p, b, 0)
    BY DEF Powers
  <2> QED
    BY <2>1
<1>2. ASSUME NEW m \in Nat, m \in T PROVE m + 1 \in T
  <2>1. PICK p \in [0 .. m -> Nat] : Powers(p, b, m)
    BY <1>2
  <2> DEFINE q == [k \in 0 .. m + 1 |-> IF k = m + 1 THEN b * p[m] ELSE p[k]]
  <2>2. q \in [0 .. m + 1 -> Nat]
    BY <2>1
  <2>3. ASSUME NEW k \in 0 .. m + 1 PROVE q[k] = IF k = 0 THEN 1 ELSE b * q[k - 1]
    <3>1. CASE k = m + 1
      BY <3>1
    <3>2. CASE k # m + 1
      <4>1. k \in 0 .. m /\ k - 1 # m + 1
        BY <3>2
      <4>2. p[k] = IF k = 0 THEN 1 ELSE b * p[k - 1]
        BY <2>1, <4>1 DEF Powers
      <4>3. k # 0 => k - 1 \in 0 .. m + 1
        BY <4>1
      <4> QED
        BY <4>1, <4>2, <4>3
    <3> QED
      BY <3>1, <3>2
  <2>4. Powers(q, b, m + 1)
    BY <2>2, <2>3 DEF Powers
  <2> QED
    BY <2>2, <2>4
<1>3. Nat \subseteq T
  <2> HIDE DEF T
  <2> QED
    BY <1>1, <1>2, SetInduction
<1> QED
  BY <1>3

LEMMA PowIs ==
    ASSUME NEW b \in Nat, NEW n \in Nat, NEW p, Powers(p, b, n)
    PROVE  Pow(b, n) = p[n] /\ p \in [0 .. n -> Nat]
<1>1. PICK w \in [0 .. n -> Nat] : Powers(w, b, n)
  BY PowersExist
<1>2. ASSUME NEW f, Powers(f, b, n) PROVE f = w
  <2>1. /\ \A k \in 0 .. n : f[k] = IF k = 0 THEN 1 ELSE b * f[k - 1]
        /\ \A k \in 0 .. n : w[k] = IF k = 0 THEN 1 ELSE b * w[k - 1]
    BY <1>1, <1>2 DEF Powers
  <2>2. f[0] = w[0]
    BY <2>1
  <2> DEFINE S == { k \in 0 .. n : f[k] = w[k] }
  <2>3. ASSUME NEW k \in Nat, k < n, k \in S
        PROVE  k + 1 \in S
    <3>1. k + 1 \in 0 .. n /\ k + 1 # 0 /\ (k + 1) - 1 = k
      BY <2>3
    <3> QED
      BY <2>1, <2>3, <3>1
  <2>4. 0 .. n \subseteq S
    <3>1. 0 \in S
      BY <2>2
    <3> HIDE DEF S
    <3> QED
      BY <2>3, <3>1, InductionUpTo
  <2> QED
    BY <1>1, <1>2, <2>4 DEF Powers
<1>3. Pow(b, n) = w[n]
  BY <1>1, <1>2 DEF Pow, Powers
<1> QED
  BY <1>1, <1>2, <1>3

(* The equations of Pow. *)
LEMMA PowNext ==
    ASSUME NEW b \in Nat, NEW n \in Nat
    PROVE  Pow(b, 0) = 1 /\ Pow(b, n) \in Nat /\ Pow(b, n + 1) = b * Pow(b, n)
<1>1. Pow(b, 0) = 1
  <2>1. PICK p \in [0 .. 0 -> Nat] : Powers(p, b, 0)
    BY PowersExist
  <2>2. Pow(b, 0) = p[0]
    BY <2>1, PowIs
  <2> QED
    BY <2>1, <2>2 DEF Powers
<1>2. PICK q \in [0 .. n + 1 -> Nat] : Powers(q, b, n + 1)
  <2>1. n + 1 \in Nat
    OBVIOUS
  <2> QED
    BY <2>1, PowersExist, Zenon
<1> DEFINE p == [k \in 0 .. n |-> q[k]]
<1>3. Powers(p, b, n)
  <2>1. ASSUME NEW k \in 0 .. n PROVE p[k] = IF k = 0 THEN 1 ELSE b * p[k - 1]
    BY <1>2 DEF Powers
  <2> QED
    BY <2>1 DEF Powers
<1>4. Pow(b, n) = q[n] /\ q[n] \in Nat
  BY <1>2, <1>3, PowIs
<1>5. Pow(b, n + 1) = q[n + 1] /\ q[n + 1] = b * q[n]
  <2>1. n + 1 \in Nat /\ n + 1 # 0 /\ n + 1 \in 0 .. n + 1 /\ (n + 1) - 1 = n
    OBVIOUS
  <2>2. Pow(b, n + 1) = q[n + 1]
    BY <1>2, <2>1, PowIs
  <2> QED
    BY <1>2, <2>1, <2>2 DEF Powers
<1> QED
  BY <1>1, <1>4, <1>5

LEMMA PowGrows ==
    ASSUME NEW b \in Nat \ {0}, NEW n \in Nat, NEW d \in Nat
    PROVE  Pow(b, n) >= 1 /\ Pow(b, n + d) >= Pow(b, n)
<1>1. ASSUME NEW k \in Nat, Pow(b, k) >= 1
      PROVE  Pow(b, k + 1) >= Pow(b, k) /\ Pow(b, k + 1) >= 1
  <2>1. Pow(b, k) \in Nat /\ Pow(b, k + 1) = b * Pow(b, k)
    BY PowNext
  <2>2. \A x \in Nat : b * x >= x
    OBVIOUS
  <2> QED
    BY <1>1, <2>1, <2>2
<1>2. \A k \in Nat : Pow(b, k) >= 1
  <2> DEFINE T == { k \in Nat : Pow(b, k) >= 1 }
  <2>1. 0 \in T
    BY PowNext
  <2>2. \A k \in Nat : k \in T => k + 1 \in T
    BY <1>1
  <2>3. Nat \subseteq T
    <3> HIDE DEF T
    <3> QED
      BY <2>1, <2>2, SetInduction
  <2> QED
    BY <2>3
<1>3. \A k \in Nat : Pow(b, n + k) >= Pow(b, n)
  <2> DEFINE T == { k \in Nat : Pow(b, n + k) >= Pow(b, n) }
  <2>1. 0 \in T
    <3>1. n + 0 = n /\ Pow(b, n) \in Nat
      BY PowNext
    <3> QED
      BY <3>1
  <2>2. ASSUME NEW k \in Nat, k \in T PROVE k + 1 \in T
    <3>1. n + k \in Nat /\ n + (k + 1) = (n + k) + 1
      OBVIOUS
    <3>2. Pow(b, (n + k) + 1) >= Pow(b, n + k)
      BY <1>1, <1>2, <3>1
    <3>3. Pow(b, n) \in Nat /\ Pow(b, n + k) \in Nat /\ Pow(b, (n + k) + 1) \in Nat
      <4>1. \A m \in Nat : Pow(b, m) \in Nat
        BY PowNext
      <4> QED
        BY <3>1, <4>1
    <3> QED
      BY <2>2, <3>1, <3>2, <3>3
  <2>3. Nat \subseteq T
    <3> HIDE DEF T
    <3> QED
      BY <2>1, <2>2, SetInduction
  <2> QED
    BY <2>3
<1> QED
  BY <1>2, <1>3

(* A digit less: dividing by b times m is dividing by m and then by b.     *)
LEMMA DivideTwice ==
    ASSUME NEW b \in {8, 10, 16}, NEW m \in Nat, m >= 1, NEW v \in Nat
    PROVE  v \div (b * m) = (v \div m) \div b
<1>1. CASE b = 8
  BY <1>1, SMTT(60)
<1>2. CASE b = 10
  BY <1>2, SMTT(60)
<1>3. CASE b = 16
  BY <1>3, SMTT(60)
<1> QED
  BY <1>1, <1>2, <1>3

(* The equation of strtoul's value. *)
Values(val, b, d, top) ==
    val = [k \in 0 .. Len(d) |-> IF k = 0 THEN 0
                                 ELSE IF val[k - 1] > top THEN top + 1
                                 ELSE val[k - 1] * b + d[k]]

(* Taken from the left, the digits of v give v. *)
LEMMA ValueStep ==
    ASSUME NEW b \in {8, 10, 16}, NEW d \in Seq(0 .. Other), NEW v \in Nat, Denotes(b, d, v),
           NEW k \in Nat, k < Len(d)
    PROVE  /\ v \div Pow(b, Len(d) - k) <= v
           /\ v \div Pow(b, Len(d) - (k + 1)) = (v \div Pow(b, Len(d) - k)) * b + d[k + 1]
<1> DEFINE n == Len(d) - (k + 1)
           m == Pow(b, n)
           x == v \div m
<1>1. Len(d) \in Nat /\ n \in Nat /\ Len(d) - k = n + 1 /\ k + 1 \in DOMAIN d
  OBVIOUS
<1>2. b \in Nat /\ b \in Nat \ {0}
  OBVIOUS
<1>3. m \in Nat /\ Pow(b, Len(d) - k) = b * m
  <2>1. \A j \in Nat : Pow(b, j) \in Nat /\ Pow(b, j + 1) = b * Pow(b, j)
    BY <1>2, PowNext
  <2> QED
    BY <1>1, <2>1
<1>4. m >= 1
  <2>1. \A j \in Nat : Pow(b, j) >= 1
    <3>1. 0 \in Nat
      OBVIOUS
    <3> QED
      BY <1>2, <3>1, PowGrows
  <2> QED
    BY <1>1, <2>1
<1>5. d[k + 1] = x % b
  BY <1>1 DEF Denotes
<1> HIDE DEF m, n
<1>6. v \div (b * m) = x \div b
  BY <1>3, <1>4, DivideTwice
<1>7. x \in Nat /\ x <= v
  BY <1>3, <1>4
<1> HIDE DEF x
<1>8. x = (x \div b) * b + (x % b) /\ x \div b <= x
  BY <1>7
<1>9. v \div Pow(b, Len(d) - k) = x \div b
  BY <1>3, <1>6
<1>10. v \div Pow(b, Len(d) - (k + 1)) = x
  BY DEF x, m, n
<1>11. x \div b \in Nat
  BY <1>7
<1> HIDE DEF Other
<1> QED
  BY <1>5, <1>7, <1>8, <1>9, <1>10, <1>11

(* Without an overflow, two values that obey the equation are the same.   *)
LEMMA SameValues ==
    ASSUME NEW b \in {8, 10, 16}, NEW d \in Seq(0 .. Other), NEW top \in Nat, NEW f, NEW h,
           Values(f, b, d, top), Values(h, b, d, top),
           \A k \in 0 .. Len(d) : k < Len(d) => ~(f[k] > top)
    PROVE  \A k \in 0 .. Len(d) : f[k] = h[k]
<1>1. /\ \A k \in 0 .. Len(d) : f[k] = IF k = 0 THEN 0
                                     ELSE IF f[k - 1] > top THEN top + 1
                                     ELSE f[k - 1] * b + d[k]
      /\ \A k \in 0 .. Len(d) : h[k] = IF k = 0 THEN 0
                                     ELSE IF h[k - 1] > top THEN top + 1
                                     ELSE h[k - 1] * b + d[k]
  BY DEF Values
<1>2. Len(d) \in Nat
  OBVIOUS
<1> DEFINE S == { k \in 0 .. Len(d) : f[k] = h[k] }
<1>3. 0 \in S
  BY <1>1, <1>2
<1>4. ASSUME NEW k \in Nat, k < Len(d), k \in S
      PROVE  k + 1 \in S
  <2>1. k + 1 \in 0 .. Len(d) /\ k + 1 # 0 /\ (k + 1) - 1 = k /\ k \in 0 .. Len(d)
    BY <1>2, <1>4
  <2> QED
    BY <1>1, <1>4, <2>1
<1>5. 0 .. Len(d) \subseteq S
  <2> HIDE DEF S
  <2> QED
    BY <1>2, <1>3, <1>4, InductionUpTo
<1> QED
  BY <1>5

(* Whatever is added up digit by digit, the digits of v give v.            *)
LEMMA ValueIs ==
    ASSUME NEW b \in {8, 10, 16}, NEW d \in Seq(0 .. Other), NEW v \in Nat, Denotes(b, d, v),
           NEW top \in Nat, v <= top
    PROVE  /\ \E val : Values(val, b, d, top)
           /\ \A val : Values(val, b, d, top) => val[Len(d)] = v
<1> DEFINE n == Len(d)
           f == [k \in 0 .. n |-> v \div Pow(b, n - k)]
<1>1. n \in Nat /\ b \in Nat \ {0} /\ b \in Nat
  OBVIOUS
<1>2. \A j \in Nat : Pow(b, j) \in Nat /\ Pow(b, j) >= 1
  <2>1. \A j \in Nat : Pow(b, j) >= 1
    <3>1. 0 \in Nat
      OBVIOUS
    <3> QED
      BY <1>1, <3>1, PowGrows
  <2>2. \A j \in Nat : Pow(b, j) \in Nat
    BY <1>1, PowNext
  <2> QED
    BY <2>1, <2>2
<1>3. f[0] = 0
  <2>1. n - 0 = n /\ 0 \in 0 .. n /\ v < Pow(b, n) /\ Pow(b, n) \in Nat
    BY <1>1, <1>2 DEF Denotes
  <2>2. \A p \in Nat : v < p => v \div p = 0
    BY SMTT(30)
  <2>3. f[0] = v \div Pow(b, n)
    BY <2>1
  <2> QED
    BY <2>1, <2>2, <2>3
<1>4. f[n] = v
  <2>1. n - n = 0 /\ n \in 0 .. n
    BY <1>1
  <2>2. Pow(b, 0) = 1
    BY <1>1, PowNext
  <2>3. f[n] = v \div Pow(b, 0)
    BY <2>1
  <2>4. v \div 1 = v
    OBVIOUS
  <2> QED
    BY <2>2, <2>3, <2>4
<1>5. ASSUME NEW k \in Nat, k < n
      PROVE  f[k] <= v /\ f[k] \in Nat /\ f[k + 1] = f[k] * b + d[k + 1]
  <2>1. f[k] = v \div Pow(b, n - k) /\ f[k + 1] = v \div Pow(b, n - (k + 1))
    BY <1>5, <1>1
  <2>2. f[k] <= v /\ f[k + 1] = f[k] * b + d[k + 1]
    BY <1>5, <2>1, ValueStep
  <2>3. n - k \in Nat
    BY <1>5, <1>1
  <2>4. f[k] \in Nat
    <3>1. \A p \in Nat : p >= 1 => v \div p \in Nat
      OBVIOUS
    <3> HIDE DEF f, n
    <3> QED
      BY <2>1, <2>3, <1>2, <3>1
  <2> QED
    BY <2>2, <2>4
<1>6. DOMAIN f = 0 .. n /\ f = [k \in 0 .. n |-> f[k]]
  OBVIOUS
<1> HIDE DEF f
<1>7. Values(f, b, d, top)
  <2>1. ASSUME NEW k \in 0 .. n
        PROVE  f[k] = IF k = 0 THEN 0
                      ELSE IF f[k - 1] > top THEN top + 1
                      ELSE f[k - 1] * b + d[k]
    <3>1. CASE k = 0
      BY <1>3, <3>1
    <3>2. CASE k # 0
      <4>1. k - 1 \in Nat /\ k - 1 < n /\ (k - 1) + 1 = k
        BY <1>1, <3>2
      <4>2. f[k - 1] <= v /\ f[k - 1] \in Nat /\ f[(k - 1) + 1] = f[k - 1] * b + d[(k - 1) + 1]
        BY <4>1, <1>5
      <4>3. ~(f[k - 1] > top)
        BY <4>2
      <4> QED
        BY <3>2, <4>1, <4>2, <4>3
    <3> QED
      BY <3>1, <3>2
  <2> QED
    BY <1>6, <2>1 DEF Values
<1>8. PICK g : Values(g, b, d, top) /\ g[n] = v /\ \A k \in 0 .. n : k < n => ~(g[k] > top)
  <2>1. \A k \in 0 .. n : k < n => ~(f[k] > top)
    BY <1>1, <1>5
  <2> QED
    BY <1>4, <1>7, <2>1, Zenon
<1>9. ASSUME NEW val, Values(val, b, d, top)
      PROVE  val[n] = v
  <2>1. n \in 0 .. n
    BY <1>1
  <2>2. \A k \in 0 .. n : g[k] = val[k]
    BY <1>8, <1>9, SameValues
  <2> QED
    BY <1>8, <2>1, <2>2
<1> QED
  BY <1>8, <1>9

(* Every digit of a number is one of its base. *)
LEMMA DigitsBelow ==
    ASSUME NEW b \in {8, 10, 16}, NEW d \in Seq(0 .. Other), NEW v \in Nat, Denotes(b, d, v)
    PROVE  \A j \in DOMAIN d : d[j] < b /\ d[j] \in Nat
<1>1. \A x \in Nat : x % b < b
  OBVIOUS
<1>2. \A j \in DOMAIN d : v \div Pow(b, Len(d) - j) \in Nat
  <2> SUFFICES ASSUME NEW j \in DOMAIN d PROVE v \div Pow(b, Len(d) - j) \in Nat
    OBVIOUS
  <2>1. Len(d) - j \in Nat /\ b \in Nat /\ b \in Nat \ {0} /\ 0 \in Nat
    OBVIOUS
  <2>2. Pow(b, Len(d) - j) \in Nat /\ Pow(b, Len(d) - j) >= 1
    BY <2>1, PowNext, PowGrows
  <2>3. \A p \in Nat : p >= 1 => v \div p \in Nat
    OBVIOUS
  <2> QED
    BY <2>2, <2>3
<1>3. \A j \in DOMAIN d : d[j] < b
  BY <1>1, <1>2 DEF Denotes
<1>4. \A j \in DOMAIN d : d[j] \in 0 .. Other
  <2>1. \A S : \A e \in Seq(S) : \A j \in DOMAIN e : e[j] \in S
    OBVIOUS
  <2> QED
    BY <2>1
<1>5. 0 .. Other \subseteq Nat
  BY DEF Other
<1> QED
  BY <1>3, <1>4, <1>5, Zenon

(* A number that fits in an unsigned long is read as it is written.        *)
LEMMA DigitsRead ==
    ASSUME NEW b \in {8, 10, 16}, NEW d \in Seq(0 .. Other), NEW v \in Nat, Denotes(b, d, v),
           long \in Nat, v < Pow(2, long), NEW chars,
           Reading(chars) = [base |-> b, digits |-> d],
           ~(chars # << >> /\ chars[1] = Minus)
    PROVE  strtoul(chars) = v
<1> DEFINE n == CHOOSE k \in 0 .. Len(d) :
                   /\ \A j \in 1 .. k : d[j] < b
                   /\ k < Len(d) => d[k + 1] >= b
           top == Pow(2, long) - 1
           val == CHOOSE g : Values(g, b, d, top)
<1>1. Pow(2, long) \in Nat /\ top \in Nat /\ v <= top
  <2>1. Pow(2, long) \in Nat
    BY PowNext
  <2> HIDE DEF top
  <2>2. top = Pow(2, long) - 1
    BY DEF top
  <2> QED
    BY <2>1, <2>2
<1>2. n = Len(d)
  <2>1. \A j \in DOMAIN d : d[j] < b /\ d[j] \in Nat
    BY DigitsBelow
  <2>2. Len(d) \in 0 .. Len(d) /\ 1 .. Len(d) = DOMAIN d
    OBVIOUS
  <2>3. \A k \in 0 .. Len(d) : k < Len(d) => ~(d[k + 1] >= b)
    <3> SUFFICES ASSUME NEW k \in 0 .. Len(d), k < Len(d) PROVE ~(d[k + 1] >= b)
      OBVIOUS
    <3>1. k + 1 \in DOMAIN d
      OBVIOUS
    <3>2. d[k + 1] < b /\ d[k + 1] \in Nat
      BY <2>1, <3>1
    <3>3. \A x \in Nat : x < b => ~(x >= b)
      OBVIOUS
    <3> QED
      BY <3>2, <3>3
  <2> QED
    BY <2>1, <2>2, <2>3
<1>3. strtoul(chars) = IF val[n] > top THEN top ELSE val[n]
  <2> HIDE DEF n
  <2>1. strtoul(chars) = LET w == CHOOSE g : g = [k \in 0 .. n |->
                                                    IF k = 0 THEN 0
                                                    ELSE IF g[k - 1] > top THEN top + 1
                                                    ELSE g[k - 1] * b + d[k]]
                         IN  IF w[n] > top THEN top ELSE w[n]
    BY DEF strtoul, n
  <2> QED
    BY <1>2, <2>1 DEF Values
<1>4. val[Len(d)] = v
  <2> HIDE DEF top
  <2>1. Values(val, b, d, top)
    BY <1>1, ValueIs
  <2> HIDE DEF val
  <2> QED
    BY <1>1, <2>1, ValueIs
<1> HIDE DEF val, n
<1> QED
  BY <1>1, <1>2, <1>3, <1>4


(* How the two ways and the plain one of writing a number are read.        *)
LEMMA FormsRead ==
    ASSUME NEW chars \in Seq(0 .. Other), chars # << >>
    PROVE  /\ \A d : d = SubSeq(chars, 3, Len(chars)) /\ d # << >> /\ chars = << 0, Ex >> \o d /\ d[1] < 16
                    => d \in Seq(0 .. Other) /\ Reading(chars) = [base |-> 16, digits |-> d]
           /\ chars[1] = 0 /\ (\A j \in DOMAIN chars : chars[j] < 8)
                    => Reading(chars) = [base |-> 8, digits |-> chars]
           /\ chars[1] # 0 /\ chars[1] # Minus
                    => Reading(chars) = [base |-> 10, digits |-> chars]
<1>1. ASSUME NEW d, d = SubSeq(chars, 3, Len(chars)), d # << >>, chars = << 0, Ex >> \o d, d[1] < 16
      PROVE  d \in Seq(0 .. Other) /\ Reading(chars) = [base |-> 16, digits |-> d]
  <2>1. d \in Seq(0 .. Other)
    BY <1>1
  <2>2. Len(chars) > 2
    BY <1>1, <2>1
  <2>3. chars[1] = 0 /\ chars[2] = Ex /\ chars[3] = d[1]
    BY <1>1, <2>1, <2>2
  <2> QED
    BY <1>1, <2>1, <2>2, <2>3 DEF Reading, Minus
<1>2. ASSUME chars[1] = 0, \A j \in DOMAIN chars : chars[j] < 8
      PROVE  Reading(chars) = [base |-> 8, digits |-> chars]
  <2>1. Len(chars) > 2 => chars[2] # Ex
    BY <1>2 DEF Ex
  <2> QED
    BY <1>2, <2>1 DEF Reading, Minus
<1>3. ASSUME chars[1] # 0, chars[1] # Minus
      PROVE  Reading(chars) = [base |-> 10, digits |-> chars]
  BY <1>3 DEF Reading
<1> QED
  BY <1>1, <1>2, <1>3

(* parseId, for every identifier, every base and every width of an         *)
(* unsigned long: the number that is written is the one that is used.      *)
THEOREM IdentifierExact == Spec => []IdIsExact
<1>1. LoopInv /\ EndInv /\ WrittenInv /\ ArgsInv => IdIsExact
  <2> SUFFICES ASSUME LoopInv, EndInv, WrittenInv, ArgsInv, WellFormed, outcome.kind = "request",
                      NEW k \in DOMAIN argv, argv[k].text = "--id", IsLast(k),
                      NEW v \in 0 .. Pow(2, IdBits) - 1
               PROVE  LET chars == argv[k + 1].chars
                      IN  \/ \E digits \in {SubSeq(chars, 3, Len(chars))} :
                                /\ digits # << >> /\ chars = << 0, Ex >> \o digits
                                /\ Denotes(16, digits, v)
                          \/ chars # << >> /\ chars[1] = 0 /\ Denotes(8, chars, v)
                          \/ chars # << >> /\ chars[1] # 0 /\ Denotes(10, chars, v)
                          => outcome.id = v
    BY DEF IdIsExact
  <2> DEFINE chars == argv[k + 1].chars
  <2>1. long \in Nat /\ v \in Nat /\ v < Pow(2, IdBits) /\ v < Pow(2, long) /\ Pow(2, IdBits) \in Nat
    <3>1. IdBits \in Nat /\ long \in Nat /\ IdBits <= long
      BY WidthsAssumption DEF LoopInv
    <3>2. Pow(2, IdBits) \in Nat /\ Pow(2, long) \in Nat
      <4>1. 2 \in Nat
        OBVIOUS
      <4> QED
        BY <3>1, <4>1, PowNext
    <3>3. Pow(2, long) >= Pow(2, IdBits)
      <4>1. 2 \in Nat \ {0} /\ long - IdBits \in Nat /\ IdBits + (long - IdBits) = long
        BY <3>1
      <4>2. Pow(2, IdBits + (long - IdBits)) >= Pow(2, IdBits)
        BY <3>1, <4>1, PowGrows
      <4> QED
        BY <4>1, <4>2
    <3> QED
      BY <3>1, <3>2, <3>3
  <2>2. chars \in Seq(0 .. Other) /\ "--id" \in DOMAIN opt /\ opt["--id"] = argv[k + 1]
    <3>1. Dashed(argv[k]) /\ IsOption(k)
      BY DEF Dashed, IsOption, Options
    <3>2. k \in 1 .. i - 1 /\ DOMAIN argv = 1 .. i - 1
      <4>1. phase = "done"
        <5>1. None.kind # "request"
          BY DEF None
        <5> QED
          BY <5>1 DEF EndInv
      <4> QED
        BY <4>1 DEF LoopInv
    <3>3. "--id" \in DOMAIN opt /\ opt["--id"] = argv[k + 1]
      BY <3>1, <3>2 DEF WrittenInv, IsLast
    <3>4. k < Len(argv)
      BY <3>1 DEF WellFormed
    <3>5. argv[k + 1] \in Token
      BY <3>4 DEF LoopInv
    <3> QED
      BY <3>3, <3>5 DEF Token
  <2>3. outcome.id = strtoul(chars) % Pow(2, IdBits)
    <3>1. outcome = Asked
      <4>1. None.kind # "request"
        BY DEF None
      <4> QED
        BY <4>1 DEF EndInv, ArgsInv
    <3>2. outcome = Request
      BY <3>1 DEF Asked, Usage, Throw, Count
    <3>3. Get("--id").chars = chars
      BY <2>2 DEF Get
    <3> QED
      BY <3>2, <3>3 DEF Request
  <2> HIDE DEF chars
  <2>4. ASSUME NEW d, d = SubSeq(chars, 3, Len(chars)), d # << >>, chars = << 0, Ex >> \o d,
               Denotes(16, d, v)
        PROVE  strtoul(chars) = v
    <3>1. chars # << >> /\ chars[1] = 0 /\ d \in Seq(0 .. Other) /\ 1 \in DOMAIN d
      BY <2>2, <2>4
    <3>2. d[1] < 16
      BY <2>1, <2>4, <3>1, DigitsBelow
    <3>3. Reading(chars) = [base |-> 16, digits |-> d]
      BY <2>2, <2>4, <3>1, <3>2, FormsRead
    <3>4. chars[1] # Minus
      BY <3>1 DEF Minus
    <3> QED
      BY <2>1, <2>4, <3>1, <3>3, <3>4, DigitsRead
  <2>5. ASSUME chars # << >>, chars[1] = 0, Denotes(8, chars, v)
        PROVE  strtoul(chars) = v
    <3>1. \A j \in DOMAIN chars : chars[j] < 8
      BY <2>1, <2>2, <2>5, DigitsBelow
    <3>2. Reading(chars) = [base |-> 8, digits |-> chars]
      BY <2>2, <2>5, <3>1, FormsRead
    <3>3. chars[1] # Minus
      BY <2>5 DEF Minus
    <3> QED
      BY <2>1, <2>2, <2>5, <3>2, <3>3, DigitsRead
  <2>6. ASSUME chars # << >>, chars[1] # 0, Denotes(10, chars, v)
        PROVE  strtoul(chars) = v
    <3>1. \A j \in DOMAIN chars : chars[j] < 10 /\ chars[j] \in Nat
      BY <2>1, <2>2, <2>6, DigitsBelow
    <3>2. 1 \in DOMAIN chars
      BY <2>2, <2>6
    <3>3. chars[1] # Minus
      BY <3>1, <3>2 DEF Minus
    <3>4. Reading(chars) = [base |-> 10, digits |-> chars]
      BY <2>2, <2>6, <3>3, FormsRead
    <3> QED
      BY <2>1, <2>2, <2>6, <3>3, <3>4, DigitsRead
  <2>7. v % Pow(2, IdBits) = v
    <3>1. \A m \in Nat : v < m => v % m = v
      BY <2>1
    <3> QED
      BY <2>1, <3>1
  <2> QED
    BY <2>3, <2>4, <2>5, <2>6, <2>7 DEF chars
<1> QED
  BY <1>1, LoopHolds, WrittenHolds, ArgsHold, PTL

=============================================================================
