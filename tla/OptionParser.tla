----------------------------- MODULE OptionParser -----------------------------
(***************************************************************************)
(* The command line of cpp_app/main.cpp, from argv to the request that     *)
(* doRng, doEcc or doRsa executes: the loop of parseArgs token by token,   *)
(* then main's choice of the handler and the arguments it takes.  What the *)
(* handlers do with the secure element is CryptoApp.                       *)
(*                                                                         *)
(* A token is its text and the characters that strtoul sees in it: 0 to 15 *)
(* are the digits 0 to f, Ex is the letter x, Minus the sign, Other any    *)
(* character that is part of no number.                                    *)
(***************************************************************************)
EXTENDS Naturals, Sequences, FiniteSets

CONSTANTS Lines,       \* command lines, without the name of the program
          LongWidths,  \* bits of an unsigned long: 32 on armhf, 64 on aarch64
          IdBits       \* bits of a key identifier: 32

Ex    == 33
Minus == 36
Other == 37
Token == [text : STRING, chars : Seq(0 .. Other)]

ASSUME LinesAssumption == Lines \subseteq Seq(Token)
(* C gives an unsigned long at least 32 bits. *)
ASSUME WidthsAssumption == IdBits \in Nat /\ LongWidths \subseteq Nat
                           /\ \A w \in LongWidths : IdBits <= w

VARIABLES
    argv,      \* argv[1], argv[2], ...
    long,      \* bits of an unsigned long on this machine
    i,         \* the loop variable
    opt,       \* Args::opt, from the names of options to tokens
    pos,       \* the positionals so far
    phase,     \* "parsing", "assign", "run" or "done"
    args,      \* Args::group, command and positional
    outcome    \* what main comes to

vars == << argv, long, i, opt, pos, phase, args, outcome >>
input == << argv, long >>

-----------------------------------------------------------------------------
(* b to the power of n, written so that proofs can unfold it. *)
Pow(b, n) == LET p[k \in 0 .. n] == IF k = 0 THEN 1 ELSE b * p[k - 1] IN p[n]

(* strtoul with base 0: a sign, the prefix that tells the base, and as     *)
(* many digits as there are.  A number too large gives the largest one.    *)

(* Plausible bug: every number is read as a decimal one. *)
Reading_Decimal(chars) == [base |-> 10, digits |-> chars]

Reading(chars) ==
    LET s == IF chars # << >> /\ chars[1] = Minus THEN Tail(chars) ELSE chars
    IN  IF Len(s) > 2 /\ s[1] = 0 /\ s[2] = Ex /\ s[3] < 16
        THEN [base |-> 16, digits |-> SubSeq(s, 3, Len(s))]
        ELSE IF s # << >> /\ s[1] = 0 THEN [base |-> 8, digits |-> s]
        ELSE [base |-> 10, digits |-> s]

strtoul(chars) ==
    LET r   == Reading(chars)
        n   == CHOOSE k \in 0 .. Len(r.digits) :
                   /\ \A j \in 1 .. k : r.digits[j] < r.base
                   /\ k < Len(r.digits) => r.digits[k + 1] >= r.base
        top == Pow(2, long) - 1
        value[k \in 0 .. n] ==
            IF k = 0 THEN 0
            ELSE IF value[k - 1] > top THEN top + 1
            ELSE value[k - 1] * r.base + r.digits[k]
    IN  IF value[n] > top THEN top
        ELSE IF chars # << >> /\ chars[1] = Minus THEN (top + 1 - value[n]) % (top + 1)
        ELSE value[n]

-----------------------------------------------------------------------------
(* The loop of parseArgs. *)

(* --other stands for the options that no handler looks at: the loop takes *)
(* whatever begins with two dashes for an option.                          *)
Options == {"--port", "--id", "--in", "--out", "--sig", "--curve", "--bits",
            "--peer", "--subject", "--force", "--other"}

(* t.rfind("--", 0) == 0 *)
Dashed(t) == t.text \in Options
One == [text |-> "1", chars |-> << 1 >>]

Set(name, t) == opt' = [o \in DOMAIN opt \cup {name} |-> IF o = name THEN t ELSE opt[o]]

InLoop == phase = "parsing" /\ i <= Len(argv)

TakeForce ==
    /\ InLoop /\ argv[i].text = "--force"
    /\ Set("--force", One) /\ i' = i + 1
    /\ UNCHANGED << input, pos, phase, args, outcome >>

(* Plausible bug: the loop does not step over the value. *)
TakeOption_Peeks ==
    /\ InLoop /\ Dashed(argv[i]) /\ argv[i].text # "--force" /\ i + 1 <= Len(argv)
    /\ Set(argv[i].text, argv[i + 1]) /\ i' = i + 1
    /\ UNCHANGED << input, pos, phase, args, outcome >>

(* Plausible bug: the first value of an option counts, not the last. *)
TakeOption_KeepsFirst ==
    /\ InLoop /\ Dashed(argv[i]) /\ argv[i].text # "--force" /\ i + 1 <= Len(argv)
    /\ i' = i + 2
    /\ IF argv[i].text \in DOMAIN opt THEN opt' = opt ELSE Set(argv[i].text, argv[i + 1])
    /\ UNCHANGED << input, pos, phase, args, outcome >>

(* The next token is the value, whatever it is. *)
TakeOption ==
    /\ InLoop /\ Dashed(argv[i]) /\ argv[i].text # "--force" /\ i + 1 <= Len(argv)
    /\ Set(argv[i].text, argv[i + 1]) /\ i' = i + 2
    /\ UNCHANGED << input, pos, phase, args, outcome >>

(* Plausible bug: the loop steps over a value that is not there. *)
TakeLastOption_Skips ==
    /\ InLoop /\ Dashed(argv[i]) /\ argv[i].text # "--force" /\ i = Len(argv)
    /\ Set(argv[i].text, One) /\ i' = i + 2
    /\ UNCHANGED << input, pos, phase, args, outcome >>

(* argv ends here: the value is "1". *)
TakeLastOption ==
    /\ InLoop /\ Dashed(argv[i]) /\ argv[i].text # "--force" /\ i = Len(argv)
    /\ Set(argv[i].text, One) /\ i' = i + 1
    /\ UNCHANGED << input, pos, phase, args, outcome >>

TakePositional ==
    /\ InLoop /\ ~Dashed(argv[i])
    /\ pos' = Append(pos, argv[i]) /\ i' = i + 1
    /\ UNCHANGED << input, opt, phase, args, outcome >>

EndLoop ==
    /\ phase = "parsing" /\ i > Len(argv)
    /\ phase' = "assign"
    /\ UNCHANGED << input, i, opt, pos, args, outcome >>

-----------------------------------------------------------------------------
(* The members of Args; main's use of them. *)

Empty == [text |-> "", chars |-> << >>]
Positional(n) == IF n <= Len(pos) THEN pos[n] ELSE Empty
Get(name) == IF name \in DOMAIN opt THEN opt[name] ELSE Empty

(* rng takes its count as the second positional. *)
Assign ==
    /\ phase = "assign" /\ phase' = "run"
    /\ args' = [group |-> Positional(1).text, command |-> Positional(2).text,
                positional |-> IF Positional(1).text = "rng" /\ Positional(3).text = ""
                               THEN Positional(2) ELSE Positional(3)]
    /\ UNCHANGED << input, i, opt, pos, outcome >>

Commands(group) ==
    {"genkey", "provision", "pub", "sign", "verify", "csr"} \cup
    (IF group = "ecc" THEN {"ecdh"} ELSE {"encrypt", "decrypt"})

(* What main comes to: the usage text, an exception, or a handler's work.  *)
None  == [kind |-> "none"]
Usage == [kind |-> "usage"]
Throw == [kind |-> "throw"]

Request ==
    [kind |-> "request", group |-> args.group, command |-> args.command,
     id    |-> strtoul(Get("--id").chars) % Pow(2, IdBits),
     force |-> "--force" \in DOMAIN opt,
     size  |-> Get(IF args.group = "ecc" THEN "--curve" ELSE "--bits").text,
     out   |-> Get("--out").text]

Count == [kind |-> "rng", count |-> strtoul(args.positional.chars),
          out |-> Get("--out").text]

(* Plausible bug: commands of one group are taken for those of the other.  *)
Asked_ByOtherGroup ==
    CASE args.group = "rng" -> IF args.positional.text = "" THEN Throw ELSE Count
      [] args.group \in {"ecc", "rsa"} ->
            IF args.command \notin Commands("rsa") \/ Get("--id").text = ""
            THEN Throw ELSE Request
      [] OTHER -> Usage

Asked ==
    CASE args.group = "rng" -> IF args.positional.text = "" THEN Throw ELSE Count
      [] args.group \in {"ecc", "rsa"} ->
            IF args.command \notin Commands(args.group) \/ Get("--id").text = ""
            THEN Throw ELSE Request
      [] OTHER -> Usage

Run ==
    /\ phase = "run" /\ phase' = "done"
    /\ outcome' = Asked
    /\ UNCHANGED << input, i, opt, pos, args >>

-----------------------------------------------------------------------------
Init ==
    /\ argv \in Lines /\ long \in LongWidths
    /\ i = 1 /\ opt = << >> /\ pos = << >> /\ phase = "parsing"
    /\ args = [group |-> "", command |-> "", positional |-> Empty]
    /\ outcome = None

Next == \/ TakeForce \/ TakeOption \/ TakeLastOption \/ TakePositional
        \/ EndLoop \/ Assign \/ Run

Spec == Init /\ [][Next]_vars

-----------------------------------------------------------------------------
(* The line as its author means it. *)

IsOption(k) == Dashed(argv[k]) /\ argv[k].text # "--force"
IsValue(k)  == k > 1 /\ IsOption(k - 1)
IsPlain(k)  == ~Dashed(argv[k]) /\ ~IsValue(k)
IsLast(k)   == \A j \in DOMAIN argv : j > k => argv[j].text # argv[k].text

(* On any line: the options in front of token k, back to the last token    *)
(* that is none, take each other for values in pairs, and the odd one out  *)
(* takes k.                                                                *)
TakenAsValue(k) ==
    \E m \in 1 .. k - 1 : /\ \A j \in m .. k - 1 : IsOption(j)
                          /\ m > 1 => ~IsOption(m - 1)
                          /\ (k - m) % 2 = 1

(* Every option has its value, and none looks like an option. *)
WellFormed ==
    \A k \in DOMAIN argv : IsOption(k) => k < Len(argv) /\ ~Dashed(argv[k + 1])

(* v is written with the given digits. *)
Denotes(base, digits, v) ==
    /\ v < Pow(base, Len(digits))
    /\ \A k \in DOMAIN digits :
          digits[k] = (v \div Pow(base, Len(digits) - k)) % base

(* The variables stay in their ranges: the loop never looks beyond argv.   *)
TypeOK ==
    /\ long \in LongWidths
    /\ i \in 1 .. Len(argv) + 1
    /\ DOMAIN opt \subseteq Options
    /\ Len(pos) < i
    /\ phase \in {"parsing", "assign", "run", "done"}
    /\ args.group \in {Empty.text} \cup { argv[k].text : k \in DOMAIN argv }
    /\ outcome.kind \in {"none", "usage", "throw", "rng", "request"}
    /\ outcome = None <=> phase # "done"

(* parseArgs: in whatever order a well-formed line is written, an option   *)
(* has the last value it is given, and no option appears that was not      *)
(* written.                                                                *)
OptionsAsWritten ==
    WellFormed /\ phase # "parsing" =>
        /\ DOMAIN opt = { argv[k].text : k \in { k \in DOMAIN argv : Dashed(argv[k]) } }
        /\ \A k \in DOMAIN argv : IsOption(k) /\ IsLast(k) => opt[argv[k].text] = argv[k + 1]

(* parseArgs: the words of a well-formed line that are neither options nor *)
(* values are the positionals, in their order, wherever they stand.        *)
PositionalsAsWritten ==
    WellFormed /\ phase # "parsing" =>
        LET plain == { k \in DOMAIN argv : IsPlain(k) }
        IN  /\ Len(pos) = Cardinality(plain)
            /\ \A k \in plain : pos[Cardinality({ j \in plain : j <= k })] = argv[k]

Documented(group) ==
    CASE group = "ecc" -> {"genkey", "pub", "sign", "verify", "ecdh", "csr"}
      [] group = "rsa" -> {"genkey", "pub", "sign", "verify", "encrypt", "decrypt", "csr"}
      [] OTHER -> {}

(* doEcc and doRsa take provision for genkey; no usage text speaks of it.  *)
Accepted(group) ==
    Documented(group) \cup IF group \in {"ecc", "rsa"} THEN {"provision"} ELSE {}

(* usage: a documented command with an identifier reaches the handler of   *)
(* its group, with --force if and only if it was written, wherever its     *)
(* options stand.  Of the commands that are not documented provision does, *)
(* and no other.                                                           *)
DocumentedLinesWork ==
    WellFormed /\ phase = "done" =>
        \A g, c \in DOMAIN argv :
            IsPlain(g) /\ IsPlain(c) /\ g < c /\ (\A j \in 1 .. c : IsPlain(j) => j \in {g, c}) =>
                LET asked == /\ argv[c].text \in Accepted(argv[g].text)
                             /\ \E k \in DOMAIN argv : /\ argv[k].text = "--id" /\ IsLast(k)
                                                      /\ argv[k + 1].text # ""
                IN  /\ asked <=> outcome.kind = "request"
                    /\ asked => /\ outcome.group = argv[g].text
                                /\ outcome.command = argv[c].text
                                /\ outcome.force <=> \E j \in DOMAIN argv : argv[j].text = "--force"

(* parseId: a number that is an identifier, written as C writes it, is     *)
(* neither truncated nor read in another base.                             *)
IdIsExact ==
    WellFormed /\ outcome.kind = "request" =>
        \A k \in DOMAIN argv : argv[k].text = "--id" /\ IsLast(k) =>
            LET chars == argv[k + 1].chars
            IN  \A v \in 0 .. Pow(2, IdBits) - 1 :
                   \/ \E digits \in {SubSeq(chars, 3, Len(chars))} :
                         /\ digits # << >> /\ chars = << 0, Ex >> \o digits
                         /\ Denotes(16, digits, v)
                   \/ chars # << >> /\ chars[1] = 0 /\ Denotes(8, chars, v)
                   \/ chars # << >> /\ chars[1] # 0 /\ Denotes(10, chars, v)
                   => outcome.id = v

(* The option --id stands at k, and is not the value of another option.    *)
GivesId(k) == argv[k].text = "--id" /\ ~TakenAsValue(k)

(* parseId: on any line, well-formed or not, no handler reaches for a key  *)
(* that the line does not name: there is an option --id that no other      *)
(* option has taken for its value, and what follows the last of them, or   *)
(* the 1 where nothing follows, is the identifier.                         *)
NoIdNoKey ==
    outcome.kind = "request" =>
        \E k \in DOMAIN argv :
            /\ GivesId(k) /\ \A j \in DOMAIN argv : GivesId(j) => j <= k
            /\ LET value == IF k < Len(argv) THEN argv[k + 1] ELSE One
               IN  outcome.id = strtoul(value.chars) % Pow(2, IdBits)

(* usage: --id <hex>.  Digits of a hexadecimal number name that number.    *)
IdIsHex ==
    WellFormed /\ outcome.kind = "request" =>
        \A k \in DOMAIN argv : argv[k].text = "--id" /\ IsLast(k) =>
            LET chars == argv[k + 1].chars
            IN  \A v \in 0 .. Pow(2, IdBits) - 1 :
                   chars # << >> /\ Denotes(16, chars, v) => outcome.id = v

=============================================================================
