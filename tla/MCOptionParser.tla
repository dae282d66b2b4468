---------------------------- MODULE MCOptionParser ----------------------------
(***************************************************************************)
(* OptionParser on all short lines over a few words, and on every order of *)
(* the parts of long ones.  Identifiers have 8 bits instead of 32, unsigned*)
(* long as many or twice as many, as on the two machines.                  *)
(***************************************************************************)
EXTENDS OptionParser, SequencesExt

Word(text)          == [text |-> text, chars |-> << Other >>]
Number(text, chars) == [text |-> text, chars |-> chars]

Numbers == { Number("0x1f", << 0, Ex, 1, 15 >>), Number("0xff", << 0, Ex, 15, 15 >>),
             Number("0x1ff", << 0, Ex, 1, 15, 15 >>), Number("017", << 0, 1, 7 >>),
             Number("255", << 2, 5, 5 >>), Number("99999", << 9, 9, 9, 9, 9 >>),
             Number("ef", << 14, 15 >>), Number("10", << 1, 0 >>), Number("0x", << 0, Ex >>),
             Number("089", << 0, 8, 9 >>), Number("-1", << Minus, 1 >>), Empty }

(* Every line of at most four of these. *)
Words == { Word(text) : text \in {"rng", "ecc", "rsa", "genkey", "ecdh", "--id",
                                  "--out", "--other", "--force"} }
             \cup { Number("0x1f", << 0, Ex, 1, 15 >>), Empty }
Short == UNION { [1 .. n -> Words] : n \in 0 .. 4 }

(* Every order of five parts, one of them the option --id. *)
Parts(group, command, id) ==
    << << Word(group) >>, << Word(command) >>, << Word("--id"), id >>, << Word("--force") >>,
       << Word("--out"), Word("f") >> >>
Order(parts, p) == FlattenSeq([k \in 1 .. 5 |-> parts[p[k]]])
Orders == { p \in [1 .. 5 -> 1 .. 5] : \A j, k \in 1 .. 5 : p[j] = p[k] => j = k }
Long == { Order(Parts("ecc", command, id), p) :
             command \in {"provision", "encrypt"}, id \in Numbers, p \in Orders }

(* An option given twice. *)
Twice == { << Word("rsa"), Word("genkey"), Word("--id"), m, Word("--id"), n >> :
              m \in Numbers, n \in Numbers }

(* Options that follow each other and take each other for their values.    *)
Chain == { Word("--id"), Word("--out"), Word("--other"), Word("--force"),
           Number("0x1f", << 0, Ex, 1, 15 >>) }
Chains == { << Word("ecc"), Word("genkey") >> \o c : c \in UNION { [1 .. n -> Chain] : n \in 3 .. 5 } }

MCLines == Short \cup Long \cup Twice \cup Chains

=============================================================================
