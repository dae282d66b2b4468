------------------------------ MODULE KeyService ------------------------------
(***************************************************************************)
(* What the command line program promises, without its calls, buffers and  *)
(* contexts: a request is carried out on the key that its identifier names *)
(* and the file it names.  genkey alone changes the keys.  The file is     *)
(* written last, and from then on the answer is 0; any other answer leaves *)
(* it alone.  A request may be refused at any time before, and the service *)
(* may die at any time.                                                    *)
(***************************************************************************)
EXTENDS Naturals

CONSTANTS Demands,   \* what may be asked
          Slots,      \* the identifiers of the keys
          NoKey       \* an empty slot

VARIABLES keys,       \* the keys by identifier
          file,       \* what the file holds, and the key that made it
          made,       \* number of keys made so far
          request,    \* the last request
          status,     \* "idle", "busy", "done", "answered" or "dead"
          code        \* the answer

vars == << keys, file, made, request, status, code >>

Key == keys[request.id]
Holds(kind, k) == file = [kind |-> kind, key |-> k]
Put(k) == keys' = [keys EXCEPT ![request.id] = k]

Init ==
    /\ keys = [id \in Slots |-> NoKey] /\ made = 0
    /\ file = [kind |-> "none", key |-> NoKey]
    /\ request \in Demands
    /\ status = "idle" /\ code = 0

Ask ==
    /\ status \notin {"busy", "done"}
    /\ request' \in Demands
    /\ status' = "busy" /\ code' = 0
    /\ UNCHANGED << keys, file, made >>

(* The old key goes, if the user insists. *)
Forget ==
    /\ status = "busy" /\ request.cmd = "genkey" /\ request.force
    /\ Put(NoKey)
    /\ UNCHANGED << file, made, request, status, code >>

(* What genkey is asked to make. *)
NewKey(n) == [alg |-> request.group, size |-> request.size, serial |-> n]

(* A key is made, or the attempt was in vain.  When the service does not   *)
(* learn that it was made, it gives up.                                    *)
Make ==
    /\ status = "busy" /\ request.cmd = "genkey"
    /\ made' = made + 1
    /\ \/ Put(NewKey(made')) /\ UNCHANGED << status, code >>
       \/ (Put(NewKey(made')) \/ UNCHANGED keys) /\ status' = "answered" /\ code' = 1
    /\ UNCHANGED << file, request >>

(* When there is something to deliver: the key is there, for genkey the    *)
(* one just made; the input is what the command takes.                     *)
Deliverable ==
    /\ request.cmd # "rng" => Key # NoKey
    /\ request.cmd = "genkey" => Key = NewKey(made)
    /\ request.cmd \in {"sign", "encrypt", "decrypt", "ecdh", "csr"} => Key.alg = request.group
    /\ request.cmd = "decrypt" => Holds("cipher", Key)
    /\ request.cmd = "ecdh" => file.kind = "public" /\ file.key.alg = "ecc"
                               /\ file.key.size = Key.size

(* What a command delivers. *)
Kind == [ rng |-> "random", genkey |-> "public", pub |-> "public", sign |-> "signature",
          encrypt |-> "cipher", decrypt |-> "plain", ecdh |-> "secret", csr |-> "csr" ]

Torn == [kind |-> "torn", key |-> NoKey]

(* A write that is cut short goes unnoticed. *)
Deliver ==
    /\ status = "busy" /\ request.cmd \in DOMAIN Kind /\ Deliverable
    /\ IF request.out = "stdout" THEN UNCHANGED file
       ELSE file' \in {[kind |-> Kind[request.cmd],
                        key  |-> IF request.cmd \in {"rng", "decrypt"} THEN NoKey ELSE Key], Torn}
    /\ status' = "done"
    /\ UNCHANGED << keys, made, request, code >>

Answer(n) == status' = "answered" /\ code' = n /\ UNCHANGED << keys, file, made, request >>

Succeed == status = "done" /\ Answer(0)
Accept  == status = "busy" /\ request.cmd = "verify" /\ Holds("signature", Key) /\ Answer(0)
Reject  == status = "busy" /\ request.cmd = "verify" /\ Answer(2)
Refuse  == status = "busy" /\ Answer(1)

Die ==
    /\ status \in {"busy", "done"} /\ status' = "dead"
    /\ file' \in {file} \cup (IF status = "busy" /\ request.cmd \in DOMAIN Kind
                                    /\ request.out = "file" THEN {Torn} ELSE {})
    /\ UNCHANGED << keys, made, request, code >>

Next == \/ Ask \/ Forget \/ Make \/ Deliver
        \/ Succeed \/ Accept \/ Reject \/ Refuse \/ Die

Spec == Init /\ [][Next]_vars

=============================================================================
