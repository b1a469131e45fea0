------------------------------ MODULE MCAdmin ------------------------------
(* Two requests of the admin API at a time.                                  *)
EXTENDS AdminApi

(* Byte strings of n bytes. Of those for codes of 12 digits, which take 60   *)
(* of 64 bits, some differ early, two in the first bit of the last byte and  *)
(* two in its last bit only, which the code does not contain. Of 9 digits    *)
(* with a label of 3, one makes a code that is one of 12 digits, too.        *)
Bytes(n, seed, end) == [i \in 1 .. n |-> IF i = n THEN end ELSE (37 * i + seed) % 256]
MCRandom(n) ==
    CASE n = 8 -> {Bytes(n, seed, 16) : seed \in {3, 90, 161, 201}}
                    \union {Bytes(n, 3, 144), Bytes(n, 3, 17)}
      [] n = 6 -> {<<40, 77, 126, 112, 131, 8>>, Bytes(n, 90, 16), Bytes(n, 161, 16)}
      [] OTHER -> {Bytes(n, 3, 16)}

MCMac(label) == <<41, 123, 129, 255, 64, 18, 230, 91, 172, 5>>

Plain(count, length) ==
    [count |-> count, length |-> length, label |-> None, label_length |-> 6, label_pos |-> 8]
Labelled(length, label_length, label_pos) ==
    [count |-> 1, length |-> length, label |-> "L",
     label_length |-> label_length, label_pos |-> label_pos]

MCPayload ==
    {Plain(2, 12), Labelled(9, 3, 4), [Labelled(16, 16, 64) EXCEPT !.label = ""]}

MCConfig == [country : {"x", "y"}, product : {"x", "y"}]

(* A bound: a behaviour has batches or changes, not both. They share no row  *)
(* and no lock, and the audit log is kept by action.                         *)
Apart ==
    \/ batches = <<>>
    \/ audit["upsert"] = <<>> /\ audit["key"] = <<>> /\ \A h \in Request : ~Changing(h)

MCSpec ==
    /\ AdminInit /\ [][AdminNext /\ Apart']_vars
    /\ \A h \in Request : WF_vars(Stores(h)) /\ SF_vars(DrawsFresh(h))
=============================================================================
