---------------------------- MODULE MCMessagePath -----------------------------
(* One item for every rule of parser, filter and quality check, in frames     *)
(* that mix them; two versions of one row, rows behind and ahead of time.     *)
EXTENDS MessagePath

Item == [ev |-> "A", sym |-> "A", o |-> 2, h |-> 3, l |-> 1, c |-> 2, v |-> 1,
         vw |-> 2, n |-> 1, s |-> 2, e |-> 3, otc |-> FALSE, readable |-> TRUE, typed |-> TRUE]

Again == [Item EXCEPT !.c = 3, !.e = 4]
Minute == [Item EXCEPT !.ev = "AM", !.vw = Null]
AboveHighest == [Item EXCEPT !.c = 4]
AtLimit == [Item EXCEPT !.h = 5]
NoNumber == [Item EXCEPT !.sym = "B", !.h = 11]
LowNoNumber == [Item EXCEPT !.sym = "B", !.l = 11]
Text == [Item EXCEPT !.typed = FALSE]
Small == [Item EXCEPT !.sym = "a"]
Otc == [Item EXCEPT !.sym = "B", !.otc = TRUE]
Early == [Item EXCEPT !.sym = "B", !.s = 5, !.e = 6]
Late == [Item EXCEPT !.s = 1]
Partial == [Item EXCEPT !.readable = FALSE]
Endless == [Item EXCEPT !.v = 20]
ManyTrades == [Item EXCEPT !.n = 20]
Other(event) == [Item EXCEPT !.ev = event]

MCFrames == {<<>>, <<Item, Minute>>, <<Otc, Early, Again>>,
             <<AboveHighest, Again, LowNoNumber, AtLimit, NoNumber>>,
             <<Small, Other("none"), Other("status"), Late, Text>>,
             <<Other("heartbeat"), Item, Partial, Endless, Item>>,
             <<Again, ManyTrades>>}
MCItems == UNION {{f[p] : p \in DOMAIN f} : f \in MCFrames}
MCDelay == [k \in Kinds |-> IF k = "second" THEN 1 ELSE 2]
==============================================================================
