-------------------------------- MODULE MCPolicy --------------------------------
(* Instances of Policy: bytes of two bits, a frame of up to three bytes of  *)
(* which a witness shows two, one map.                                      *)
EXTENDS Policy

at(what, off, size, var) == [op |-> what, off |-> off, size |-> size, var |-> var]
load(off, size) == at("load", off, size, FALSE)
deref(off, size) == at("deref", off, size, FALSE)
store(off) == [op |-> "store", off |-> off]
mstore(off) == [op |-> "mstore", off |-> off]
on(what, key) == [op |-> what, key |-> key]
update(key, flags) == [op |-> "update", key |-> key, flags |-> flags]
set(v) == [op |-> "set", v |-> v]
do(what) == [op |-> what]
adjust_tail(d) == [op |-> "adjust_tail", d |-> d]

Diamond(kind, branch, b0, b1, b2, b3) ==
  [ops |-> <<b0, b1, b2, b3>>, branch |-> branch, kind |-> kind, max_entries |-> 2]
Program(kind, b0, b1, b2, b3) == Diamond(kind, "tested", b0, b1, b2, b3)

MCPrograms == {
  \* insert after a miss: the lookup's answer is not what the map holds later
  Program("hash", <<load(0, 1), on("lookup", Reg)>>, <<deref(0, 2), store(0)>>,
          <<set(6), update(1, "noexist"), on("lookup", 1)>>, <<load(0, 1)>>),
  \* a hit that is deleted in the block that looked it up
  Program("hash", <<on("lookup", 1), on("delete", 1)>>, <<on("lookup", 1)>>, << >>, << >>),
  \* the key of the second lookup is the value of the first
  Program("hash", <<set(1), on("lookup", Reg)>>, <<deref(0, 1), on("lookup", Reg)>>,
          <<do("call")>>, <<do("bss")>>),
  \* a value is written through the pointer, then read again
  Program("hash", <<on("lookup", 2)>>, <<deref(0, 2), mstore(1), deref(1, 1), deref(0, 2)>>,
          <<set(9), update(2, "exist"), on("delete", 1)>>, << >>),
  \* two calls, one on each side; the packet is read twice in a block, the second
  \* time at an offset just read
  Program("hash", <<do("call")>>, <<load(0, 2), store(1), load(1, 1), at("load", 0, 1, TRUE)>>,
          <<do("call"), do("setrx")>>, <<load(0, 1)>>),
  Program("array", <<load(1, 1), on("lookup", Reg)>>, <<deref(1, 1), do("bss")>>,
          <<set(7), update(1, "any")>>, <<on("lookup", 1), update(3, "any")>>) }
MCOtherPrograms == {
  \* outcomes the solver chooses: an adjustment, an update whose flags are unknown,
  \* a branch that is not recorded or a tail call to block 1
  Program("hash", <<adjust_tail(-1)>>, <<do("setrx")>>, <<set(5), do("bss")>>, <<do("call")>>),
  Program("hash", <<on("lookup", 1)>>, <<deref(0, 1), update(1, None)>>, << >>, <<on("lookup", 1)>>),
  Diamond("hash", "free", <<load(0, 1), do("tail_call")>>, <<set(2), do("bss")>>, <<set(5)>>, << >>),
  \* a byte the witness does not show
  Program("hash", <<load(1, 2)>>, <<load(0, 1)>>, <<do("call")>>, <<load(2, 1)>>),
  \* a byte of a map value at a constant offset, then at a variable one
  Program("hash", <<on("lookup", 1)>>, <<deref(0, 1), at("deref", 0, 1, TRUE)>>, << >>, << >>) }

AllPrograms == MCPrograms \cup MCOtherPrograms

MCWorlds ==
  { [pkt |-> f[1], len |-> f[2], present |-> [k \in Byte |-> k \in there], value |-> v,
     ret |-> [i \in Idx |-> (x * i) % Base], ok |-> x = 1, rx |-> x, r0 |-> 3] :
    f \in {<<<<1, 2, 3>>, n>> : n \in 1..PktSize} \cup {<<<<2, 1, 0>>, 2>>}, there \in {{}, {1}, {1, 2}},
    v \in {[k \in Byte |-> <<2, 1>>], [k \in Byte |-> <<k, 0>>]}, x \in 0..1 }

int(n) == [form |-> "int", n |-> n]
bytes(bs) == [form |-> "bytes", bytes |-> bs]
field(bits, v, s) == [bits |-> bits, v |-> v, set |-> s]
In(packet, len, maps, rx) == [packet |-> packet, pkt_len |-> len, maps |-> maps, rx |-> rx]
Map(entries) == [name |-> "m", entries |-> entries]

MCInputs == { None,
  In(<<<<field(1, 1, TRUE), field(1, 0, FALSE)>>, <<field(2, 2, TRUE)>>>>, None, None, 1),
  In(<<<<field(1, 0, TRUE), field(1, 1, TRUE), field(2, 0, FALSE)>>>>, 2, None, None),
  In(<<<<field(4, 6, TRUE)>>>>, 1, None, None),
  In(<<<<field(1, 0, TRUE)>>>>, None, None, None),
  In(<< >>, 2, Map(<< >>), None),
  In(<< >>, None, Map(<<<<int(1), int(6)>>, <<int(2), bytes(<<2, 1>>)>>>>), None),
  In(<< >>, None, Map(<<<<int(4), int(6)>>>>), None),
  In(<< >>, None, [name |-> "progs", entries |-> << >>], None) }

pkt(off, size, v, op) == [is |-> "pkt", off |-> off, size |-> size, value |-> v, op |-> op]
inmap(k, there, v) == [is |-> "map", name |-> "m", key |-> int(k), contains |-> there, value |-> v]
bss(size, v, op) == [is |-> "bss", off |-> 0, size |-> size, value |-> v, op |-> op]
len(min, max) == [is |-> "len", min |-> min, max |-> max]
ctx(v) == [is |-> "ctx", value |-> v, op |-> "eq"]
ctx_ne(v) == [ctx(v) EXCEPT !.op = "ne"]
ret(op, v) == [is |-> "ret", op |-> op, value |-> v]
call(idx, op, v) == [is |-> "call", idx |-> idx, helper |-> None, op |-> op, value |-> v, returns |-> None]
ptr(idx, r) == [is |-> "call", idx |-> idx, helper |-> "lookup", op |-> None, value |-> None, returns |-> r]
read(from, off, size, v, op) ==
  [is |-> "read", from |-> from, off |-> off, size |-> size, value |-> v, op |-> op]
tree(what, kids) == [is |-> what, kids |-> kids]

Atom == {
  pkt(0, 2, int(6), "eq"), pkt(0, 2, bytes(<<1, 2>>), "ne"), pkt(1, 1, int(4), "eq"), pkt(1, 1, int(2), "eq"),
  pkt(2, 1, int(3), "eq"),
  inmap(1, TRUE, None), inmap(2, FALSE, None), inmap(1, None, int(6)), inmap(1, None, bytes(<<2, 1>>)),
  inmap(2, FALSE, int(1)), inmap(1, None, None),
  bss(2, int(1), "eq"), bss(2, int(4), "ne"), len(1, 1), len(2, None), ctx(1),
  ret("eq", 2), ret("lt", 1), call(1, "ge", 1), call(2, "eq", 1), call(9, "ne", 1), call(13, "eq", 4),
  call(14, "eq", 0), ptr(2, "null"), ptr(1, "non_null"), ptr(11, "non_null"), ptr(6, "null"),
  read("load", 0, 2, int(6), "eq"), read("load", 1, 1, int(1), "ne"), read("deref", 0, 2, int(9), "eq"),
  read("deref", 1, 1, int(1), "eq") }

MCConds ==
  { [at |-> b, cond |-> a] : b \in Block \cup {None}, a \in Atom }
  \cup { [at |-> b, cond |-> c] : b \in {1, 4, None}, c \in {
           tree("and", << >>), tree("or", << >>), ctx_ne(1), len(None, None), tree("not", <<ctx(1), ctx(0)>>),
           tree("or", <<tree("not", <<ptr(2, "null")>>), inmap(1, TRUE, None)>>),
           tree("and", <<ret("eq", 2), pkt(0, 2, int(6), "eq")>>),
           tree("not", <<tree("and", <<len(2, None), pkt(0, 1, int(1), "eq")>>)>>) } }
=============================================================================
