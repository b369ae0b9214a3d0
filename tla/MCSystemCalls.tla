-------------------------- MODULE MCSystemCalls --------------------------
(***************************************************************************)
(* The calls a program makes: each family is the value of Calls in a run.  *)
(***************************************************************************)
EXTENDS SystemCalls

Long(name) == <<Word(name, 0), Word(name, 1)>>
Small(n) == <<Number(n), Zero>>
Padded(args, entry) == args \o [i \in 1 .. entry - Len(args) |-> Small(0)]

SysCall(entry, nr, args) ==
  [entry |-> entry, nr |-> nr, args |-> Padded(args, entry), list |-> <<>>]

Iov(name, n) == [off |-> Word(name, 0), sel |-> Word(name, 1), len |-> Number(n)]
Lists == {<<>>, <<Iov("a", 1)>>, <<Iov("a", 100), Iov("b", 1)>>,
          <<Iov("a", 100), Iov("b", 100), Iov("c", 100)>>}

Writev(entry, list) ==
  [entry |-> entry, nr |-> 999, list |-> list,
   args |-> Padded(<<Long("hf"), Long("iov"), Small(Len(list))>>, entry)]

\* Numbers that an entry knows and numbers that it does not.
Served ==
  {SysCall(entry, 2, <<Long("hf"), Long("buf"), Small(n)>>) : entry \in {3, 6}, n \in Counts} \cup
  {Writev(entry, list) : entry \in {3, 5}, list \in Lists} \cup
  {SysCall(entry, 4, <<Long("hf"), Long("unused")>>) : entry \in {2, 4}} \cup
  {SysCall(entry, 6, <<Long("code")>>) : entry \in {1, 2, 6}} \cup
  {SysCall(3, 1, <<Long("hf"), Long("buf"), Small(100)>>),
   SysCall(4, 24, <<Long("hf"), Long("request")>>),
   SysCall(0, 7, <<>>), SysCall(2, 7, <<>>), SysCall(1, 4, <<Long("hf")>>),
   [entry |-> -1, nr |-> 0, list |-> <<>>,
    args |-> <<Long("buf"), Small(12), Long("value")>>]}

\* Reading and leaving through the third entry; a write of one size after another.
ThirdEntry ==
  {SysCall(3, 1, <<Long("hf"), Long("buf"), Small(100)>>),
   SysCall(3, 6, <<Long("code")>>)}
Writes == {SysCall(3, 2, <<Long("hf"), Long("buf"), Small(n)>>) : n \in Counts}
=============================================================================
