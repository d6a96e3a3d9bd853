------------------------------ MODULE MCIngest ------------------------------
EXTENDS Ingest

a == <<97>>
\* "a-" comes between "a" and "a/a".
aDash == <<97, 45>>
MCNames == {a, aDash}
MCPaths == {<<a>>, <<aDash>>, <<a, a>>}
MCChunks == {"x", "y", "z"}
MCContents == {<<>>, <<"x", "y">>, <<"z", "y">>}

Is(k, c) == [kind |-> k, data |-> c, access |-> TRUE]
Unreadable == [Is("file", <<"x", "y">>) EXCEPT !.access = FALSE]
At(x, y, z) == (<<a>> :> x) @@ (<<aDash>> :> y) @@ (<<a, a>> :> z)
\* A directory with a file beside another file; a special file beside one file
\* under two names; a symlink, and a file that cannot be read.
MCTrees ==
  {[at |-> At(1, 2, 3), node |-> <<Is("dir", <<>>), Is("file", <<"x", "y">>), Is("file", <<>>)>>],
   [at |-> At(1, 2, 2), node |-> <<Is("dir", <<>>), Is("file", <<"x", "y">>), Is("other", <<>>)>>],
   [at |-> At(1, 3, Nowhere), node |-> <<Is("dir", <<>>), Is("file", <<>>), Is("other", <<>>)>>],
   [at |-> At(1, 2, 3), node |-> <<Is("dir", <<>>), Is("symlink", <<>>), Unreadable>>]}
=============================================================================
