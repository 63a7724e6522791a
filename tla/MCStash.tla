------------------------------ MODULE MCStash ------------------------------
EXTENDS Stash, TLC

CONSTANTS f1, f2, i1, i2, i3

\* A file posted twice by one creator and reposted by another, and a file (a
\* picture in the configurations) of a single post.
MCMedia == (i1 :> {f1, f2}) @@ (i2 :> {f1}) @@ (i3 :> {f1})
MCCreators == {{i1, i2}, {i3}}

\* The titles of the posts differ, or two of them agree.
DistinctTitles == [i \in Items |-> i]
EqualTitles    == [i \in Items |-> i1]
=============================================================================
