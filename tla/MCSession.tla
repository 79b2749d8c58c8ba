------------------------------ MODULE MCSession ------------------------------
\* One account with one character; its clients have two connections between them.
EXTENDS Session, TLC

CONSTANTS ann, hero, one, two

MCUsers == {ann}
MCChars == {hero}
MCUserID == [c \in MCChars |-> ann]
MCConns == {one, two}
\* Behaviours are followed until an id leaks.
MCNoLeak == ~reselected
MCSymmetry == Permutations(MCConns)
=============================================================================
