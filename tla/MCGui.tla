------------------------------- MODULE MCGui -------------------------------
EXTENDS GuiLists
MCNames == {"a", "b"}
MCTexts == {[len |-> 1, shows |-> {"a", "b"}], [len |-> 2, shows |-> {"b"}]}
MCSaved == {<<<<"a", "b">>>>, <<<<"a">>, <<"b">>>>, <<<<"a">>, NoFile, <<"b">>>>}
=============================================================================
