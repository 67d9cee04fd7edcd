---- MODULE MCCveStore ----
EXTENDS CveStore
MCImage == {<<>>, <<"d1">>, <<"d1", "d1">>}
====
