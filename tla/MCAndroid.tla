----------------------------- MODULE MCAndroid ------------------------------
EXTENDS Android

MCLists == <<<<1, 2, 3>>, <<4>>>>
MCConf == [cmds |-> 3, order |-> <<"queue", "svc", "mp", "sys">>, notags |-> TRUE, repeat |-> FALSE,
           random |-> FALSE, rmerr |-> FALSE, rmnext |-> FALSE, addnext |-> FALSE,
           skip |-> FALSE, tail |-> FALSE]
MCConfs ==
  { [MCConf EXCEPT !.notags = FALSE],
    [MCConf EXCEPT !.cmds = 2, !.rmerr = TRUE, !.tail = TRUE, !.order = <<"sys", "mp", "svc", "queue">>],
    [MCConf EXCEPT !.addnext = TRUE, !.repeat = TRUE, !.skip = TRUE],
    [MCConf EXCEPT !.cmds = 2, !.random = TRUE, !.rmnext = TRUE] }

=============================================================================
