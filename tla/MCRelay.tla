------------------------------- MODULE MCRelay -------------------------------
EXTENDS Relay

Ping  == << <<":">> >>
Named == << <<"event", "name">>, Data(Text) >>
Pair  == << Data(Text), Data(Text) >>

MCBlocks == {Named, << Data(Thought) >>, << Data(Used) >>, << Data(Done) >>, Ping, Pair}

MCLineEnds == {<<LF>>, <<CR>>, <<CR, LF>>}
=============================================================================
