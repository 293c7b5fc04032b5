---------------------------- MODULE MCAssistant ----------------------------
EXTENDS Assistant

Lift == [periods |-> {[start |-> 3, end |-> 5]}, entities |-> <<[route |-> "belgrave"]>>]
Notice == [periods |-> {}, entities |-> <<[route |-> NoRoute]>>]
MCFeeds == {{Notice}, {Lift, Notice}}
=============================================================================
