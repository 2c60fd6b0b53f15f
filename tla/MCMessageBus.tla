---------------------------- MODULE MCMessageBus ----------------------------
EXTENDS MessageBus, TLC

CONSTANTS t1, t2, c1

MCThreads == {t1, t2}
MCThread == {t1}
MCClients == {c1}
\* As in the program: t1 stands for MediaInputModule, t2 for MediaMatrix, c1 for
\* the bus thread or a streaming thread.
MCChainRoutes == {<<c1, t1>>, <<t1, t2>>}
MCSelfRoutes == {<<c1, t1>>, <<t1, t1>>}
=============================================================================
