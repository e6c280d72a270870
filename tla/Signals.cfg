SPECIFICATION MCSpec
CONSTANTS
    Node = {n1, n2, n3, n4}
    List = {self, l1, l2}
    Self = self
    Main = Main
    Nil = Nil
    MaxDepth = 7
    Snd = Snd
    Rcv = Rcv
    Null = Null
    Closed = Closed
    TxHandle = {s1, s2}
    RxHandle = {r1, r2}
    Size = 2
    MaxSends = 3
SYMMETRY Symmetry
INVARIANTS
    ListSound
    NotifyExact
    ValueOnce
    OtherSideWoken
    MessagesExact
    SleeperOwed
CHECK_DEADLOCK FALSE
