\* Two threads that write, one of which reads, too.
SPECIFICATION Spec
CONSTANTS
    t1 = t1
    t2 = t2
    Thread = {t1, t2}
    Writers = {t1, t2}
    Readers = {t2}
    NoThread = NoThread
    Nil = Nil
    NoValue = NoValue
    Key <- Keys
    Type <- Types
    Value <- Values
INVARIANT NoEmptyNodes
PROPERTY IsDictionary
\* Put of the empty key into an empty trie ends the program.
CHECK_DEADLOCK FALSE
