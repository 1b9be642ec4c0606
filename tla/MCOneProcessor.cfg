SPECIFICATION Spec
CONSTANTS
    Protocols = {"both"}
    Base <- MCBase
    Value <- MCValue
    Classes <- MCClasses
    Exactly = {}
    Processors = 1
    FieldSize <- MCFieldSize
    Scalar <- MCScalar
INVARIANT StopsOnlyWhenStuck
