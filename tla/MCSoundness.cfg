SPECIFICATION Spec
CONSTANTS
    Protocols = {"masked"}
    Base <- MCBase
    Value <- MCValue
    Classes <- MCClasses
    Exactly = {}
    Processors = 2
    FieldSize <- MCFieldSize
    Scalar <- MCScalar
INVARIANT ProvedMeansSecure
