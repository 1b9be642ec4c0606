SPECIFICATION Spec
CONSTANTS
    Protocols = {"masktwice"}
    Base <- MCBase
    Value <- MCValue
    Classes <- MCClasses
    Exactly = {}
    Processors = 2
    FieldSize <- MCFieldSize
    Scalar <- MCScalar
INVARIANT AnswersYesOrUnknown
