CONSTANTS
    Domains <- Names
    Replies <- AllReplies
SPECIFICATION Spec
INVARIANTS InBounds QueryNamesDomain FirstAddress
PROPERTY ReadingIsBounded
