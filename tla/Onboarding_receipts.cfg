SPECIFICATION OnbSpec
CONSTANTS
    w9 = w9
    photoId = photoId
    agreement = agreement
    first = first
    second = second
    Item <- MCItem
    Submission = {first, second}
    ByFile <- MCByFile
    ByAnswer <- MCByAnswer
    OtherForm = {w9}
    Delivery = {e1, e2}
    NoForm = NoForm
SYMMETRY OnbSymmetry
CHECK_DEADLOCK FALSE
PROPERTY ReceiptsCumulative
