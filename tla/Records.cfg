SPECIFICATION MCSpec
CONSTANTS
    Handler = {h1, h2}
    Caller = {h1, h2}
    Delivery = {h1, h2}
    Sender = {h1, h2}
    Visit = {h1, h2}
    Presign = {h1, h2}
    Texter = {h1, h2}
    Document = {d1, d2}
    Photo = {k1, k2, k3}
    MaxPerJob = 2
    MaxPerRequest = 2
    w9 = w9
    photoId = photoId
    agreement = agreement
    first = first
    second = second
    Item <- MCItem
    Submission = {first, second}
    ByFile <- MCByFile
    ByAnswer <- MCByAnswer
    OtherForm = {w9}
    NoForm = NoForm
    jotform = jotform
    small = small
    large = large
    IntakeSubmission = {jotform, small, large}
    Web = {small, large}
    Units <- MCUnits
    Capacity = 2
    NoSubmission = NoSubmission
    MaxPhotos = 2
    MaxTexts = 3
SYMMETRY RecordsSymmetry
CHECK_DEADLOCK FALSE
INVARIANTS MCTypeOK
    FiledOnce ToldByOne ReceivedIsFiled ToldWhatAirtableShows StatusMatchesRow
    AcceptedWithinCap ReservationsFit ApprovedHasPhoto
    ReceiptsBacked StatusTellsTruth UnaskedOnce IntakeAccounted PhotosNearLimit TextedOnce
PROPERTIES DecisionKept KeepsTheAlbum ReceiptsKept UnlockedWhenShown
    BookingFits
