SPECIFICATION FairSpec
CONSTANTS
    question = question
    upload = upload
    Content <- MCContent
    Write <- MCWrite
    Poll = 1
    Timeout = 1
    Lease = 3
    MaxNews = 2
INVARIANTS
    ClipFromThisExhibition
    LapseIsTold
PROPERTIES
    Promise
    FollowsOperator
