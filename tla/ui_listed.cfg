SPECIFICATION Spec
CONSTANTS
    Str <- Texts
    Num = {1}
    Flt = {"1.5"}
    Byt = {"bytes"}
    Lists <- NeighbourLists
    Payload <- Payloads
    Replies <- Answers
    Arriving <- Rows
    Spelling <- SpeltOut
    NameOf <- Named
    Script <- UsersBroadcast
    Word <- Words
    Numeral <- Numerals
    Me = "me"
    Now = 1
    Lines = 1
    MaxArrivals = 1
    MaxOther = 1
CHECK_DEADLOCK FALSE
INVARIANTS SentAsListed
