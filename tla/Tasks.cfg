CONSTANTS
    t1 = t1
    t2 = t2
    t3 = t3
    w1 = w1
    w2 = w2
    book = book
    summary = summary
    quote = quote
    picture = picture
    NoDocument = NoDocument
    Tasks = {t1, t2}
    Documents = {book}
    PageCount = 2
    Workers = {w1, w2}
    LLMSlots = 1
    Keys = {summary, picture}
    DocumentOf <- MCDocumentOf
    TaskSlots = 1
    MaxStops = 1
SPECIFICATION Spec

    
PROPERTIES
    EveryTaskEnds
CHECK_DEADLOCK FALSE
