SPECIFICATION SerialSpec
CONSTANTS
    PipeMap <- ModelPipeMap
    LinkPipes = {9}
    AdvPipes = {9, 10}
    Sizes = {0, 20, 21, 27, 28, 29, 30, 36, 254}
    Intervals = {7, 3199}
    TxPipe = 9
    NamePipe = 1
INVARIANTS SerialTypeOK EncodesCommand DecodesAsStruct CopyFits AdvPipesKept IntervalInMs
