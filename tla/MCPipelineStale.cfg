SPECIFICATION Spec
CONSTANTS
    Operands <- MCOperands
    TreeDepth = 12
    InstructionDepth = 8
    BitsPerByte = 1
    Sizes = {1, 2}
    MaxLeaves = 3
    MaxInlineDepth = 6
    MaxInlineNodes = 12
    ProofNodes = 12
    ProofDepth = 6
    MaxKernels = 4
    MaxPartitions = 2
    MaxObligations = 16
    Programs <- MCStalePrograms
    Inputs <- MCInputs
    Answers <- MCAnswers
PROPERTY EveryRewriteSound
