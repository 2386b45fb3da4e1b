SPECIFICATION Spec
CONSTANTS
  MaxAssigns = 2
  ColorArgs = {0, 4, 9, 12, 13, 14, 15}
  AlphaArgs = {0, 2, 4, 6, 7}
  ColorValues <- SomeColors
  AlphaValues <- SomeAlphas
  Chosen = {"IND_MTXA", "IND_MTXB", "IND_MTXC", "IND_IMASK", "ColorCombiner", "AlphaCombiner", "TevStageIndirect", "TwoTevStageOrders", "TEXSCALE", "RAS1_IREF", "TexMode0", "TexMode1", "TexImage0", "TexImage1", "TexImage2", "TexImage3", "TexTLUT", "ZTex1", "ZTex2", "GenMode", "LPSize", "X12Y12", "X10Y10", "S32X10Y10", "BlendMode", "FogParam0", "FogParam3", "FogRangeKElement", "RangeBase", "FogColor", "ZMode", "ConstantAlpha", "FieldMode", "FieldMask", "PEControl", "TCInfo", "RA", "BG", "TevKSel", "AlphaTest", "UPE_Copy", "CopyFilterCoefficients", "BPU_PreloadTileInfo", "TexUnitAddress", "TVtxDesc", "UVAT_group0", "UVAT_group1", "UVAT_group2", "TMatrixIndexA", "TMatrixIndexB", "LitChannel"}
INVARIANTS
  KeepsMeaning
  PrintsAll
  AccessorsAgree
  EquationExact
CHECK_DEADLOCK FALSE
